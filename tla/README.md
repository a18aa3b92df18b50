# AuthSentinel in TLA+

TLA+ specifications of AuthSentinel, model-checked with TLC on small instances
and, where it can be done, proved with TLAPS for every value of their
constants. AuthSentinel is an authentication agent (a backend-for-frontend that
signs browsers in at an OpenID Connect provider and keeps their tokens in
Redis), a proxy that asks the agent who is calling and a policy what may pass,
and a plugin system both are built on.

`PROJECT.json` lists the components, the runs, the source lines each definition
models, the hazards and the theorems.

## The system

| Part | State | Operations | Where it is hard |
| --- | --- | --- | --- |
| Agent session operations (`internal/agent/service`, `internal/agent/httpserver`) | none of its own between calls; a copy of a session inside a request | `Session`, `Resolve`, `Refresh`, `Logout`, `AttachTenantContext` | read-modify-write of whole records in Redis by concurrent requests, a lock with a lease, tokens that are used up |
| Agent login (`service.go`, `oidc/*`) | PKCE states and sessions in Redis, the cached discovery document, the browser's cookie | `LoginStart`, `LoginEnd`, `Logout` | repeated callbacks, answers out of order, a failing provider, partial failure of a five-step exchange |
| Redis store (`internal/store/redis`) | session, PKCE, lock, revocation and replay keys, each with a TTL | get, set, delete, `SET NX` | a failed command and one whose answer is lost look the same |
| Identity provider (`cmd/mockidp` in the repository) | codes, refresh tokens | authorize, token, JWKS | outages; refresh tokens kept, rotated or retired |
| Token validation (`pkg/token`) | the JWKS cache | `ValidateIDToken`, `GetJWKS` | key rotation behind a cache |
| Plugin registry (`pkg/pluginregistry`, `pkg/plugindiscovery`) | descriptors, dependency links, the startup order | `Register`, `BuildDependencyGraph`, `StartupOrder`, `Resolve*`, `Enable`, `Disable` | random map order, failed builds, repeated builds |
| Rate-limit plugin (`pkg/plugins/pipeline/ratelimit`) | a token bucket for each key | `Configure`, `Handle` | requests that read the clock before they wait for the mutex |
| Proxy engine (`pkg/proxy`, `internal/proxy`) | none of its own | normalise, pipeline plugins, resolve, policy, headers, upstream | early ends and failures of every stage |
| Policy engines (`pkg/policy`) | a Rego query or a WASM module | `Load`, `Evaluate` | one WASM memory shared by all requests, reload while requests run, fallback |
| Start-up (`cmd/agent`, `cmd/proxy`) | which plugins and policy are enabled | configuration | what is left when discovery or a policy fails |
| Gateway adapters (`pkg/plugins/caddy`, `traefik`, `krakend`) | none of their own | run the proxy engine in the gateway, or ask the proxy and go by its status | what a missing status becomes; a call that fails when the proxy has decided |
| Client SDKs (`packages/sdk`, `pkg/sdk`) | the session a page shows; the session attached to a request | load, refresh, middleware | overlapping calls whose answers come in any order, a page that changes its agent or goes away |
| Plugin host, observability, tools | little or none | | outside the core |

How they interact: a browser calls the agent, which calls Redis and the
provider; the proxy calls the agent's `/internal/resolve` with the browser's
cookie for each request, runs the pipeline plugins and the policy, and forwards
to the upstream; an enrichment service may be called by the agent after a login
and calls back `PATCH /internal/session`. Agent processes share nothing but
Redis. Inside a process requests share the OIDC client (its discovery), the
JWKS cache, the rate-limit buckets and the policy engine. A gateway asks the
engine for each of its requests, in its own process or over HTTP. Pages and
servers built with the SDKs ask the agent for the session of a browser.

What makes the parts correct:

* sessions: refreshes of one session exclude each other while the lease lasts;
  a refresh never puts back older tokens; a deleted session stays deleted; the
  session keeps a refresh token that works; every request is answered and no
  lock is held for ever;
* login: one session for a login, a cookie only for a stored session, nothing
  from a login that is over; a logout ends the session and the cookie;
* registry: the order respects the dependencies, and failures are true;
* rate limit: no key gets more than its rate or less than its burst;
* policy and proxy: a decision is about the request it was made for, and a
  request reaches the upstream only when every stage let it pass;
* JWKS cache: a change of the provider's keys is known within the TTL, and a
  TTL needs one fetch, however many callers miss the cache;
* start-up: a manifest changes nothing of the plugins that are linked in;
* gateways: a request that the engine answers passes only after a decision on it,
  and under the session of its own cookie; of those it does not answer, only what
  an endpoint of the proxy answered, and only by status;
* clients: once its calls have ended, a page shows what was true while they
  ran, and it does not say for ever that it is loading; a handler runs once.

## Modules

| Module | Models |
| --- | --- |
| `RefreshExclusion` | abstract: a critical section with leases, what the refresh lock promises |
| `AgentSessions` | requests on existing sessions, over Redis and the provider |
| `AgentSessionsProofs` | its theorems |
| `OneTimeLogin` | abstract: a ticket that is claimed while open and redeemed once, what a login promises |
| `AgentLogin` | signing in and out: browser, agent, Redis, provider |
| `AgentLoginProofs` | its theorems |
| `PluginRegistry` | registration, enabling and the dependency graph |
| `PluginStartup` | the start of the agent and the proxy, over `PluginRegistry` |
| `PluginStartupProofs` | its theorems |
| `RateLimiter` | the token buckets |
| `RateLimiterProofs` | its theorems |
| `AccessGate` | abstract: a gate that identifies a request and judges it by the policy in force, what the proxy promises |
| `ProxyRequests` | requests through the proxy and the policy engine they share |
| `ProxyRequestsProofs` | its theorems |
| `GatewayRequests` | a gateway's handlers around the proxy, over `ProxyRequests` |
| `GatewayRequestsProofs` | its theorems, over those of `ProxyRequestsProofs` |
| `KeyCache` | token validation against cached keys |
| `KeyCacheProofs` | its theorems |
| `SessionClients` | pages and servers built with the SDKs, asking an agent |
| `SessionClientsProofs` | its theorems |
| `MC...` | instances and symmetry for TLC |

### AgentSessions

A *handler* is a slot for a request in any agent process. `pc[h]` names the call
it makes next; `copy[h]` is the session record it has read and is to write
back. Each call that leaves the handler is one action: `RefreshGet`,
`RefreshObtain`, `RefreshExchange`, `RefreshSet`, `RefreshRelease` are the calls
of `Service.Refresh` in their order (the last is the deferred `Release`),
`LogoutGet`/`LogoutDelete` those of `Logout`, `EnrichGet`/`EnrichSet` those of
`AttachTenantContext`; `ResolveGet` is `Resolve` and `Session`, which only read.
`Arrive` starts a request, `Crash` ends one without its deferred calls.

Tokens are generations: the provider's n-th token set of a session is `n`. A
record is the generation of its access token, of its refresh token (0 for none)
and its tenant context. `due` holds the access tokens near their expiry
(`Session.NeedsRefresh`); `TokenAges`, `SessionExpires` and `LockExpires` are
the passing of time. `RedisReplies` and `IdpReplies` say how calls may end. A
command of Redis that `"failed"` was not applied. One that is `"lost"` was applied
and its answer did not arrive: go-redis sends it again, up to `MaxRetries` = 3
times, and other requests may come in between. A `SET NX` sent again meets the key
it has set itself, so its request answers that nothing was refreshed and leaves the
lock to its TTL (`RefreshObtain`, `Missed`); a `SET` sent again puts back what its
handler holds (`RefreshSetAgain`); a `DEL` of the lock sent again takes the lock of
whoever has it by then (`RefreshReleaseAgain`). An answer of the provider that is
`"lost"` is an error, since the OIDC client does not retry. `RefreshTokens` is the
provider's policy.

`lapses`, `revoked` and `forfeited` are history variables. `lapses` counts the
leases that a refresh lost while in progress, by running out or to such a `DEL`.
`forfeited` marks a session whose newest tokens were lost on the way to the store
(an answer of the provider that was lost, a failed `SET`, a crash between the
exchange and the `SET`) or overwritten (by an enrichment that had read the ones
before, or by a `SET` sent again after a later refresh had stored its own).
`StaysRefreshable` says that with a provider that retires tokens these five are the
only ways to a stored refresh token it no longer honours: no lost lease, logout or
other failure is. It does not exclude the five, and no property is about a tenant
context that a refresh overwrites.

Left out: the contents of claims, headers and cookies, the cookie's signature
(a request with a bad one ends before it calls Redis), the cross-origin check
of a logout (a refused logout changes nothing), tracing and metrics.

### AgentLogin

A login is its `state` value; code, verifier and nonce go with it. `phase` says
how far the browser has come with it, `pkce` which states Redis has, `spent`
which codes the provider has exchanged. A handler serves a callback (`PkceGet`,
`PkceDelete`, `ExchangeCode`, `ValidateIDToken`, `SessionSet`, then `Welcome`
when the answer reaches the browser) or a logout (`LogoutGet`, `LogoutDelete`,
`EndSessionURL`, `Clear`); a callback that fails goes to `Clear`, except for a
Redis failure at `SessionSet`, which gives an error page. `Callback` may be
taken again for the same login: reloads. Answers are steps of their own, so
they reach the browser in any order. `discovery` is what the `sync.Once` of the
OIDC client has kept. `Restart` stops the process: requests end, Redis stays.

`WideCookie` is a deployment whose `cookie_domain` is a parent of the agent's
host (with a cookie name other than the default, whose `__Host-` prefix
excludes a Domain): the clearing Set-Cookie names no Domain and so does not
reach the cookie. The webhook is folded into the delay before `Welcome`: its
outcome is dropped, and the `PATCH` it may cause is `EnrichGet`/`EnrichSet`.
`LoginStart` is one step: its `pkce.Set` and the URL that follows it share no
state with other requests but the discovery, which the step includes.

`AgentLogin` implements `OneTimeLogin` (`ImplementsOneTimeLogin`), which knows
neither Redis nor a provider. The ticket of a login is open while its PKCE state
is stored (`Tickets`), the handler that has read the state is the clerk that
claimed it (`Steps`, `Claims`), the exchange of the code redeems it, and the
session a handler is about to set the cookie for is its badge (`Badges`). Failed
and lost calls, restarts, and every part of a logout but its DEL are clerks that
drop what they hold, a browser that forgets its cookie, or nothing at all.

### PluginRegistry

Each round of the loops of `BuildDependencyGraph` is a step: `Link(d)` resolves
the dependencies of one plugin, `Take(p)` removes one plugin from Kahn's queue.
Go's map iteration has no order, so the next plugin is any that is left, and
the queue is the set of ready plugins. `links` is `dependents`: how often a
provider lists a plugin; it is kept from build to build as in the code.
`enabled` is the `Enabled` flag of a registration, which `Enable` and `Disable`
set. `ResolveByCapability` and `ResolveAllByKind` only read, and nothing calls
them. The module has no run of its own: `PluginStartup` takes its steps, with
manifests of any content in the place of arbitrary registrations.

### PluginStartup

`stage` is where the main goroutine is; a stage ends by going on or, at a
`Fatalf`, in `"dead"`. Both programs register the linked plugins
(`RegisterBuiltin`, in any order as far as the properties care). The proxy then
walks the manifests (`Discover`, `TurnOff` for one that says `enabled: false`,
`DiscoveryFails`, `DiscoveryDone`), builds the graph (`Resolve`, `BeginOrder`,
`Order`, `EndOrder` are the steps of `PluginRegistry`; `GraphDone` passes over a
failure), loads the policy and makes the plugins its configuration lists; the
agent pings Redis first and makes its one provider plugin. `factories` are the
plugins whose factory makes an instance: that of a manifest always fails.
`running` is what the program serves with. Left out: what a configuration says
beyond the ids it lists, and a manifest's state and version.

### KeyCache

A caller is a validation of one ID token in one process. `pc` is the next thing
it does: `ReadCache` (under the read lock), `Lock` (the second look under the
write lock), `FetchJWKSURI`, `FetchJWKS` and `Store` (two requests to the
provider while it holds the write lock, and the arrival of the answer). `Judge`
is what becomes of the token given the keys; a token that no key verifies
(`NoKey`) stands for every other refusal. `fetchURL` caches the body of any 200
without a look at it: the answer of a fetch is the published set or `NoKeySet`, a
body that is no key set, with which every validation fails until the entry is
stale. Such a validation judges no token, and `JudgedByRecentKeys` asks only that
it accepts and refuses none. `Rotate` publishes or withdraws a key
at the provider. `Tick` is a unit of time: an entry has `TTL` of them, and an
answer arrives within `Transit` or the client's timeout ends the fetch. `since`,
how long ago the provider changed a key, is there for the property.

### RateLimiter

A request reads the clock (`ReadClock`) and then does everything else under the
mutex (`Handle`); between the two other requests may pass it, so a bucket sees
readings out of order, and `b.last` may go back. A bucket is counted in shares
of a token, `Refill` of them per tick and `Cost` for a request, in place of
floating-point seconds; the rounding of the division is left out. `admitted`,
`refused`, `opened` and `rewound` are history variables.

### ProxyRequests

A request passes `Arrive`, `Resolve`, `Pipeline`, then the policy engine, then
`Respond`. What the agent says of a cookie (`Resolved`) is its session, if that
is in `live`, the sessions it resolves; or nobody, which is its 401 both for a
session that has ended and for a Redis that fails, as `Service.Resolve` puts
every error as "session not found"; or an error, which turns the request away.
Sessions end (`SessionEnds`) and return (`SessionReturns`: a login, or a refresh
or enrichment that stores one again after a logout, as the run `sessions_logout`
shows), so a cookie that is dead when its request arrives may be live when the
agent looks. `bearer` records, as history, the session of a request's cookie if
it was live at some moment between its arrival and the agent's answer. A plugin
passes, decides or fails. An evaluation is three calls in the memory of the
module that it picked up: `WriteInput`, `Call`, `ReadOutput`, with a trap or a
misfit at each, which gives the fallback. `input[l]` is what lies at offset 0 of
the module that load `l` made; `output[r]` is what the call of `r` left for it,
which a later call may overwrite, as the policy may reuse its buffer, and so may
a later input (`WriteOver`): what is read then decides nothing, since an input
has no `allow` (a `"leftover"` decision, which denies), or is no JSON and gives
the fallback. With Rego the evaluation is one step on a query that nothing
changes (`EvalQuery`). A load is `Compile`, outside the lock, then `Install` or
`Refuse`. `config` is fixed at the start: the engine, `require_auth`,
`policy_fallback_allow`.

An input is told apart by its principal only. Left out: which headers a
principal, decision and obligations turn into, bodies, and the reconfiguration
of plugins; status codes are in `GatewayRequests`. Two writes that run into each
other may leave a mixture of both inputs: the policy then traps, or reads a text that
is still JSON and has the principal of one of them; which fields of the
other it has as well is not told apart, since an input is told apart by its
principal only. `cmd/proxy` loads its bundle once;
later loads are those the `policy` package offers. `overlap` is a history variable
as `bearer` is.

`ProxyRequests` implements `AccessGate` (`ImplementsGate`), which has no modules
and no memory: a request is identified in one step, as the session it names, if
that is live then, or as nobody where that is allowed; a later step fixes the
bundle that judges it, and a plugin, the fallback or that bundle allows it.
`Place` is where the gate has a request (one that is denied is already away),
`Who` the session it names and then the one it was resolved to, `Judge` the
bundle of the module it picked up, and `Heard` its `overlap`: with WASM the gate
may judge a request by what it heard of one under the same bundle, which is as
much as the shared memory allows; with Rego by the request alone (`rules.shared`).

### GatewayRequests

`mode` is how the gateway asks: `"handler"` is the engine in the gateway's own
process (the three adapters are the same handler), `"forward_auth"` is Caddy's
module that sends each request to `authsentinel-proxy` and goes by the status
of the answer. `gate[r]` is what the gateway makes of request `r`. Each step of
`ProxyRequests` is a step here (`Arrives`, `Proceeds`, `Denies`, `Allows`);
`UpstreamAnswers` is the answer of the proxy's own upstream, which the proxy
hands to the gateway as its answer, and `CallFails` a call that ends with 502
wherever the proxy is with the request, which goes on without its gateway.

Not every request reaches the engine. In forward-auth mode the gateway asks for
`authURL` with the client's path, and `authsentinel-proxy` answers some paths
itself: `/healthz`, `/readyz`, `/livez` and `/metrics` with 200, `/admin` with 200
or 403, another method with 405; a path that is neither there nor under the prefix
is 404. A body that cannot be read is 400 in either mode. `AnsweredOutside` is all of
these. `server[r]` says what answered: the `"engine"`, an `"endpoint"` of the proxy,
or `"nothing"` that could have allowed. `PassedForAReason` and
`PassedUnderOwnSession` name the endpoints as what they are: a way through a gateway
that goes by the status alone, on no decision and under no session, and the only one.

Of an answer only its status counts: `"refusal"`, `"2xx"`, or `"zero"` for a
decision that names none, which `WriteResponse` turns into 200. `Unnamed` is
where the two policy engines differ: a Rego result is written over the decision
of the fallback and so keeps that one's status, a WASM result or a plugin's
decision starts from zero. That a denial names the status of a refusal, or none, is
an assumption about plugins and policies: one that denies with a 2xx of its own
choosing is not modelled. `PassedForAReason` bounds what the missing status lets
through (forward-auth only, never the fallback's, with Rego only when the fallback
allows); it does not exclude it.

### SessionClients

A behaviour is one page (React provider, Flutter scope) or one server (Node, Go
middleware). A call is sent (`Load`, `Refresh`, `Request`), answered by the
agent (`AgentAnswers`) and received (`RefreshReturns`, `SessionReturns`,
`RequestReturns`) in steps of its own; nothing in the kits cancels a call, so any
number of them overlap. `shown` and `loading` are what a page shows, `base` the
agent it is pointed at (`SwitchAgent`), `mounted` whether it is still there
(`Leave`). React keeps the client a refresh began with and runs its effect again
for a new agent; Flutter takes the client the widget has when the refresh
returns, and fails in `setState` when the widget is gone. `attached` and `ran`
are what a middleware hands to the next handler and how often it calls it;
`NodeAgain` is the second `then` of the Node middleware, which runs after the
first has called `next` for an answer that is not 200, and `NodeCatch` its `catch`,
which calls `next` once more when either call of it threw (`threw`). The middleware
itself throws for a cookie that `decodeURIComponent` refuses (the third disjunct of
`Request`): then the handler never runs.

The agent is `SessionAnswer`: the truth, or one of `Faults` (Redis fails and the
agent says "unauthenticated", a gateway answers, nobody answers). The session
behind it begins and ends at any time (`SessionChanges`); `AgentSessions` has the
calls that do it. `possible` and `faulty` are history variables. Left out: the
users and claims of a session, the URLs, Go's gRPC interceptor, which validates a
bearer token and asks nobody, and its helpers for GraphQL.

## Runs

| Run | Instance | Shows |
| --- | --- | --- |
| `sessions_faults` | 1 session, 3 handlers, all requests, all failures, provider that retires tokens, 3 token sets, 2 lost leases; 555,363 states | `TypeOK`, `RefreshesBounded`, `GoneForGood`, `StaysRefreshable`; `ImplementsExclusion`: the Redis lock implements `RefreshExclusion` |
| `sessions_liveness` | 2 handlers, refreshes, logouts and enrichments, all failures, provider that keeps its refresh token; 96,975 states | `RefreshStoresNewest`, `RequestsAnswered`, `LockGivenUp` |
| `sessions_lapse` | 2 handlers | violated: `NoConcurrentRefresh`; the lease ends during a slow exchange |
| `sessions_logout` | 2 handlers | violated: `LogoutIsFinal`; a refresh writes a deleted session back |
| `startup` | both programs, 2 linked plugins, 2 manifests of any content, 2 capabilities | `StartTypeOK`, `StartupRespectsDependencies`, `BuildReportsTruly`, `LinkedKept`, `ServesEnabled`, `AdminShowsAll`, `StartEnds` |
| `keys` | 2 callers, 1 key, TTL 3, answers within 2; 26,028 states | `TypeOK`, `JudgedByRecentKeys`, `FetchedOncePerTTL`, `ValidationsAnswered` |
| `limiter` | 2 requests, 2 keys | `TypeOK`, `AdmissionBounded`, `BurstGranted` |
| `login` | 2 logins, 3 handlers, 3 session ids, all failures | `TypeOK`, `OneSessionPerLogin`, `CookieNamesLogin`, `LoginIsOver`; `ImplementsOneTimeLogin`: browser, agent, Redis and provider implement `OneTimeLogin` |
| `login_discovery` | 2 logins, provider that comes back | violated: `TurnedAwayOnlyWhenDown` |
| `proxy` | 2 requests, 2 loads of 2 bundles, 1 session, both engines, all settings, both kinds of gateway; 1,078,323 states | `TypeOK`, `ForwardedUnderOwnSession`, `DecidedForAReason`, `OneModuleOpen`, `GatewayTypeOK`, `PassedForAReason`, `PassedUnderOwnSession`; `ImplementsGate`: the proxy implements `AccessGate` |
| `client` | 2 calls, 2 agents, all four kits, all faults; 1,314,882 states | `TypeOK`, `SettledViewIsTrue`, `SettledIsNotLoading`, `ServedOnce`, `NoLateIdentity` |
| `proxy_input` | the proxy alone, same bounds | violated: `DecidedOnOwnInput`; a WASM policy answers about another request |

Each violated property is a sentence of the repository's documents or comments;
`PROJECT.json` quotes it under `findings`.

### Bounds, and why they are enough

Sessions do not influence each other (each key of Redis is its own), so one
session is checked and the proofs cover any number. Three handlers give every
pair a third that intervenes: the lock's worst case is a holder whose lease
lapsed, the one that took over, and one let in by the first one's `Release`.
`MaxIssued` = 3 lets two refreshes follow the first token set; `MaxLapses` = 2
lets two leases be lost under their holders; expiry of an idle lock is
unbounded, and so is how often a command is sent again. Two requests of the
proxy with different principals are enough to cross in a module's memory, and
two loads to cross each other and an evaluation; one bundle allows the session
and the other refuses it, so a decision tells them apart. A gateway handles its
requests one by one, so the same two requests are enough for it. The run `proxy`
counts states by the view `Remaining` of `MCGatewayRequests`, which leaves out
what no action and no property looks at any more: the cookie of a request that
is resolved, since when its session is live if it was resolved to nobody, an
output that was read, the memory of a module that is closed, an evaluation that
did not decide, and a request that is over and did not pass, or that the engine
did not answer. Two states with one view satisfy the same properties and have
the same steps, up to what is left out. Two calls of a page are a load and a
refresh, or two loads, that overlap, and two agents the one they began with and
the one the page is then pointed at; a middleware's requests do not meet. Two
logins are a browser's two tabs, and three handlers a callback, its repetition
and a logout; three session ids let each handler store one. A provider of two
capabilities, or a capability with two providers, is the case that Kahn's count
can get wrong; two manifests over two linked plugins give it, and a cycle of
two, a plugin that needs itself, and a manifest for an id that is taken. Keys
are looked up one by one, so one key is enough, and two callers are the one that
fetches and the one that waits; a TTL longer than `Transit` lets an entry be
fresh, stale and replaced by an answer already old. `MaxTime` lets a bucket
empty, refill and be read out of order. The bounds appear as guards of `Issue`,
`LoseLock`, `BeginBuild`, `Discover` and the limiter's `Tick` and nowhere else;
the theorems about sessions and the limiter hold for any value of theirs.

### Fairness

`sessions_liveness` assumes weak fairness of `MovesOn`, that each handler's call
ends, and of the expiry of the lock. The first holds because the clients of
Redis and of the provider have timeouts (go-redis' default, 10 s for OIDC), a
timeout is one of the ways a call ends, and no command is sent more than four
times; the second is what Redis promises of a key with a TTL. No fairness is
assumed of requests arriving, of crashes, or of session expiry. The lock is
never waited for: that is why `RequestsAnswered` needs no fairness between
handlers.

`proxy` and `client` state no fairness, and no liveness: the proxy and the SDKs
set no timeout of their own (`http.Client{}` in Go, `fetch` without a signal), so
a call may last as long as its other end likes. What a page may not do for ever
is therefore stated as a safety property of the moment no call is left.

`startup` assumes weak fairness of the main goroutine's own steps, not of the
signal that stops it. `keys` assumes weak fairness of the steps of a fetch,
which the client's timeout of 10 s ends if nothing else does, and strong
fairness of `ReadCache` and `Lock`: `sync.RWMutex` makes new readers wait for a
waiting writer and a new writer for the readers before it, so that nobody is
passed over for ever.

## Proofs

All theorems are about the specification for any values of its constants, from
the constant assumptions in the modules (`HandlersFinite`, `CookieNamesSession`,
`NoSessionIsNoRecord`, `LimitsConfigured`, ...).

* `AgentSessionsProofs`. `TypeCorrect` is the type invariant, whose interesting
  part is that a handler holds a copy exactly between its read and its write.
  `RefreshLockBounds` proves `RefreshesBounded`, which is inductive on top of
  the types: `Obtain` needs a free lock, and a lock is lost under its holder
  only by a counted lapse (`LoseLockBounded`) or by the `DEL` of a handler that leaves
  the critical section itself; the cardinality lemmas count handlers that enter and leave.
  `RefreshNeverGoesBack` strengthens `RefreshStoresNewest` with "while no lease
  was lost, a handler in the critical section is the only one".
  `RefreshLockImplementsExclusion` maps each step to a step or a stutter of
  `RefreshExclusion`. `ExclusiveUntilLapse` is what remains of the sentence
  that `sessions_lapse` shows violated: until a refresh loses its lease, no failure
  breaks it.
  `GoneSessionsStayGone` is an action property from the
  types alone. `SessionsStayRefreshable` holds under every
  failure and any enrichments: its invariant follows the honoured token from the
  provider, through the hand of the one refresh it can be in, to the store, and
  `forfeited` names the steps that lose it.
* `AgentLoginProofs`. The invariant `LoginInv` adds to the types where session
  ids come from (`Authentic`) and, for a provider that exchanges codes once,
  that a code is spent for one callback that waits or one session that is
  stored (`SpentOnce`). `LoginTypes`, `LoginCookie` and `LoginOneSession`
  follow from it, and `LoginStaysOver` from it and one look at each step.
  `LoginImplementsTicket` is the refinement of `OneTimeLogin`, with a lemma for
  each action (`PkceGetTicket`, `ExchangeTicket`, ...); the invariant is needed
  because a claim takes a completed login (`Authentic`). `ClerkMoves` and
  `TicketTurns` say that a step of one handler or login moves one clerk or ticket.
* `RateLimiterProofs`. Neither bound of the limiter is inductive: the bucket
  has to be tied to its history. `Ledger` says that the shares a key took out
  and has left are at most the burst and what came back up to `b.last` (plus
  what the disorder of readings gave back), and at least the burst.
  `LimiterTypes`, `LimiterAdmission` and `LimiterGrantsBurst` follow; multiplication by unknown
  constants is confined to one lemma.

* `KeyCacheProofs`. The invariant says of the entry, and of the answer on its
  way, that each key in it was published, and each key not in it was not, unless
  that changed within the age of the entry (`CacheRecent`, `AnswerRecent`), and
  that a fetch is in progress only while the entry is stale (`FetchNeeded`).
  `KeysRecent` and `KeysFetchedOnce` follow for any TTL and transit time, any
  callers and any keys, `CacheTypes` on the way.
* `PluginStartupProofs`. The invariant follows the linked plugins from their
  registration: no later `Register` can take their ids, `Disable` applies to the
  plugin of a manifest that was just registered, and factories belong to linked
  plugins only. `LinkedPluginsKept` and `OnlyEnabledServe` follow, and
  `StartUsesRegistry`: the start is a behaviour of `PluginRegistry`.
  What the dependency graph computes needs a second invariant, `Graph`, which
  says in each phase of the build what its counts stand for. While it links, the
  links made are those of the plugins no longer `unlinked`. While it sorts, the
  in-degree of a plugin is the number of links it still waits for, the queue
  holds those that are not listed and wait for none, and what is listed is in
  order and has no cycle. `TakeSorting` keeps that for one plugin taken from the
  queue: the count of a plugin passes zero exactly when the last of its providers
  is listed. `EndSortGraph` gets from it that what is never listed depends on
  itself. `StartTypesKept`, `StartupInOrder`, `BuildsReportTruly` and
  `AdminPageShowsAll` follow for any plugins, capabilities and manifests, and for
  the one build that the proxy makes.
* `ProxyRequestsProofs`. `Inv` says of each request (`Sound`) who it may be (nobody,
  or the session of its cookie if that was live since it came, whatever ends and returns),
  which inputs the memory of its module may hold between its write and its read
  (only those of evaluations it overlaps, since it overwrote what was there
  before), and why it was decided as it was. A step of one request leaves the
  others as they were (`StaysSound`), but for a write and a call in a shared
  memory, which have the longest proofs. `ProxyIdentity`, `ProxyDecisions` and
  `ProxyModules` follow, and `RegoDecidesOnOwnInput`: what `proxy_input` shows
  violated holds with the other engine. `ProxyImplementsGate` is the refinement
  of `AccessGate`. `GateStep` says that the gate sees of a step of one request that
  request alone, and `GatePlaces` where it has a request; from these each action
  of the proxy is an action of the gate or none. `Inv` is needed where a request
  is judged: `Sound` says that what a call left in the memory was heard.
* `GatewayRequestsProofs`. `GatewayKeepsProxy`: what the proxy does behind a
  gateway is a behaviour of `ProxyRequests`, so that its theorems hold there too,
  the refinement among them (`GatewayKeepsGate`).
  `GatewayInvariant` adds to the two properties that a request which has passed is
  over in the proxy or forwarded, or was never in the engine (`Through`), so that no
  later step of the proxy changes what it passed for. `GatewayTypes`,
  `GatewayDecisions` and `GatewayIdentity` follow.
* `SessionClientsProofs`. `ViewsAreTrue` strengthens `SettledViewIsTrue` to every
  answer that has come and not been received, each of which is true of a moment
  since the calls in progress began or belongs to a fault; `NoPageHangs` to a
  page that shows it is loading and has a call left that will end that.
  `HandlerRunsOnce` and `NobodyArrivesLate` follow the two runs of the Node
  middleware. All of them hold for any number of calls and agents.

Every invariant and every action property of a passing run, and each of the
three refinements, is proved. Only model-checked are the liveness properties
`RequestsAnswered`, `LockGivenUp`, `ValidationsAnswered` and `StartEnds`: fairness
and `ENABLED` are out of the prover's reach. What recursive definitions compute
for all inputs could not be proved with the provers at hand (no induction with
operator parameters); the modules have none. The runs of violated properties
have nothing to prove; where the property holds under a condition the code can
meet, that is a theorem (`ExclusiveUntilLapse`, `RegoDecidesOnOwnInput`).

## Plan

Done: sessions, login, rate limiter, proxy requests with the policy engines,
the gateways around them, the plugin registry and the start of both programs,
the key cache, the client SDKs; the abstract specifications of the refresh lock,
of signing in and of the proxy, with their refinements. Left, in this order:

1. A lookup service that answers each validation from a set of keys some caller
   fetched within the TTL, and `KeyCache` shown to implement it.
2. `AgentSessions` with `AgentLogin`: sessions that are created while others
   are refreshed, and the webhook's `PATCH` during the callback.

## Disagreements without a run

Runs of violated properties are kept for distinct causes in the core. These were
met while reading the code for the models, and have none:

* with `MaxBuilds = 2` a second build of the registry, after one that failed for
  a missing provider, counts the links of the first twice and breaks
  `StartupRespectsDependencies`; the proxy builds once, so the run has one build and
  no property is about a second;
* an enrichment that read a session before a refresh stored new tokens writes the
  old tokens back, by the unconditional SET that `sessions_logout` shows
  (`StaysRefreshable` allows for it through `forfeited`);
* with `WideCookie` a logout leaves the browser a cookie (whose session is
  deleted);
* `docs/` and the comments of the Traefik and Caddy adapters say "2xx = allow,
  else deny", but a denial for which a policy or plugin names no status is
  answered with 200, which forward-auth takes for allowed (the exception in
  `PassedForAReason`);
* by the same words ("2xx + headers = allow, else deny", `caddy/config.go:10`,
  `traefik/config.go:8`, `docs/integration/traefik.md:20`) forward-auth passes the
  requests for the paths that `authsentinel-proxy` answers with 200 itself, which
  nothing has decided and which need no session (the exception for `"endpoint"` in
  `PassedForAReason` and `PassedUnderOwnSession`);
* with `require_auth` off, a request whose session is live goes on as nobody's when
  the agent's Redis fails, since `Service.Resolve` puts the error as "session not
  found" and the handler answers 401; `AccessGate` allows it;
* a `proxy_path_prefix` that ends in `/`, as `/` does, is registered with one more `/`
  (`internal/proxy/httpserver/server.go:68-72`), which no cleaned path has: the engine
  is then asked nothing;
* a request that `authsentinel-proxy` allows behind forward-auth goes to the
  proxy's own upstream before the gateway's next handler runs, and the upstream's
  status decides whether it does;
* `RequestFromHTTP` drains the body; Caddy's forward-auth restores it, the
  in-process handlers pass their next handler an empty one;
* the Node middleware calls `next` twice for an answer that is not 200, and again
  for a `next` that throws (the exceptions in `ServedOnce`);
* of two overlapping loads of a page the one that is answered last wins, even when
  the agent judged it first, or it comes from an agent the page was switched from:
  `SettledViewIsTrue` promises a moment since the calls began, not the latest one;
* `session_client.dart` says an error gives "unknown", but an answer other than
  200 gives "unauthenticated"; `docs/sdk/go.md` describes `POST /refresh` where
  the code asks with GET, and a `requireAuth` of the gRPC interceptor that it does
  not have; `refreshed` is true in JS and Flutter whenever the agent answered 200,
  also when it refreshed nothing.

## Not modelled, and why

Cookie encoding and redirect validation are stateless functions on strings.
Generated protobuf code, the plugin host (interfaces only), observability,
command-line tools, schemas and deployments hold no protocol of their own.
The Redis revocation list and replay cache have no callers in the agent. The
policy bundle cache (`pkg/policy/bundle.go`) is used once, by the proxy's start,
so that its entries are never looked up again. The OIDC provider plugin hands
each call to the OIDC client, whose calls `AgentLogin` and `AgentSessions` make;
it is configured once, before the agent serves. Reading and checking
configuration files is parsing: only whether a configuration is accepted matters
to the models.
