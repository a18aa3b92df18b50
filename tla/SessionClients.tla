--------------------------- MODULE SessionClients ---------------------------
(***************************************************************************)
(* The client libraries (packages/sdk, pkg/sdk) asking an agent who is     *)
(* signed in.  A behaviour is one page, app or server built with one kit:  *)
(* a React provider or a Flutter scope that shows the session, a Node or   *)
(* Go middleware that attaches it to each request.  Every exchange with an *)
(* agent is sent, answered and received in steps of its own, so that calls *)
(* overlap and their answers arrive in any order, and the session may      *)
(* begin and end meanwhile.  No call is ever cancelled.                    *)
(***************************************************************************)
EXTENDS Naturals, FiniteSets

CONSTANTS
    Agent,    \* agents a client may be pointed at
    NoAgent,  \* React without agentBaseUrl: a client that asks nobody
    Call,     \* slots for calls of the library in progress
    Kits,     \* the kits of the instance
    Faults    \* what goes wrong on the way to a session, see below

Page == {"react", "flutter"}
Server == {"node", "go"}

\* "redis": the agent cannot read the session, and says it has none.
\* "gateway": an answer that is not 200.  "network": no answer.
Fault == {"redis", "gateway", "network"}

Status == {"authenticated", "unauthenticated", "unknown"}

\* What the agent answers, or what becomes of the call.
Answers == {"authenticated", "unauthenticated", "refused", "failed"}

ASSUME NoAgentIsNoAgent == NoAgent \notin Agent
ASSUME KitsKnown == Kits \subseteq Page \cup Server
ASSUME FaultsKnown == Faults \subseteq Fault

VARIABLES
    kit,         \* the kit of this behaviour
    requireAuth, \* the setting of the Go middleware
    base,        \* the agent the client is pointed at
    live,        \* agents at which the browser has a session
    due,         \* a page that is to load its session
    pc,          \* where a call is
    op,          \* why it was made
    to,          \* the agent it asks
    answer,      \* what came back of its question
    shown,       \* the session a page shows
    loading,     \* whether a page shows that it is loading
    mounted,     \* whether the page is still there
    attached,    \* the session a middleware has attached to a request
    ran,         \* how often a middleware has called the next handler
    threw,       \* history: whether a call of the next handler threw
    possible,    \* history: what was true since the calls in progress began
    faulty       \* history: whether a question of theirs went wrong

settings == <<kit, requireAuth>>
calls == <<pc, op, to, answer>>
page == <<base, due, shown, loading, mounted>>
server == <<attached, ran, threw>>
history == <<possible, faulty>>
vars == <<settings, live, calls, page, server, history>>

Info == [status : Status, at : Agent \cup {NoAgent}]
Nothing == [status |-> "unknown", at |-> "nobody"]

\* The session state of the browser's cookie at an agent.
Truth(a) ==
    [status |-> IF a = NoAgent THEN "unknown"
                ELSE IF live[a] THEN "authenticated" ELSE "unauthenticated",
     at     |-> a]

\* No call is in progress.
Settled == \A c \in Call : pc[c] = "idle"

\* Calls that are about the session at a; what they may be told is recorded.
About(a) == {c \in Call : pc[c] # "idle" /\ to[c] = a}

TypeOK ==
    /\ kit \in Kits
    /\ requireAuth \in BOOLEAN
    /\ base \in Agent \cup {NoAgent}
    /\ live \in [Agent -> BOOLEAN]
    /\ due \in BOOLEAN
    /\ pc \in [Call -> {"idle", "refresh", "session", "answered", "again", "catch"}]
    /\ op \in [Call -> {"load", "refresh", "request"}]
    /\ to \in [Call -> Agent \cup {NoAgent}]
    /\ answer \in [Call -> Answers]
    /\ shown \in Info \cup {Nothing}
    /\ loading \in BOOLEAN
    /\ mounted \in BOOLEAN
    /\ attached \in [Call -> {"unset", "null", "authenticated", "unauthenticated"}]
    /\ ran \in [Call -> 0 .. 3]
    /\ threw \in [Call -> BOOLEAN]
    /\ possible \subseteq Info
    /\ faulty \in BOOLEAN
    /\ \A c \in Call : pc[c] = "session" => to[c] # NoAgent

\* Only the React provider can do without an agent.
Init ==
    /\ kit \in Kits
    /\ requireAuth \in (IF kit = "go" THEN BOOLEAN ELSE {FALSE})
    /\ base \in Agent \cup (IF kit = "react" THEN {NoAgent} ELSE {})
    /\ live \in [Agent -> BOOLEAN]
    /\ due = (kit \in Page)
    /\ pc = [c \in Call |-> "idle"]
    /\ op = [c \in Call |-> "load"]
    /\ to = [c \in Call |-> NoAgent]
    /\ answer = [c \in Call |-> "failed"]
    /\ shown = Nothing
    /\ loading = (kit \in Page)
    /\ mounted = (kit \in Page)
    /\ attached = [c \in Call |-> "unset"]
    /\ ran = [c \in Call |-> 0]
    /\ threw = [c \in Call |-> FALSE]
    /\ possible = {}
    /\ faulty = FALSE

-----------------------------------------------------------------------------
(* The questions: GET /session and GET /refresh.                           *)

Record(a) ==
    /\ possible' = {Truth(a)} \cup (IF Settled THEN {} ELSE possible)
    /\ faulty' = (faulty /\ ~Settled)

\* getSession of the client for agent a, sent; the client for no agent
\* answers by itself.
NeverByItself(a) == FALSE
ByItself(a) == a = NoAgent
Ask(c, a) ==
    /\ pc' = [pc EXCEPT ![c] = IF ByItself(a) THEN "answered" ELSE "session"]
    /\ to' = [to EXCEPT ![c] = a]
    /\ answer' = [answer EXCEPT ![c] = "failed"]
    /\ Record(a)

\* What getSession makes of an answer: anything but 200 is "unauthenticated",
\* no answer is "unknown".
InfoOf(c) ==
    [status |-> CASE answer[c] = "authenticated"   -> "authenticated"
                  [] answer[c] = "unauthenticated" -> "unauthenticated"
                  [] answer[c] = "refused"         -> "unauthenticated"
                  [] answer[c] = "failed"          -> "unknown",
     at     |-> to[c]]

\* The agent reads the session; a failure of Redis is no session.
SessionAnswer(c) ==
    \/ /\ answer' = [answer EXCEPT ![c] = Truth(to[c]).status]
       /\ UNCHANGED faulty
    \/ /\ \E f \in Faults :
             answer' = [answer EXCEPT ![c] = CASE f = "redis"   -> "unauthenticated"
                                               [] f = "gateway" -> "refused"
                                               [] f = "network" -> "failed"]
       /\ faulty' = TRUE

AgentAnswers(c) ==
    /\ pc[c] = "session"
    /\ SessionAnswer(c)
    /\ pc' = [pc EXCEPT ![c] = "answered"]
    /\ UNCHANGED <<settings, live, op, to, page, server, possible>>

Done(c) == pc' = [pc EXCEPT ![c] = "idle"]

\* A call of a page leaves nothing behind.
Over(c) ==
    /\ Done(c)
    /\ op' = [op EXCEPT ![c] = "load"]
    /\ to' = [to EXCEPT ![c] = NoAgent]
    /\ answer' = [answer EXCEPT ![c] = "failed"]

-----------------------------------------------------------------------------
(* Pages.                                                                  *)

\* loadSession of the provider, run by its effect; _load of initState.
Load(c) ==
    /\ kit \in Page /\ mounted /\ due
    /\ pc[c] = "idle"
    /\ due' = FALSE
    /\ loading' = TRUE
    /\ op' = [op EXCEPT ![c] = "load"]
    /\ Ask(c, base)
    /\ UNCHANGED <<settings, live, base, shown, mounted, server>>

\* refresh(), by the app or when a Flutter app resumes.
Refresh(c) ==
    /\ kit \in Page /\ mounted /\ ~due
    /\ pc[c] = "idle"
    /\ pc' = [pc EXCEPT ![c] = "refresh"]
    /\ op' = [op EXCEPT ![c] = "refresh"]
    /\ to' = [to EXCEPT ![c] = base]
    /\ Record(base)
    /\ UNCHANGED <<settings, live, answer, page, server>>

\* The refresh has returned, whatever its outcome.  React goes on with the
\* client it began with; Flutter loads with the client the widget has now, and
\* fails in setState when the widget is gone.
ReactReload(c) ==
    /\ kit = "react"
    /\ Ask(c, to[c])
    /\ UNCHANGED <<op, loading>>
FlutterReload(c) ==
    /\ kit = "flutter" /\ mounted
    /\ Ask(c, base)
    /\ loading' = TRUE
    /\ UNCHANGED op
FlutterTooLate(c) ==
    /\ kit = "flutter" /\ ~mounted
    /\ Over(c)
    /\ UNCHANGED <<loading, history>>
ReloadIfRefreshed(c) ==
    \/ ReactReload(c) \/ FlutterReload(c) \/ FlutterTooLate(c)
    \/ Over(c) /\ UNCHANGED <<loading, history>>
Reload(c) == ReactReload(c) \/ FlutterReload(c) \/ FlutterTooLate(c)

RefreshReturns(c) ==
    /\ pc[c] = "refresh"
    /\ Reload(c)
    /\ UNCHANGED <<settings, live, base, due, shown, mounted, server>>

\* The end of a load: `finally`.  A React refresh never set loading.
StopsWhenKnown(c) == (op[c] = "load" \/ kit = "flutter") /\ answer[c] # "failed"
StopsLoading(c) == op[c] = "load" \/ kit = "flutter"

SessionReturns(c) ==
    /\ kit \in Page
    /\ pc[c] = "answered"
    /\ Over(c)
    /\ IF mounted
       THEN /\ shown' = InfoOf(c)
            /\ loading' = (loading /\ ~StopsLoading(c))
       ELSE UNCHANGED <<shown, loading>>
    /\ UNCHANGED <<settings, live, base, due, mounted, server, history>>

\* The app points the page at another agent.  The effect of React runs again;
\* nothing in Flutter notices.
SwitchAgent ==
    /\ kit \in Page /\ mounted
    /\ base' \in (Agent \cup (IF kit = "react" THEN {NoAgent} ELSE {})) \ {base}
    /\ due' = (due \/ kit = "react")
    /\ UNCHANGED <<settings, live, calls, shown, loading, mounted, server, history>>

\* The page goes away: unmounted, or left for a login or a logout.
Leave ==
    /\ kit \in Page /\ mounted
    /\ mounted' = FALSE
    /\ due' = FALSE
    /\ UNCHANGED <<settings, live, calls, base, shown, loading, server, history>>

-----------------------------------------------------------------------------
(* Middlewares.                                                            *)

\* A request arrives.  The Node middleware asks only when there is a cookie, and
\* throws when decodeURIComponent does.
Request(c) ==
    /\ kit \in Server
    /\ pc[c] = "idle"
    /\ op' = [op EXCEPT ![c] = "request"]
    /\ \/ /\ Ask(c, base)
          /\ attached' = [attached EXCEPT ![c] = "unset"]
          /\ ran' = [ran EXCEPT ![c] = 0]
       \/ /\ kit = "node"
          /\ attached' = [attached EXCEPT ![c] = "null"]
          /\ ran' = [ran EXCEPT ![c] = 1]
          /\ UNCHANGED <<pc, to, answer, history>>
       \/ /\ kit = "node"
          /\ attached' = [attached EXCEPT ![c] = "unset"]
          /\ ran' = [ran EXCEPT ![c] = 0]
          /\ UNCHANGED <<pc, to, answer, history>>
    /\ threw' = [threw EXCEPT ![c] = FALSE]
    /\ UNCHANGED <<settings, live, page>>

Attach(c, session) == attached' = [attached EXCEPT ![c] = session]
CallNext(c) == ran' = [ran EXCEPT ![c] = @ + 1]

\* The call of next returns, or throws (Express catches what a handler throws,
\* another caller of the middleware may not) and `catch` comes next.
NextReturns(c, then) == pc' = [pc EXCEPT ![c] = then] /\ UNCHANGED threw
NextThrows(c) ==
    /\ pc' = [pc EXCEPT ![c] = "catch"]
    /\ threw' = [threw EXCEPT ![c] = TRUE]

\* next is called before the answer has been read.
NodeReturnsEagerly(c) ==
    /\ kit = "node"
    /\ CallNext(c)
    /\ Attach(c, "null")
    /\ NextReturns(c, "again")

\* The first `then` calls next for an answer that is not 200 and returns
\* nothing, which the second takes for an answer.  `catch` hands the error on.
NodeReturns(c) ==
    /\ kit = "node"
    /\ CallNext(c)
    /\ \/ /\ answer[c] \in {"authenticated", "unauthenticated"}
          /\ Attach(c, answer[c])
          /\ NextReturns(c, "idle") \/ NextThrows(c)
       \/ /\ answer[c] = "refused"
          /\ Attach(c, "null")
          /\ NextReturns(c, "again") \/ NextThrows(c)
       \/ /\ answer[c] = "failed"
          /\ UNCHANGED attached
          /\ NextReturns(c, "idle")

\* An error is a 500, nobody is a 401 where someone is required.
GoReturns(c) ==
    /\ kit = "go"
    /\ Done(c)
    /\ \/ /\ answer[c] = "authenticated"
          /\ Attach(c, "authenticated")
          /\ CallNext(c)
       \/ /\ answer[c] = "unauthenticated" /\ ~requireAuth
          /\ CallNext(c)
          /\ UNCHANGED attached
       \/ /\ \/ answer[c] \in {"refused", "failed"}
             \/ answer[c] = "unauthenticated" /\ requireAuth
          /\ UNCHANGED <<attached, ran>>
    /\ UNCHANGED threw

RequestReturns(c) ==
    /\ pc[c] = "answered"
    /\ NodeReturns(c) \/ GoReturns(c)
    /\ UNCHANGED <<settings, live, op, to, answer, page, history>>

\* The second `then`, with no data: not authenticated.
BodyOfRefusal(c) == Truth(to[c]).status
NoData(c) == "unauthenticated"
NodeAgain(c) ==
    /\ pc[c] = "again"
    /\ Attach(c, NoData(c))
    /\ CallNext(c)
    /\ NextReturns(c, "idle") \/ NextThrows(c)
    /\ UNCHANGED <<settings, live, op, to, answer, page, history>>

\* `catch` hands on the error of a handler that has already run.
NodeCatch(c) ==
    /\ pc[c] = "catch"
    /\ CallNext(c)
    /\ Done(c)
    /\ UNCHANGED <<settings, live, op, to, answer, page, attached, threw, history>>

-----------------------------------------------------------------------------

\* A login, a logout or an expiry at an agent, in another tab or on its own.
SessionChanges(a) ==
    /\ live' = [live EXCEPT ![a] = ~@]
    /\ possible' = possible \cup (IF About(a) = {} THEN {} ELSE {Truth(a)'})
    /\ UNCHANGED <<settings, calls, page, server, faulty>>

Next ==
    \/ \E c \in Call :
          \/ AgentAnswers(c)
          \/ Load(c) \/ Refresh(c) \/ RefreshReturns(c) \/ SessionReturns(c)
          \/ Request(c) \/ RequestReturns(c) \/ NodeAgain(c) \/ NodeCatch(c)
    \/ SwitchAgent \/ Leave
    \/ \E a \in Agent : SessionChanges(a)

Spec == Init /\ [][Next]_vars

-----------------------------------------------------------------------------
(* What the kits promise.                                                  *)

\* However calls overlap, their answers are reordered and agents change, once
\* no call is in progress the page shows what was true, of an agent that was
\* asked, at some moment since the calls began that ended last; or, when one of
\* them went wrong, that nobody is known to be signed in.
Accounted(info) ==
    info \in possible \/ (faulty /\ info.status # "authenticated")

SettledViewIsTrue ==
    mounted /\ Settled => shown = Nothing \/ Accounted(shown)

\* A page with no call in progress does not say that it is loading.
SettledIsNotLoading ==
    mounted /\ ~due /\ Settled => ~loading

\* The next handler runs once for a request.  The Node middleware runs it once
\* more after an answer that is not 200, and once more when it threw.
ServedOnce ==
    \A c \in Call :
        ran[c] <= 1 + (IF kit = "node" /\ answer[c] = "refused" THEN 1 ELSE 0)
                    + (IF kit = "node" /\ threw[c] THEN 1 ELSE 0)

\* Who a handler that has begun takes the request for does not change under
\* it: what the second run changes is only how nobody is put.
NoLateIdentity ==
    [][\A c \in Call : pc[c] # "idle" /\ ran[c] > 0 =>
          (attached[c] = "authenticated") = (attached'[c] = "authenticated")]_vars
=============================================================================
