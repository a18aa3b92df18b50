--------------------------- MODULE ProxyRequests ---------------------------
(***************************************************************************)
(* authsentinel-proxy from the middleware to the upstream: each request    *)
(* resolves its principal at the agent, runs the pipeline plugins, asks    *)
(* the policy engine and is forwarded or answered (pkg/proxy, pkg/policy,  *)
(* internal/proxy).  Requests run concurrently and share one policy        *)
(* engine, which loads of a bundle replace under them.                     *)
(*                                                                         *)
(* The WASM engine hands an input to the policy through the memory of the  *)
(* loaded module: it writes the input at offset 0, calls evaluate, and     *)
(* reads the output where the module put it.  No lock spans the three.     *)
(*                                                                         *)
(* An input is told apart by its principal; the method, path and headers   *)
(* that go with it, status codes and bodies are left out.                  *)
(***************************************************************************)
CONSTANTS
    Request,    \* slots for requests in flight
    Session,    \* sessions of the agent
    NoOne,      \* the principal of a request without a session
    Bundle,     \* policy bundles
    Permits,    \* the principals a bundle allows
    Load,       \* calls of Load; each makes a module of its own
    NoModule,   \* no bundle has been loaded
    NoBundle,   \* the bundle of a load that was not called
    NoInput,    \* nothing has been written to a module's memory
    NoDecision

Principal == Session \cup {NoOne}
\* A leftover is an output of the policy that an input was written over.
Decision ==
    [by : {"plugin", "fallback", "policy", "leftover"}, allow : BOOLEAN, on : Principal]
Config == [engine : {"wasm", "rego"}, requireAuth : BOOLEAN, fallbackAllow : BOOLEAN]

\* Steps of an evaluation that has a module: of both engines, then of WASM.
Evaluating == {"evaluate", "call", "read"}
Decided == {"respond", "forwarded"}
PC == {"idle", "resolve", "pipeline", "policy"} \cup Evaluating \cup Decided

ASSUME PolicyAssumption == Permits \in [Bundle -> SUBSET Principal]
ASSUME NothingIsNoValue ==
    /\ NoOne \notin Session
    /\ NoModule \notin Load
    /\ NoBundle \notin Bundle
    /\ NoDecision \notin Decision

VARIABLES
    config,     \* the policy engine, require_auth and policy_fallback_allow
    live,       \* the sessions the agent resolves
    pc,
    cookie,     \* the session a request's cookie names
    principal,  \* whom the agent resolved the cookie to
    using,      \* the module an evaluation picked up
    decision,
    module,     \* the loaded module (WASM) or prepared query (Rego)
    stage,      \* how far a load has come
    bundle,     \* the bundle of a load
    input,      \* the input in the memory of a module
    output,     \* the input that the output of a request's call is about
    bearer,     \* history: the cookie's session, if it was live since the request came
    overlap     \* history: inputs of the evaluations a request shared the memory with

engine == <<module, stage, bundle>>
memory == <<input, output>>
request == <<cookie, principal, bearer>>
evaluation == <<using, decision, overlap>>
vars == <<config, live, pc, request, evaluation, engine, memory>>

TypeOK ==
    /\ config \in Config
    /\ live \subseteq Session
    /\ pc \in [Request -> PC]
    /\ cookie \in [Request -> Principal]
    /\ principal \in [Request -> Principal]
    /\ using \in [Request -> Load \cup {NoModule}]
    /\ decision \in [Request -> Decision \cup {NoDecision}]
    /\ module \in Load \cup {NoModule}
    /\ stage \in [Load -> {"unused", "compiled", "loaded", "replaced", "failed"}]
    /\ bundle \in [Load -> Bundle \cup {NoBundle}]
    /\ input \in [Load -> Principal \cup {NoInput}]
    /\ output \in [Request -> Principal \cup {NoInput}]
    /\ bearer \in [Request -> Principal]
    /\ overlap \in [Request -> SUBSET Principal]
    /\ \A r \in Request :
        /\ pc[r] \in Evaluating => using[r] # NoModule
        /\ pc[r] \in Decided => decision[r] # NoDecision
    /\ \A l \in Load : stage[l] # "unused" => bundle[l] # NoBundle

Init ==
    /\ config \in Config
    /\ live \in SUBSET Session
    /\ pc = [r \in Request |-> "idle"]
    /\ cookie = [r \in Request |-> NoOne]
    /\ principal = [r \in Request |-> NoOne]
    /\ using = [r \in Request |-> NoModule]
    /\ decision = [r \in Request |-> NoDecision]
    /\ module = NoModule
    /\ stage = [l \in Load |-> "unused"]
    /\ bundle = [l \in Load |-> NoBundle]
    /\ input = [l \in Load |-> NoInput]
    /\ output = [r \in Request |-> NoInput]
    /\ bearer = [r \in Request |-> NoOne]
    /\ overlap = [r \in Request |-> {}]

Goto(r, step) == pc' = [pc EXCEPT ![r] = step]

-----------------------------------------------------------------------------
(* The engine up to the policy.                                            *)

\* RequestFromHTTP: a request with the cookie of a session, which may have
\* ended, or with none the agent can read.
Arrive(r) ==
    /\ pc[r] \in {"idle", "forwarded"}
    /\ Goto(r, "resolve")
    /\ \E s \in Principal :
        /\ cookie' = [cookie EXCEPT ![r] = s]
        /\ bearer' = [bearer EXCEPT ![r] = IF s \in live THEN s ELSE NoOne]
    /\ principal' = [principal EXCEPT ![r] = NoOne]
    /\ using' = [using EXCEPT ![r] = NoModule]
    /\ decision' = [decision EXCEPT ![r] = NoDecision]
    /\ overlap' = [overlap EXCEPT ![r] = {}]
    /\ output' = [output EXCEPT ![r] = NoInput]
    /\ UNCHANGED <<config, live, engine, input>>

\* A request the engine answers itself, before a decision.
TurnAway(r) == Goto(r, "idle")

\* Whom the agent resolves a cookie to: 401 of the agent is nobody, and it is
\* the agent's answer for a session that has ended and for an error of Redis.
ResolvedFromCache(s) == {NoOne, s}
Resolved(s) == {NoOne} \cup ({s} \cap live)

Admitted(p) == p # NoOne \/ ~config.requireAuth

\* Resolve asks the agent; an error of the call, or any other answer, is 502.
Resolve(r) ==
    /\ pc[r] = "resolve"
    /\ \/ TurnAway(r) /\ UNCHANGED principal
       \/ \E p \in Resolved(cookie[r]) :
          /\ principal' = [principal EXCEPT ![r] = p]
          /\ IF Admitted(p) THEN Goto(r, "pipeline") ELSE TurnAway(r)
    /\ UNCHANGED <<config, live, cookie, bearer, evaluation, engine, memory>>

Decide(r, by, allow, on) ==
    /\ Goto(r, "respond")
    /\ decision' = [decision EXCEPT ![r] = [by |-> by, allow |-> allow, on |-> on]]

\* The plugins run in their order up to the first that fails or decides.
Pipeline(r) ==
    /\ pc[r] = "pipeline"
    /\ \/ TurnAway(r) /\ UNCHANGED decision
       \/ \E allow \in BOOLEAN : Decide(r, "plugin", allow, principal[r])
       \/ Goto(r, "policy") /\ UNCHANGED decision
    /\ UNCHANGED <<config, live, request, using, overlap, engine, memory>>

-----------------------------------------------------------------------------
(* The policy engines.                                                     *)

Fallback(r) == Decide(r, "fallback", config.fallbackAllow, principal[r])

BundleOf(l) == IF l = NoModule THEN NoBundle ELSE bundle[l]

\* A decision of the policy about the input on, which the engine takes for
\* that of the request.
VerdictOfNewest(r, on) == Decide(r, "policy", on \in Permits[BundleOf(module)], on)
Verdict(r, on) == Decide(r, "policy", on \in Permits[bundle[using[r]]], on)

\* Evaluate reads the module under the lock and lets go of the lock.
PickUnchecked(r) ==
    /\ pc[r] = "policy"
    /\ Goto(r, "evaluate")
    /\ using' = [using EXCEPT ![r] = module]
    /\ UNCHANGED <<config, live, request, decision, overlap, engine, memory>>
Pick(r) ==
    /\ pc[r] = "policy"
    /\ IF module = NoModule
       THEN Fallback(r) /\ UNCHANGED using
       ELSE /\ Goto(r, "evaluate")
            /\ using' = [using EXCEPT ![r] = module]
            /\ UNCHANGED decision
    /\ UNCHANGED <<config, live, request, overlap, engine, memory>>

\* A result of a query that leaves out allow has that of the fallback.
ResultOrFallback(r, on) == Verdict(r, on) \/ Fallback(r)

\* The Rego engine evaluates a prepared query, which nothing changes.
EvalQuery(r) ==
    /\ config.engine = "rego"
    /\ pc[r] = "evaluate"
    /\ ResultOrFallback(r, principal[r])
    /\ overlap' = [overlap EXCEPT ![r] = {principal[r]}]
    /\ UNCHANGED <<config, live, request, using, engine, memory>>

\* Other evaluations between their write to a module's memory and their read.
InMemory(r) == {q \in Request \ {r} : pc[q] \in {"call", "read"} /\ using[q] = using[r]}

\* The inputs an evaluation shares the memory with, as another one writes its own.
Overlapping(r) == [q \in Request |->
    CASE q = r -> {principal[r]} \cup {principal[o] : o \in InMemory(r)}
      [] q \in InMemory(r) -> overlap[q] \cup {principal[r]}
      [] OTHER -> overlap[q]]

\* An input is written over the outputs that others have yet to read, or beside
\* them.
WriteOver(r) ==
    \/ UNCHANGED output
    \/ output' = [q \in Request |->
           IF q \in InMemory(r) /\ pc[q] = "read" THEN NoInput ELSE output[q]]

\* mem.Write(0, inputJSON), or the fallback when it does not fit.
WriteInputOnce(r) ==
    /\ config.engine = "wasm"
    /\ pc[r] = "evaluate"
    /\ Goto(r, "call")
    /\ input' = [input EXCEPT ![using[r]] = IF @ = NoInput THEN principal[r] ELSE @]
    /\ overlap' = Overlapping(r)
    /\ UNCHANGED <<config, live, request, using, decision, output, engine>>
WriteInput(r) ==
    /\ config.engine = "wasm"
    /\ pc[r] = "evaluate"
    /\ \/ Fallback(r) /\ UNCHANGED <<overlap, memory>>
       \/ /\ Goto(r, "call")
          /\ input' = [input EXCEPT ![using[r]] = principal[r]]
          /\ overlap' = Overlapping(r)
          /\ WriteOver(r)
          /\ UNCHANGED decision
    /\ UNCHANGED <<config, live, request, using, engine>>

\* The policy puts its output where it likes: at a place of its own, or over
\* the outputs that others have yet to read.
Output(r) ==
    LET on == input[using[r]] IN
    \/ output' = [output EXCEPT ![r] = on]
    \/ output' = [q \in Request |->
           IF q = r \/ (q \in InMemory(r) /\ pc[q] = "read") THEN on ELSE output[q]]

\* eval.Call: the policy reads what lies in the memory, or traps; a module that
\* was closed always fails.
Call(r) ==
    /\ pc[r] = "call"
    /\ \/ Fallback(r) /\ UNCHANGED output
       \/ /\ stage[using[r]] # "replaced"
          /\ Output(r)
          /\ Goto(r, "read")
          /\ UNCHANGED decision
    /\ UNCHANGED <<config, live, request, using, overlap, input, engine>>

\* mem.Read is a view of the memory, which json.Unmarshal reads or refuses; a
\* result that leaves out allow denies, and so does an input in its place.
ReadOutput(r) ==
    /\ pc[r] = "read"
    /\ \/ output[r] # NoInput /\ Verdict(r, output[r])
       \/ output[r] = NoInput /\ Decide(r, "leftover", FALSE, principal[r])
       \/ Fallback(r)
    /\ UNCHANGED <<config, live, request, using, overlap, engine, memory>>

-----------------------------------------------------------------------------
(* The upstream.                                                           *)

\* To the upstream with the headers of the principal, without the cookie.
Forward(r) == Goto(r, "forwarded")

\* The middleware forwards an allowed request and answers a denied one.
Respond(r) ==
    /\ pc[r] = "respond"
    /\ IF decision[r].allow THEN Forward(r) ELSE TurnAway(r)
    /\ UNCHANGED <<config, live, request, evaluation, engine, memory>>

-----------------------------------------------------------------------------
(* Loading a bundle.                                                       *)

\* Load reads and compiles the file; a failure so far changes nothing.
Compile(l) ==
    /\ stage[l] = "unused"
    /\ stage' = [stage EXCEPT ![l] = "compiled"]
    /\ \E b \in Bundle : bundle' = [bundle EXCEPT ![l] = b]
    /\ UNCHANGED <<config, live, pc, request, evaluation, module, memory>>

\* Under the lock the new module takes the place of the old, which WASM closes.
InstallUnclosed(l) ==
    /\ stage[l] = "compiled"
    /\ module' = l
    /\ stage' = [stage EXCEPT ![l] = "loaded"]
    /\ UNCHANGED <<config, live, pc, request, evaluation, bundle, memory>>
Install(l) ==
    /\ stage[l] = "compiled"
    /\ module' = l
    /\ stage' = [k \in Load |->
          CASE k = l -> "loaded" [] k = module -> "replaced" [] OTHER -> stage[k]]
    /\ UNCHANGED <<config, live, pc, request, evaluation, bundle, memory>>

\* The module cannot be instantiated, or lacks an export.
Refuse(l) ==
    /\ config.engine = "wasm"
    /\ stage[l] = "compiled"
    /\ stage' = [stage EXCEPT ![l] = "failed"]
    /\ UNCHANGED <<config, live, pc, request, evaluation, module, bundle, memory>>

\* A session of the agent ends: logout or expiry.
SessionEnds ==
    /\ \E s \in live : live' = live \ {s}
    /\ UNCHANGED <<config, pc, request, evaluation, engine, memory>>

\* A login stores a session, or a refresh or an enrichment stores one again that
\* it had read before its end.
SessionReturns ==
    /\ \E s \in Session \ live :
        /\ live' = live \cup {s}
        /\ bearer' = [r \in Request |->
               IF pc[r] = "resolve" /\ cookie[r] = s THEN s ELSE bearer[r]]
    /\ UNCHANGED <<config, pc, cookie, principal, evaluation, engine, memory>>

Serve(r) ==
    \/ Resolve(r) \/ Pipeline(r) \/ Pick(r) \/ EvalQuery(r)
    \/ WriteInput(r) \/ Call(r) \/ ReadOutput(r) \/ Respond(r)

Next ==
    \/ \E r \in Request : Arrive(r) \/ Serve(r)
    \/ \E l \in Load : Compile(l) \/ Install(l) \/ Refuse(l)
    \/ SessionEnds \/ SessionReturns

Spec == Init /\ [][Next]_vars

-----------------------------------------------------------------------------
(* What the proxy guarantees.                                              *)

\* A request is forwarded under the session of its own cookie, which was live at
\* some moment between its arrival and the agent's answer, whichever sessions end
\* and return meanwhile, or under none; where authentication is required, never
\* under none, whatever the plugins, the policy or its fallback allow.
ForwardedUnderOwnSession ==
    \A r \in Request : pc[r] = "forwarded" =>
        /\ principal[r] = NoOne \/ principal[r] = bearer[r]
        /\ config.requireAuth => principal[r] # NoOne

\* A decision is the fallback, or what the bundle the evaluation picked up says
\* of an input that was in its memory during the evaluation: the request's own,
\* or, with WASM, that of an evaluation it overlapped.  No evaluation answers
\* from what an earlier one left behind, an output that an input was written over
\* only denies, and only an allowed request is forwarded.
DecidedForAReason ==
    \A r \in Request : pc[r] \in Decided =>
        LET d == decision[r] IN
        /\ d.by = "fallback" => d.allow = config.fallbackAllow
        /\ d.by = "leftover" => ~d.allow /\ config.engine = "wasm"
        /\ d.by = "policy" =>
            /\ d.on \in overlap[r]
            /\ config.engine = "rego" => d.on = principal[r]
            /\ d.allow = (d.on \in Permits[bundle[using[r]]])
        /\ pc[r] = "forwarded" => d.allow

\* The module that requests pick up is the only one open: a load closes the
\* module it replaces, whichever way loads cross, and never the new one.
OneModuleOpen == \A l \in Load : stage[l] = "loaded" <=> module = l

-----------------------------------------------------------------------------
(* The gate that the proxy implements.                                     *)

Rules == [requireAuth |-> config.requireAuth, fallbackAllow |-> config.fallbackAllow,
          shared |-> config.engine = "wasm"]

InForce == BundleOf(module)

\* A request that is denied is as good as gone.
Place == [r \in Request |->
    CASE pc[r] = "idle" -> "away"
      [] pc[r] = "resolve" -> "waiting"
      [] pc[r] = "pipeline" -> "known"
      [] pc[r] = "policy" -> "asking"
      [] pc[r] \in Evaluating -> "judging"
      [] pc[r] = "respond" -> IF decision[r].allow THEN "allowed" ELSE "away"
      [] OTHER -> "passed"]

Who == [r \in Request |->
    CASE Place[r] = "away" -> NoOne
      [] Place[r] = "waiting" -> cookie[r]
      [] OTHER -> principal[r]]

Judge == [r \in Request |-> IF pc[r] \in Evaluating THEN BundleOf(using[r]) ELSE NoBundle]
Heard == [r \in Request |-> IF pc[r] \in {"call", "read"} THEN overlap[r] ELSE {}]

Gate == INSTANCE AccessGate
    WITH rules <- Rules, policy <- InForce, place <- Place, who <- Who, judge <- Judge,
         heard <- Heard

\* The proxy is a gate: what it lets pass had a live session, or was taken for
\* nobody, at one instant of its stay and was then allowed by a plugin, the
\* fallback, or the policy in force at a later one, however evaluations, loads
\* and the ends and returns of sessions interleave.
ImplementsGate == Gate!Spec

-----------------------------------------------------------------------------
(* What the code claims and does not keep.                                 *)

\* A policy's decision on a request is about the input of that request.
DecidedOnOwnInput ==
    \A r \in Request :
        pc[r] \in Decided /\ decision[r].by = "policy" => decision[r].on = principal[r]
=============================================================================
