-------------------------- MODULE GatewayRequests --------------------------
(***************************************************************************)
(* The proxy behind a gateway (pkg/plugins/caddy, traefik and krakend): a  *)
(* gateway lets a handler of its own run when the proxy allows a request.  *)
(* It calls the engine in its own process ("handler"), or sends each       *)
(* request to authsentinel-proxy and goes by the status of the answer      *)
(* ("forward_auth").  That server has endpoints of its own, and a gateway  *)
(* sends it the path of the client.  Of an answer only the status is       *)
(* modelled: bodies, and which headers are copied, are left out.           *)
(***************************************************************************)
EXTENDS ProxyRequests

VARIABLES
    mode,       \* how the gateway asks
    gate,       \* what the gateway makes of a request
    server      \* what answers it: the engine, an endpoint of the proxy, or nothing

gateway == <<mode, gate, server>>
gvars == <<vars, gateway>>

Mode == {"handler", "forward_auth"}

GatewayTypeOK ==
    /\ mode \in Mode
    /\ gate \in [Request -> {"none", "asking", "passed", "refused"}]
    /\ server \in [Request -> {"engine", "endpoint", "nothing"}]
    /\ \A r \in Request :
        /\ pc[r] # "idle" => gate[r] # "none"
        /\ pc[r] \notin {"idle", "forwarded"} \/ gate[r] = "asking" => server[r] = "engine"

GInit ==
    /\ Init
    /\ mode \in Mode
    /\ gate = [r \in Request |-> "none"]
    /\ server = [r \in Request |-> "nothing"]

-----------------------------------------------------------------------------
(* The status of an answer.                                                *)

\* A plugin or policy that denies names the status of a refusal, or none.  The
\* Rego engine fills in a result over the decision of the fallback, and so over
\* its status; every other decision without a status has the zero of its record.
RegoUnnamedZero == "zero"
RegoUnnamed == IF config.fallbackAllow THEN "2xx" ELSE "refusal"
Unnamed(d) == IF d.by = "policy" /\ config.engine = "rego" THEN RegoUnnamed ELSE "zero"

DenialStatus(d) ==
    IF d.by = "fallback" THEN {"refusal"} ELSE {"refusal", Unnamed(d)}

\* 401, 502 and 503 of the engine itself.
EarlyZero == "zero"
EarlyStatus == "refusal"

\* WriteResponse puts 200 for zero.
Written(status) == IF status = "zero" THEN "2xx" ELSE status

-----------------------------------------------------------------------------

Settle(r, verdict) == gate' = [gate EXCEPT ![r] = verdict] /\ UNCHANGED <<mode, server>>

\* Forward-auth goes by the status alone.
ByStatus(status) == IF Written(status) = "2xx" THEN "passed" ELSE "refused"

\* A client asks the gateway, which asks the proxy.
ArrivesUnseen(r) == Arrive(r) /\ UNCHANGED gateway
Arrives(r) ==
    /\ gate[r] # "asking"
    /\ Arrive(r)
    /\ gate' = [gate EXCEPT ![r] = "asking"]
    /\ server' = [server EXCEPT ![r] = "engine"]
    /\ UNCHANGED mode

\* authsentinel-proxy answers the paths of its health checks, of its metrics and
\* of /admin itself: with 200, or with a refusal for another method or without
\* the admin's secret.
EndpointStatus == {"2xx", "refusal"}

\* Its mux has 404 for the paths that are neither there nor under the prefix; a
\* body that cannot be read is 400, in the gateway's process too.
NothingStatus == {"refusal"}

\* The engine never sees the request.
AnsweredOutside(r) ==
    /\ gate[r] # "asking"
    /\ pc[r] \in {"idle", "forwarded"}
    /\ \E by \in {"endpoint", "nothing"} :
        /\ by = "endpoint" => mode = "forward_auth"
        /\ server' = [server EXCEPT ![r] = by]
        /\ \E status \in IF by = "endpoint" THEN EndpointStatus ELSE NothingStatus :
               gate' = [gate EXCEPT ![r] = ByStatus(status)]
    /\ UNCHANGED <<mode, vars>>

\* The proxy works on the request.
Proceeds(r) ==
    /\ Serve(r)
    /\ pc'[r] \notin {"idle", "forwarded"}
    /\ UNCHANGED gateway

\* The engine denies: the handler writes the response, the gateway reads it.
\* A gateway that has given up does not.
Denies(r) ==
    /\ Serve(r)
    /\ pc'[r] = "idle"
    /\ \/ gate[r] # "asking" /\ UNCHANGED gateway
       \/ gate[r] = "asking" /\ mode = "handler" /\ Settle(r, "refused")
       \/ /\ gate[r] = "asking" /\ mode = "forward_auth"
          /\ \E status \in IF pc[r] = "respond" THEN DenialStatus(decision[r]) ELSE {EarlyStatus} :
                 Settle(r, ByStatus(status))

\* The engine allows.  In the gateway's process the next handler runs; the
\* proxy sends the request on to its own upstream first.
Allows(r) ==
    /\ Serve(r)
    /\ pc'[r] = "forwarded"
    /\ IF mode = "handler" THEN Settle(r, "passed") ELSE UNCHANGED gateway

\* The answer of the proxy's upstream reaches the gateway as the proxy's.
UpstreamAnswers(r) ==
    /\ mode = "forward_auth"
    /\ pc[r] = "forwarded" /\ gate[r] = "asking"
    /\ \E status \in {"2xx", "other"} : Settle(r, ByStatus(status))
    /\ UNCHANGED vars

\* The call of the proxy fails on the way, wherever the proxy is with it: 502.
CallFails(r) ==
    /\ mode = "forward_auth"
    /\ gate[r] = "asking"
    /\ Settle(r, "refused")
    /\ UNCHANGED vars

GNext ==
    \/ \E r \in Request :
          \/ Arrives(r) \/ AnsweredOutside(r) \/ Proceeds(r) \/ Denies(r) \/ Allows(r)
          \/ UpstreamAnswers(r) \/ CallFails(r)
    \/ (\E l \in Load : Compile(l) \/ Install(l) \/ Refuse(l)) /\ UNCHANGED gateway
    \/ (SessionEnds \/ SessionReturns) /\ UNCHANGED gateway

GSpec == GInit /\ [][GNext]_gvars

-----------------------------------------------------------------------------
(* What the gateway may rely on.                                           *)

\* In its own process a gateway lets pass what the engine allowed, and nothing
\* else.  A gateway that goes by the status lets pass that, what an endpoint of
\* the proxy answered, which nothing decided, and what a plugin or a policy denied
\* without naming a status: with Rego not even that, unless its fallback allows.
\* No failure on the way, and no path the proxy does not serve, lets pass.
PassedForAReason ==
    \A r \in Request : gate[r] = "passed" =>
        \/ mode = "forward_auth" /\ server[r] = "endpoint"
        \/ /\ server[r] = "engine"
           /\ decision[r] # NoDecision
           /\ ~decision[r].allow =>
                  /\ mode = "forward_auth"
                  /\ decision[r].by # "fallback"
                  /\ decision[r].by = "policy" /\ config.engine = "rego" => config.fallbackAllow

\* A request that the engine answers passes under the session of its own cookie,
\* which was live at some moment between its arrival and the agent's answer, or
\* under none; where authentication is required, never under none, whichever way
\* the gateway learns of it.
PassedUnderOwnSession ==
    \A r \in Request : gate[r] = "passed" /\ server[r] = "engine" =>
        /\ principal[r] = NoOne \/ principal[r] = bearer[r]
        /\ config.requireAuth => principal[r] # NoOne
=============================================================================
