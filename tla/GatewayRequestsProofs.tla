----------------------- MODULE GatewayRequestsProofs -----------------------
(* Proofs about the gateway in front of the proxy.  What the proxy keeps    *)
(* holds behind a gateway too, since a gateway takes no step of its own in  *)
(* the proxy; the rest follows the requests a gateway has let pass.         *)
EXTENDS GatewayRequests, ProxyRequestsProofs

\* The proxy behind a gateway is the proxy.
THEOREM GatewayKeepsProxy == GSpec => Spec
<1>1. GInit => Init
  BY DEF GInit
<1>2. [GNext]_gvars => [Next]_vars
  BY DEF GNext, gvars, Arrives, AnsweredOutside, Proceeds, Denies, Allows, UpstreamAnswers,
     CallFails, Next
<1>3. QED
  BY <1>1, <1>2, PTL DEF GSpec, Spec

\* So it keeps what AccessGate promises, whatever becomes of the gateway.
THEOREM GatewayKeepsGate == GSpec => ImplementsGate
BY GatewayKeepsProxy, ProxyImplementsGate

-----------------------------------------------------------------------------
(* Which requests pass.                                                    *)

\* A request that has passed is over in the proxy, or forwarded.
Through(r) == gate[r] = "passed" => pc[r] \in {"idle", "forwarded"}

GInv == GatewayTypeOK /\ PassedForAReason /\ PassedUnderOwnSession /\ \A r \in Request : Through(r)

\* The parts of the state that the passing of a request depends on.
OfPassing(q) == <<pc[q], principal[q], bearer[q], decision[q], gate[q], server[q]>>

\* The invariant, for one request.
Kept(q) ==
    /\ gate[q] \in {"none", "asking", "passed", "refused"}
    /\ server[q] \in {"engine", "endpoint", "nothing"}
    /\ pc[q] # "idle" => gate[q] # "none"
    /\ pc[q] \notin {"idle", "forwarded"} \/ gate[q] = "asking" => server[q] = "engine"
    /\ gate[q] = "passed" =>
        /\ pc[q] \in {"idle", "forwarded"}
        /\ server[q] = "engine" \/ (mode = "forward_auth" /\ server[q] = "endpoint")
    /\ gate[q] = "passed" /\ server[q] = "engine" =>
        /\ decision[q] # NoDecision
        /\ ~decision[q].allow =>
               /\ mode = "forward_auth"
               /\ decision[q].by # "fallback"
               /\ decision[q].by = "policy" /\ config.engine = "rego" => config.fallbackAllow
        /\ principal[q] = NoOne \/ principal[q] = bearer[q]
        /\ config.requireAuth => principal[q] # NoOne

LEMMA GInvGives == ASSUME GInv PROVE mode \in Mode /\ \A q \in Request : Kept(q)
BY DEF GInv, GatewayTypeOK, PassedForAReason, PassedUnderOwnSession, Through, Kept

LEMMA GInvFrom ==
    ASSUME mode' \in Mode, gate' = [q \in Request |-> gate'[q]],
           server' = [q \in Request |-> server'[q]],
           \A q \in Request : Kept(q)'
    PROVE  GInv'
<1>1. GatewayTypeOK'
  <2>1. \A q \in Request : gate'[q] \in {"none", "asking", "passed", "refused"}
    BY DEF Kept
  <2>2. gate' \in [Request -> {"none", "asking", "passed", "refused"}]
    BY <2>1
  <2>3. server' \in [Request -> {"engine", "endpoint", "nothing"}]
    <3>1. \A q \in Request : server'[q] \in {"engine", "endpoint", "nothing"}
      BY DEF Kept
    <3>2. QED
      BY <3>1
  <2>4. QED
    BY <2>2, <2>3 DEF GatewayTypeOK, Kept
<1>2. PassedForAReason' /\ PassedUnderOwnSession' /\ \A r \in Request : Through(r)'
  BY DEF PassedForAReason, PassedUnderOwnSession, Through, Kept
<1>3. QED
  BY <1>1, <1>2 DEF GInv

\* A step of one request in the proxy leaves the others as they were, in what
\* their passing depends on.
LEMMA OthersStay ==
    ASSUME Inv, NEW r \in Request, Arrive(r) \/ Serve(r), NEW q \in Request, q # r
    PROVE  UNCHANGED <<config, pc[q], principal[q], bearer[q], decision[q]>>
<1> USE DEF Inv, TypeOK, Goto, request, evaluation
<1>1. CASE Arrive(r)
  BY <1>1 DEF Arrive
<1>2. CASE Resolve(r) \/ Pipeline(r) \/ Pick(r)
  BY <1>2 DEF Resolve, TurnAway, Pipeline, Decide, Pick, Fallback
<1>3. CASE EvalQuery(r) \/ WriteInput(r)
  BY <1>3 DEF EvalQuery, ResultOrFallback, WriteInput, Verdict, Fallback, Decide
<1>4. CASE Call(r) \/ ReadOutput(r)
  BY <1>4 DEF Call, ReadOutput, Verdict, Fallback, Decide
<1>5. CASE Respond(r)
  BY <1>5 DEF Respond, Forward, TurnAway
<1>6. QED
  BY <1>1, <1>2, <1>3, <1>4, <1>5 DEF Serve

\* How a request leaves the proxy: denied or allowed by its decision, or turned
\* away before there was one.
LEMMA ServeEnds ==
    ASSUME Inv, NEW r \in Request, Serve(r), pc'[r] \in {"idle", "forwarded"}
    PROVE  /\ pc[r] \notin {"idle", "forwarded"}
           /\ UNCHANGED config
           /\ pc'[r] = "forwarded" => pc[r] = "respond"
           /\ pc[r] = "respond" =>
               /\ UNCHANGED <<principal, bearer, decision>>
               /\ decision[r].allow = (pc'[r] = "forwarded")
<1> USE DEF Inv, TypeOK, Goto, request, evaluation
<1>1. CASE Resolve(r) \/ Pipeline(r)
  BY <1>1 DEF Resolve, TurnAway, Pipeline, Decide
<1>2. CASE Pick(r) \/ EvalQuery(r) \/ WriteInput(r) \/ Call(r) \/ ReadOutput(r)
  <2>1. pc'[r] \in {"evaluate", "respond", "call", "read"}
    BY <1>2 DEF Pick, EvalQuery, ResultOrFallback, WriteInput, Call, ReadOutput, Verdict,
       Fallback, Decide
  <2>2. QED
    BY <2>1
<1>3. CASE Respond(r)
  <2>1. decision[r].allow \in BOOLEAN
    BY <1>3, NothingIsNoValue DEF Respond, Decided, Decision
  <2>2. QED
    BY <1>3, <2>1 DEF Respond, Forward, TurnAway
<1>4. QED
  BY <1>1, <1>2, <1>3 DEF Serve

\* What a request with a decision is: decided, admitted, and under its session.
LEMMA DecidedIs ==
    ASSUME Inv, NEW r \in Request, pc[r] \in Decided
    PROVE  /\ decision[r] # NoDecision
           /\ principal[r] = NoOne \/ principal[r] = bearer[r]
           /\ config.requireAuth => principal[r] # NoOne
           /\ pc[r] = "forwarded" => decision[r].allow
BY DEF Inv, TypeOK, Sound, KnownBearer, Admitted, Reasoned, Decided

LEMMA NextKept == Inv /\ GInv /\ [GNext]_gvars => GInv'
<1> SUFFICES ASSUME Inv, GInv, [GNext]_gvars PROVE GInv'
  OBVIOUS
<1>0. mode \in Mode /\ \A q \in Request : Kept(q)
  BY GInvGives
<1> USE DEF gateway, Settle
<1>t. ASSUME NEW r \in Request,
             gate' = gate \/ \E v \in {"asking", "passed", "refused"} : gate' = [gate EXCEPT ![r] = v]
      PROVE  gate' = [q \in Request |-> gate'[q]] /\ \A q \in Request : q # r => gate'[q] = gate[q]
  BY <1>t DEF GInv, GatewayTypeOK
<1>s. ASSUME NEW r \in Request,
             server' = server \/ \E v \in {"engine", "endpoint", "nothing"} :
                                    server' = [server EXCEPT ![r] = v]
      PROVE  /\ server' = [q \in Request |-> server'[q]]
             /\ \A q \in Request : q # r => server'[q] = server[q]
  BY <1>s DEF GInv, GatewayTypeOK
<1>1. ASSUME NEW r \in Request, Arrives(r) PROVE GInv'
  <2>1. /\ mode' = mode /\ gate' = [gate EXCEPT ![r] = "asking"]
        /\ server' = [server EXCEPT ![r] = "engine"]
    BY <1>1 DEF Arrives
  <2>2. \A q \in Request : q # r => Kept(q)'
    BY <1>0, <1>1, <1>s, <1>t, <2>1, OthersStay DEF Arrives, Kept
  <2>3. Kept(r)'
    BY <2>1 DEF Kept, GInv, GatewayTypeOK
  <2>4. QED
    BY <1>0, <1>s, <1>t, <2>1, <2>2, <2>3, GInvFrom
<1>a. ASSUME NEW r \in Request, AnsweredOutside(r) PROVE GInv'
  <2>1. PICK by \in {"endpoint", "nothing"} :
            /\ by = "endpoint" => mode = "forward_auth"
            /\ server' = [server EXCEPT ![r] = by]
            /\ \E v \in {"passed", "refused"} :
                   /\ gate' = [gate EXCEPT ![r] = v]
                   /\ v = "passed" => by = "endpoint"
    BY <1>a DEF AnsweredOutside, ByStatus, Written, EndpointStatus, NothingStatus
  <2>2. mode' = mode /\ UNCHANGED vars /\ pc[r] \in {"idle", "forwarded"}
    BY <1>a DEF AnsweredOutside
  <2>3. \A q \in Request : q # r => Kept(q)'
    BY <1>0, <1>s, <1>t, <2>1, <2>2 DEF Kept, vars, request, evaluation
  <2>4. Kept(r)'
    BY <2>1, <2>2 DEF Kept, GInv, GatewayTypeOK, vars
  <2>5. QED
    BY <1>0, <1>s, <1>t, <2>1, <2>2, <2>3, <2>4, GInvFrom
<1>2. ASSUME NEW r \in Request, Proceeds(r) PROVE GInv'
  <2>1. \A q \in Request : q # r => Kept(q)'
    BY <1>0, <1>2, OthersStay DEF Proceeds, Kept
  <2>2. pc[r] \notin {"idle", "forwarded"}
    BY <1>2 DEF Proceeds, Serve, Resolve, Pipeline, Pick, EvalQuery, WriteInput, Call,
       ReadOutput, Respond
  <2>3. gate[r] \in {"asking", "refused"}
    BY <1>0, <2>2 DEF Kept
  <2>4. Kept(r)'
    BY <1>0, <1>2, <2>2, <2>3 DEF Proceeds, Kept
  <2>5. mode' = mode /\ gate' = gate /\ server' = server
    BY <1>2 DEF Proceeds
  <2>6. QED
    BY <1>0, <1>s, <1>t, <2>1, <2>4, <2>5, GInvFrom
<1>3. ASSUME NEW r \in Request, Denies(r) PROVE GInv'
  <2>0. /\ mode' = mode /\ server' = server
        /\ gate' = gate \/ \E v \in {"passed", "refused"} : gate' = [gate EXCEPT ![r] = v]
    BY <1>3 DEF Denies, ByStatus
  <2>1. \A q \in Request : q # r => Kept(q)'
    BY <1>0, <1>3, <1>s, <1>t, <2>0, OthersStay DEF Denies, Kept
  <2>2. /\ pc[r] \notin {"idle", "forwarded"} /\ pc'[r] = "idle" /\ config' = config
        /\ server[r] = "engine"
    BY <1>0, <1>3, ServeEnds DEF Denies, Kept
  <2>3. ASSUME gate'[r] # "passed" PROVE Kept(r)'
    <3>1. gate'[r] \in {"none", "asking", "refused"}
      BY <1>0, <2>0, <2>3 DEF GInv, GatewayTypeOK, Kept
    <3>2. QED
      BY <2>0, <2>2, <3>1 DEF Kept
  <2>4. ASSUME gate'[r] = "passed" PROVE Kept(r)'
    <3>1. gate[r] # "passed"
      BY <1>0, <2>2 DEF Kept
    <3>2. /\ mode = "forward_auth"
          /\ pc[r] = "respond"
          /\ \E status \in DenialStatus(decision[r]) : Written(status) = "2xx"
      BY <1>3, <2>4, <3>1 DEF Denies, ByStatus, EarlyStatus, Written, GInv, GatewayTypeOK
    <3>3. UNCHANGED <<principal, bearer, decision>> /\ ~decision[r].allow
      BY <1>3, <2>2, <3>2, ServeEnds DEF Denies
    <3>4. /\ decision[r].by # "fallback"
          /\ decision[r].by = "policy" /\ config.engine = "rego" => config.fallbackAllow
      BY <3>2 DEF DenialStatus, Unnamed, RegoUnnamed, Written
    <3>5. QED
      BY <2>0, <2>2, <2>4, <3>2, <3>3, <3>4, DecidedIs DEF Kept, Decided
  <2>5. QED
    BY <1>0, <1>s, <1>t, <2>0, <2>1, <2>3, <2>4, GInvFrom
<1>4. ASSUME NEW r \in Request, Allows(r) PROVE GInv'
  <2>0. /\ mode' = mode /\ server' = server
        /\ gate' = gate \/ gate' = [gate EXCEPT ![r] = "passed"]
    BY <1>4 DEF Allows
  <2>1. \A q \in Request : q # r => Kept(q)'
    BY <1>0, <1>4, <1>s, <1>t, <2>0, OthersStay DEF Allows, Kept
  <2>2. /\ pc[r] = "respond" /\ pc'[r] = "forwarded" /\ UNCHANGED config
        /\ UNCHANGED <<principal, bearer, decision>> /\ decision[r].allow
        /\ server[r] = "engine"
    BY <1>0, <1>4, ServeEnds DEF Allows, Kept
  <2>3. Kept(r)'
    BY <1>0, <2>0, <2>2, DecidedIs DEF Kept, Decided, GInv, GatewayTypeOK
  <2>4. QED
    BY <1>0, <1>s, <1>t, <2>0, <2>1, <2>3, GInvFrom
<1>5. ASSUME NEW r \in Request, UpstreamAnswers(r) \/ CallFails(r) PROVE GInv'
  <2>0. /\ mode' = mode /\ server' = server /\ UNCHANGED vars /\ gate[r] = "asking"
        /\ \/ gate' = [gate EXCEPT ![r] = "refused"]
           \/ gate' = [gate EXCEPT ![r] = "passed"] /\ pc[r] = "forwarded"
    BY <1>5 DEF UpstreamAnswers, CallFails, ByStatus
  <2>1. \A q \in Request : q # r => Kept(q)'
    BY <1>0, <1>s, <1>t, <2>0 DEF Kept, vars, request, evaluation
  <2>2. Kept(r)'
    BY <1>0, <2>0, DecidedIs DEF Kept, Decided, GInv, GatewayTypeOK, vars, request, evaluation
  <2>3. QED
    BY <1>0, <1>s, <1>t, <2>0, <2>1, <2>2, GInvFrom
<1>6. ASSUME \/ (\E l \in Load : Compile(l) \/ Install(l) \/ Refuse(l)) /\ UNCHANGED gateway
             \/ (SessionEnds \/ SessionReturns) /\ UNCHANGED gateway
             \/ UNCHANGED gvars
      PROVE  GInv'
  <2>1. UNCHANGED <<config, pc, principal, decision, mode, gate, server>>
    BY <1>6 DEF Compile, Install, Refuse, SessionEnds, SessionReturns, request, evaluation,
       gvars, vars
  <2>b. ASSUME NEW q \in Request, pc[q] # "resolve" PROVE bearer'[q] = bearer[q]
    BY <1>6, <2>b DEF Compile, Install, Refuse, SessionEnds, SessionReturns, request,
       evaluation, gvars, vars, Inv, TypeOK
  <2>2. \A q \in Request : Kept(q)'
    BY <1>0, <2>1, <2>b DEF Kept
  <2>3. QED
    BY <1>0, <2>1, <2>2, GInvFrom DEF GInv, GatewayTypeOK
<1>7. QED
  BY <1>1, <1>a, <1>2, <1>3, <1>4, <1>5, <1>6 DEF GNext

THEOREM GatewayInvariant == GSpec => []GInv
<1>1. GInit => GInv
  BY DEF GInit, Init, GInv, GatewayTypeOK, PassedForAReason, PassedUnderOwnSession, Through
<1>2. GSpec => []Inv
  BY GatewayKeepsProxy, ProxyInvariant, PTL
<1>3. QED
  BY <1>1, <1>2, NextKept, PTL DEF GSpec

\* The state of a gateway is well typed; no request is in the proxy unasked.
THEOREM GatewayTypes == GSpec => []GatewayTypeOK
<1>1. GInv => GatewayTypeOK
  BY DEF GInv
<1>2. QED
  BY <1>1, GatewayInvariant, PTL

\* A gateway lets pass what was allowed, or, going by the status, what an endpoint
\* of the proxy answered and what a plugin or a policy denied without naming one;
\* in its own process, only what was allowed.
THEOREM GatewayDecisions == GSpec => []PassedForAReason
<1>1. GInv => PassedForAReason
  BY DEF GInv
<1>2. QED
  BY <1>1, GatewayInvariant, PTL

\* What the engine answers and a gateway lets pass, passes under its own session,
\* live at some moment between its arrival and the agent's answer, or, where
\* authentication is not required, under none.
THEOREM GatewayIdentity == GSpec => []PassedUnderOwnSession
<1>1. GInv => PassedUnderOwnSession
  BY DEF GInv
<1>2. QED
  BY <1>1, GatewayInvariant, PTL
=============================================================================
