------------------------- MODULE MCGatewayRequests -------------------------
(* Instances of GatewayRequests for TLC.                                   *)
EXTENDS GatewayRequests, TLC

CONSTANTS s1, b1, b2

\* One bundle allows the session, the other everyone but the session.
Allow == b1 :> {s1} @@ b2 :> {NoOne}

SlotSymmetry == Permutations(Request) \cup Permutations(Load)

\* What is left of a request that is over is nothing but what passed the gateway;
\* of one that the engine did not answer, that; of one that is decided, the
\* evaluation only if it decided.  A cookie is not looked at once it is resolved,
\* nor since when its session is live if it was resolved to nobody, nor an output
\* once it is read, nor the memory of a module that is closed.  States that differ
\* in these alone satisfy the same properties and go on alike.
ByPolicy(r) == decision[r] = NoDecision \/ decision[r].by = "policy"

InFlight(r) ==
    <<pc[r], gate[r], principal[r], decision[r],
      IF pc[r] # "idle" /\ ByPolicy(r) THEN <<using[r], overlap[r]>> ELSE << >>,
      IF pc[r] = "resolve" THEN cookie[r] ELSE NoOne,
      IF pc[r] = "resolve" \/ principal[r] # NoOne THEN bearer[r] ELSE NoOne,
      IF pc[r] = "read" THEN output[r] ELSE NoInput>>

Left(r) ==
    CASE gate[r] # "passed" /\ (pc[r] = "idle" \/ server[r] # "engine") -> <<"refused">>
      [] gate[r] = "passed" /\ server[r] # "engine" -> <<"passed", server[r]>>
      [] OTHER -> InFlight(r)

Remaining ==
    <<config, live, engine, mode, [r \in Request |-> Left(r)],
      [l \in Load |-> IF stage[l] = "loaded" THEN input[l] ELSE NoInput]>>
=============================================================================
