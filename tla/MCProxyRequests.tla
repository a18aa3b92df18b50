-------------------------- MODULE MCProxyRequests --------------------------
(* Instances of ProxyRequests for TLC.                                     *)
EXTENDS ProxyRequests, TLC

CONSTANTS s1, b1, b2

\* One bundle allows the session, the other everyone but the session.
Allow == b1 :> {s1} @@ b2 :> {NoOne}

SlotSymmetry == Permutations(Request) \cup Permutations(Load)
=============================================================================
