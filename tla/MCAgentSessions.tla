-------------------------- MODULE MCAgentSessions --------------------------
(* Instances of AgentSessions for TLC.                                     *)
EXTENDS AgentSessions, TLC

CONSTANT s1

\* All requests name the same session.
OneSession == [h \in Handler |-> s1]

HandlerSymmetry == Permutations(Handler)
=============================================================================
