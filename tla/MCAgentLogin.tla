---------------------------- MODULE MCAgentLogin ----------------------------
(* Instances of AgentLogin for TLC.                                        *)
EXTENDS AgentLogin, TLC

IdSymmetry ==
    Permutations(Login) \cup Permutations(Handler) \cup Permutations(Session)
=============================================================================
