-------------------------- MODULE MCSessionClients --------------------------
(* Instances of SessionClients for TLC.                                    *)
EXTENDS SessionClients, TLC

CallSymmetry == Permutations(Call)
=============================================================================
