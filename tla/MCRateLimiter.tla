--------------------------- MODULE MCRateLimiter ---------------------------
(* The limiter with a few requests of two keys.                            *)
EXTENDS RateLimiter, TLC

Symmetry == Permutations(Request) \cup Permutations(Key)
=============================================================================
