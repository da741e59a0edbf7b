---------------------------- MODULE MCRateLimiter ----------------------------
(* Three requests of one client: enough for two to overtake a third.        *)
EXTENDS RateLimiter, TLC

Interchangeable == Permutations(Request)
=============================================================================
