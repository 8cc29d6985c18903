--------------------------- MODULE RateLimiterMC ---------------------------
(* Small instances of RateLimiter for TLC. *)
EXTENDS RateLimiter, TLC
CONSTANTS t1, t2, a, b, w
Symmetry == Permutations(Threads) \cup Permutations(Addresses)
=============================================================================
