--------------------------- MODULE MCRateLimiter ---------------------------
(* A limiter shared by interchangeable callers, for TLC.                   *)
EXTENDS RateLimiter, TLC

Symmetry == Permutations(Callers)
=============================================================================
