--------------------------- MODULE MCRateLimiter ---------------------------
(***************************************************************************)
(* An instance of RateLimiter for TLC: threads and keys are model values  *)
(* and interchangeable, a window is two seconds of two ticks.              *)
(***************************************************************************)
EXTENDS RateLimiter, TLC

CONSTANTS t1, t2, k1, k2

Symmetric == Permutations(Threads) \cup Permutations(Keys)

=============================================================================
