--------------------------- MODULE MCRateLimiter ---------------------------
(***************************************************************************)
(* Small instances of RateLimiter for TLC.  Only the run without liveness  *)
(* is reduced by symmetry.                                                 *)
(***************************************************************************)
EXTENDS RateLimiter, TLC

Symmetry == Permutations(Caller) \cup Permutations(Gen)
=============================================================================
