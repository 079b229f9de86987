----------------------------- MODULE MCRateLimiter -----------------------------
(* Requests of one key, and one of another. *)
EXTENDS RateLimiter, TLC

CONSTANTS a1, a2, a3, a4, b1, here, there

MCKeyOf == [request \in Requests |-> IF request = b1 THEN there ELSE here]
Interchangeable == Permutations({a1, a2, a3, a4})
================================================================================
