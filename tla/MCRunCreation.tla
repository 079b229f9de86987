----------------------------- MODULE MCRunCreation -----------------------------
(* Four calls with one request id: a call and its retry, one that differs  *)
(* from them in its input, and one that differs in its agent or its mode;  *)
(* and a call with another request id.                                     *)
EXTENDS RunCreation, TLC

CONSTANTS a, b, c, d, e, k, l, agent, other, x, y

TwoKeys == (a :> k) @@ (b :> k) @@ (c :> k) @@ (d :> k) @@ (e :> l)

OneAgent  == [r \in {a, b, c, d, e} |-> agent]
TwoAgents == [r \in {a, b, c, d, e} |-> IF r = d THEN other ELSE agent]

TwoInputs == [r \in {a, b, c, d, e} |-> IF r = c THEN y ELSE x]

Retries == Permutations({a, b})
==============================================================================
