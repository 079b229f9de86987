----------------------------- MODULE MCManualInput -----------------------------
(* One manual run with two uploads, and another run to append evidence to. *)
EXTENDS ManualInput, TLC

CONSTANTS m, o, a, b, x, y, says_a, says_b, plain

MCRunOf == a :> m @@ b :> m
MCCited == says_a :> {a} @@ says_b :> {b} @@ plain :> {}
MCInputBody == a :> says_a @@ b :> says_b
===============================================================================
