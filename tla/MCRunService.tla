----------------------------- MODULE MCRunService -----------------------------
(* Instances of RunService for TLC.  The runs are model values named for     *)
(* their kind: a (automatic), m and n (manual), g (gated).                   *)
EXTENDS RunService, TLC

\* Nothing distinguishes one worker goroutine from another.
WorkerSymmetry == Permutations(Workers)
===============================================================================
