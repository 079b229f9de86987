--------------------------- MODULE MCDurableService ---------------------------
(* Instances of DurableService for TLC.  The runs are model values named for *)
(* their kind: m (manual), g (gated).                                        *)
EXTENDS DurableService, TLC

\* Bound: a store fault and a crash or power loss, or a graceful stop; callers
\* read the outcome of one run.
Bound ==
  /\ phase = "closing" => faults = 0
  /\ \A r, o \in Runs : told[r] # "none" /\ told[o] # "none" => r = o

\* Nothing distinguishes one worker goroutine from another.
WorkerSymmetry == Permutations(Workers)
===============================================================================
