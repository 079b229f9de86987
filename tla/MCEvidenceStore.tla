---------------------------- MODULE MCEvidenceStore ----------------------------
(* Two runs; one artifact, of the first, that one of the bodies cites. *)
EXTENDS EvidenceStore, TLC

CONSTANTS r, q, i, j, plain, cites, a

MCRunOf == a :> r
MCCited == (plain :> {}) @@ (cites :> {a})
==============================================================================
