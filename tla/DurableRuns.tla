------------------------------ MODULE DurableRuns ------------------------------
(***************************************************************************)
(* What store.RunStore promises of a run that is kept in files: its        *)
(* versions advance one by one, and a version that any caller has been     *)
(* told of, by a write that succeeded or by a read, is never lost.  Only   *)
(* versions nobody was told of may disappear.                              *)
(***************************************************************************)
EXTENDS Naturals

CONSTANTS Runs, MaxVersion

VARIABLES value,   \* the version of each run that a restart would find; 0: no run
          told     \* the newest version of it that a caller was told of

Init == value = [r \in Runs |-> 0] /\ told = value

Advance(r) ==
  /\ value[r] < MaxVersion
  /\ value' = [value EXCEPT ![r] = @ + 1]
  /\ UNCHANGED told

\* One answer may tell of several runs.
Tell ==
  /\ told' \in [Runs -> 0..MaxVersion]
  /\ \A r \in Runs : told'[r] \in {told[r], value[r]}
  /\ UNCHANGED value

Lose ==
  /\ value' \in [Runs -> 0..MaxVersion]
  /\ \A r \in Runs : told[r] <= value'[r] /\ value'[r] <= value[r]
  /\ UNCHANGED told

Next == Tell \/ Lose \/ \E r \in Runs : Advance(r)

Spec == Init /\ [][Next]_<<value, told>>
==============================================================================
