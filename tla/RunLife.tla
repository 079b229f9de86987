-------------------------------- MODULE RunLife --------------------------------
(***************************************************************************)
(* What a caller can rely on of a run, whatever happens to the process and *)
(* to the disk: the executor is invoked at most once and never after an    *)
(* outcome was read; an outcome that was read never changes; and a         *)
(* successful one was earned by an execution.                              *)
(***************************************************************************)
EXTENDS Naturals, RunStatus

CONSTANT Runs

VARIABLES executions,  \* executor invocations of each run
          told         \* the outcome that callers have read of it, if any

Init ==
  /\ executions = [r \in Runs |-> 0]
  /\ told = [r \in Runs |-> "none"]

Execute(r) ==
  /\ executions[r] = 0 /\ told[r] = "none"
  /\ executions' = [executions EXCEPT ![r] = 1]
  /\ UNCHANGED told

Tell(r, end) ==
  /\ told[r] = "none"
  /\ end \in {"succeeded", "partial"} => executions[r] = 1
  /\ told' = [told EXCEPT ![r] = end]
  /\ UNCHANGED executions

Next == \E r \in Runs : Execute(r) \/ \E end \in TerminalStatuses : Tell(r, end)

Spec == Init /\ [][Next]_<<executions, told>>
==============================================================================
