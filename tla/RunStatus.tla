------------------------------ MODULE RunStatus ------------------------------
(***************************************************************************)
(* The status values of a Run and the edges its state machine allows       *)
(* (internal/domain/run.go).  "absent" is not a status of the program: it  *)
(* stands for a run the store does not hold.                               *)
(***************************************************************************)

TerminalStatuses == {"succeeded", "partial", "failed", "cancelled"}

LiveStatuses == {"preparing", "queued", "validating", "waiting_approval", "running"}

RunStatuses == LiveStatuses \cup TerminalStatuses

Terminal(s) == s \in TerminalStatuses

\* allowedTransitions: every other pair makes Run.Transition fail.
AllowedTransitions ==
    {<<"preparing", s>>        : s \in {"queued", "cancelled"}} \cup
    {<<"queued", s>>           : s \in {"validating", "cancelled", "failed"}} \cup
    {<<"validating", s>>       : s \in {"waiting_approval", "running", "failed", "cancelled"}} \cup
    {<<"waiting_approval", s>> : s \in {"queued", "cancelled", "failed"}} \cup
    {<<"running", s>>          : s \in TerminalStatuses}

\* Run.Transition: staying where it is is a success that changes nothing.
CanTransition(from, to) == from = to \/ <<from, to>> \in AllowedTransitions
==============================================================================
