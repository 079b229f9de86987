---------------------------- MODULE DurableService ----------------------------
(***************************************************************************)
(* app.Service over the file store's durability: RunService, in which a    *)
(* persisted run is its published version, with the older versions a power *)
(* loss may bring back.  A write whose directory sync failed is published  *)
(* and used, and only a later sync, by any write or read, settles it.      *)
(***************************************************************************)
EXTENDS RunService

VARIABLES
  older,  \* the versions of each run that a power loss may restore
  told    \* history: the terminal status a caller has read of each run, if any

durabilityVars == <<older, told>>

Version(r) == [status |-> status[r], approved |-> r \in approved,
               cancelRequested |-> r \in cancelRequested]

Versions == [status : RunStatuses \cup {"absent"}, approved : BOOLEAN, cancelRequested : BOOLEAN]

Rewritten(r) == Version(r)' # Version(r)

\* A sync of the directory of runs: every published version stays.
Settled == older' = [r \in Runs |-> {}]

\* Mutation: a read trusts memory as it is.
Unsettled == UNCHANGED older

Settle == Settled

\* What a step that may write leaves: a write that succeeded has synced; one
\* that failed after publication failed in the sync or, after it, in the audit.
Persist ==
  \/ stored' = stored /\ UNCHANGED older
  \/ stored' # stored /\ faults' = faults /\ Settled
  \/ stored' # stored /\ faults' # faults /\ \E r \in Runs :
       Rewritten(r) /\ (Settled \/ older' = [older EXCEPT ![r] = @ \cup {Version(r)}])

Lists  == Start \/ RecoverNext \/ DispatchScan
Writes ==
  \/ \E r \in Runs : API(r) \/ DispatchOne(r) \/ RecoverFail(r) \/ RecoverEnqueue(r)
  \/ \E w \in Workers : Worker(w)
  \/ StartRefused \/ RecoverDone \/ RecoverListFailed \/ Close \/ ProcessExit \/ Crash

\* GetRun: the answer is given after a sync.
GetRun(r) ==
  /\ Serving /\ status[r] # "absent"
  /\ Settle
  /\ told' = [told EXCEPT ![r] = IF Terminal(status[r]) THEN status[r] ELSE @]
  /\ UNCHANGED vars

\* Every run reverts to one of its possible versions, in or out of a process.
PowerLoss ==
  /\ ends < MaxEnds
  /\ ends' = ends + 1
  /\ \E after \in [Runs -> UNION {older[r] \cup {Version(r)} : r \in Runs}] :
       /\ \A r \in Runs : after[r] \in older[r] \cup {Version(r)}
       /\ status' = [r \in Runs |-> after[r].status]
       /\ approved' = {r \in Runs : after[r].approved}
       /\ cancelRequested' = {r \in Runs : after[r].cancelRequested}
  /\ Settled
  /\ Forget
  /\ UNCHANGED told

InitDurable ==
  /\ Init
  /\ older = [r \in Runs |-> {}]
  /\ told = [r \in Runs |-> "none"]

NextDurable ==
  \/ Lists /\ Settle /\ UNCHANGED told
  \/ Writes /\ Persist /\ UNCHANGED told
  \/ \E r \in Runs : GetRun(r)
  \/ PowerLoss

SpecDurable == InitDurable /\ [][NextDurable]_<<vars, durabilityVars>>

-------------------------------------------------------------------------------
(* Properties; those of RunService hold over power losses too. *)

DurableTypeOK ==
  /\ TypeOK
  /\ older \in [Runs -> SUBSET Versions]
  /\ told \in [Runs -> TerminalStatuses \cup {"none"}]

\* The outcome a caller has read is the outcome for ever: no torn write that
\* preceded the read, no restart and no power loss gives the run another one.
ToldOutcomeIsFinal == \A r \in Runs : told[r] # "none" => status[r] = told[r]

\* The service is a run's life as its callers see it: one execution at most,
\* none after an outcome was read, and no success without one.
Life == INSTANCE RunLife
LivesUpToIt == Life!Spec

-------------------------------------------------------------------------------
(* The facts that make the properties above inductive. *)

\* A run in a worker's hands after StartExecutor has been executed, and only
\* such a run succeeds.
Earned ==
  /\ \A w \in Workers : InFlight(w) => executions[job[w]] = 1
  /\ \A r \in Runs : status[r] \in {"succeeded", "partial"} => executions[r] = 1

\* What a power loss restores is as good as what it takes away.
SafeVersion(r, v) ==
  /\ executions[r] > 0 => v.status \in {"running"} \cup TerminalStatuses
  /\ v.status \in {"succeeded", "partial"} => executions[r] = 1
  /\ v.status = "waiting_approval" => r \in Gated
  /\ r \in Gated /\ (executions[r] > 0
                     \/ v.status \in {"queued", "validating", "running", "succeeded", "partial"})
       => v.approved

OlderIsSafe == \A r \in Runs : \A v \in older[r] : SafeVersion(r, v)

\* An outcome that was counted or read can no longer be taken back.
OutcomeIsSettled ==
  \A r \in Runs : completions[r] = 1 \/ told[r] # "none" => older[r] = {}

IInvDurable ==
  /\ IInv /\ DurableTypeOK
  /\ Earned /\ OlderIsSafe /\ OutcomeIsSettled /\ ToldOutcomeIsFinal
===============================================================================
