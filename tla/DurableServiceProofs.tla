------------------------- MODULE DurableServiceProofs -------------------------
(***************************************************************************)
(* The service over power losses: what RunServiceProofs shows of RunService*)
(* holds of DurableService too, the outcomes that callers have read are    *)
(* final, and the service implements RunLife.                              *)
(***************************************************************************)
EXTENDS DurableService, RunServiceProofs

\* Every step but a read and a power loss is a step of RunService.
LEMMA StepsAreNext == Lists \/ Writes => Next
  BY DEF Lists, Writes, Next, Recovery

\* A run that has ended is never written again.
LEMMA EndedIsKept ==
  ASSUME TypeOK, Next, NEW r \in Runs, Terminal(status[r])
  PROVE  ~Rewritten(r)
  <1> USE DEF TypeOK, stored, workers, process, budget, Rewritten, Version
  <1>t. /\ status[r] \notin {"absent", "preparing", "waiting_approval", "queued"}
        /\ status[r] \notin LiveStatuses
    BY DEF Terminal, TerminalStatuses, LiveStatuses
  <1>1. ASSUME NEW x \in Runs, CreateRun(x) PROVE ~Rewritten(r)
    BY <1>1, <1>t DEF CreateRun, Write
  <1>2. ASSUME NEW x \in Runs, ApproveRun(x) PROVE ~Rewritten(r)
    BY <1>2, <1>t DEF ApproveRun, Write
  <1>3. ASSUME NEW x \in Runs, SubmitRun(x) PROVE ~Rewritten(r)
    BY <1>3, <1>t DEF SubmitRun, Write
  <1>4. ASSUME NEW x \in Runs, FailUnqueued(x) PROVE ~Rewritten(r)
    BY <1>4 DEF FailUnqueued, FailRun, WriteTerminal, Write
  <1>5. ASSUME NEW x \in Runs, CancelRegistered(x) PROVE ~Rewritten(r)
    BY <1>5 DEF CancelRegistered
  <1>6. ASSUME NEW x \in Runs, CancelDirect(x) PROVE ~Rewritten(r)
    BY <1>6, <1>t DEF CancelDirect, WriteTerminal, Write
  <1>7. ASSUME NEW w \in Workers, Claim(w) PROVE ~Rewritten(r)
    BY <1>7, <1>t DEF Claim, Claimable, Write
  <1>8. ASSUME NEW w \in Workers, PreflightFailed(w) PROVE ~Rewritten(r)
    BY <1>8 DEF PreflightFailed, FailRun, WriteTerminal, Write
  <1>9. ASSUME NEW w \in Workers, StartExecutor(w) PROVE ~Rewritten(r)
    BY <1>9 DEF StartExecutor, Write
  <1>10. ASSUME NEW w \in Workers, Finish(w) PROVE ~Rewritten(r)
    BY <1>10 DEF Finish, WriteTerminal, Write
  <1>11. ASSUME NEW x \in Runs, RecoverFail(x) PROVE ~Rewritten(r)
    BY <1>11 DEF RecoverFail, FailRun, WriteTerminal, Write
  <1>12. CASE UNCHANGED stored
    BY <1>12
  <1>13. ASSUME NEW x \in Runs, EnqueueAccepted(x) \/ EnqueueRefused(x) \/ DispatchOne(x) \/ RecoverEnqueue(x)
         PROVE  UNCHANGED stored
    BY <1>13 DEF EnqueueAccepted, EnqueueRefused, DispatchOne, RecoverEnqueue
  <1>14. ASSUME NEW w \in Workers, \/ Take(w) \/ Exit(w) \/ ClaimRefused(w) \/ StartAbandoned(w)
                                   \/ ExecutorReturns(w) \/ GateResult(w)
         PROVE  UNCHANGED stored
    BY <1>14 DEF Take, Exit, ClaimRefused, StartAbandoned, ExecutorReturns, GateResult
  <1>15. ASSUME \/ DispatchScan \/ Start \/ StartRefused \/ RecoverNext \/ RecoverDone
                \/ RecoverListFailed \/ Close \/ ProcessExit \/ Crash
         PROVE  UNCHANGED stored
    BY <1>15 DEF DispatchScan, Start, StartRefused, RecoverNext, RecoverDone, RecoverListFailed,
                 Close, ProcessExit, Crash
  <1> QED
    BY <1>1, <1>2, <1>3, <1>4, <1>5, <1>6, <1>7, <1>8, <1>9, <1>10, <1>11, <1>12, <1>13, <1>14, <1>15
    DEF Next, API, Worker, Recovery

\* An execution or a completion is counted only with a write that succeeded
\* and changed the run.
LEMMA CountsNeedAWrite ==
  ASSUME IInv, Next
  PROVE  \/ executions' = executions /\ completions' = completions
         \/ faults' = faults /\ stored' # stored
  <1> DEFINE Counted == \/ executions' = executions /\ completions' = completions
                        \/ faults' = faults /\ stored' # stored
  <1> USE DEF stored, workers, process, budget
  <1>t. TypeOK /\ Holding /\ Owners
    BY DEF IInv
  <1>w. ASSUME NEW x \in Runs, NEW s \in RunStatuses, NEW res \in Results,
               WriteTerminal(x, s, res), status[x] # s
        PROVE  completions' = completions \/ (faults' = faults /\ stored' # stored)
    BY <1>w, <1>t DEF WriteTerminal, Write, Fault, TypeOK
  <1>f. ASSUME NEW x \in Runs, NEW res \in Results, FailRun(x, res)
        PROVE  completions' = completions \/ (faults' = faults /\ stored' # stored)
    <2>1. CASE ~Terminal(status[x]) /\ WriteTerminal(x, "failed", res)
      BY <2>1, <1>w DEF Terminal, TerminalStatuses, RunStatuses
    <2> QED  BY <2>1, <1>f DEF FailRun
  <1>1. ASSUME NEW x \in Runs, FailUnqueued(x) PROVE Counted
    BY <1>1, <1>f DEF FailUnqueued
  <1>2. ASSUME NEW x \in Runs, CancelDirect(x) PROVE Counted
    <2>1. PICK res \in Results : WriteTerminal(x, "cancelled", res)
      BY <1>2 DEF CancelDirect
    <2>2. status[x] # "cancelled" /\ "cancelled" \in RunStatuses
      BY <1>2 DEF CancelDirect, LiveStatuses, RunStatuses, TerminalStatuses
    <2>3. completions' = completions \/ (faults' = faults /\ stored' # stored)
      BY <2>1, <2>2, <1>w
    <2> QED  BY <2>3, <1>2 DEF CancelDirect
  <1>3. ASSUME NEW w \in Workers, PreflightFailed(w) PROVE Counted
    <2>1. job[w] \in Runs
      BY <1>3, <1>t, HeldRun DEF PreflightFailed
    <2> QED  BY <1>3, <2>1, <1>f DEF PreflightFailed
  <1>4. ASSUME NEW w \in Workers, StartExecutor(w) PROVE Counted
    <2>1. job[w] \in Runs
      BY <1>4, <1>t, HeldRun DEF StartExecutor
    <2>2. status[job[w]] # "running"
      BY <1>4, <1>t DEF StartExecutor, Owners, ClaimIsKept
    <2>3. PICK res \in Results : /\ Write(job[w], "running", res)
                                 /\ res # "ok" => UNCHANGED executions
      BY <1>4 DEF StartExecutor
    <2>4. CASE res = "ok"
      BY <2>1, <2>2, <2>3, <2>4, <1>t DEF Write, Fault, TypeOK
    <2> QED  BY <1>4, <2>3, <2>4 DEF StartExecutor
  <1>5. ASSUME NEW w \in Workers, Finish(w) PROVE Counted
    <2>1. job[w] \in Runs
      BY <1>5, <1>t, HeldRun DEF Finish
    <2>2. FinalStatus(w) \in TerminalStatuses
      BY DEF FinalStatus, TerminalStatuses
    <2>3. CASE UNCHANGED completions
      BY <1>5, <2>3 DEF Finish
    <2>4. ASSUME NEW res \in Results, ~Terminal(status[job[w]]), WriteTerminal(job[w], FinalStatus(w), res)
          PROVE  Counted
      BY <1>5, <2>1, <2>2, <2>4, <1>w DEF Finish, Terminal, RunStatuses
    <2> QED  BY <1>5, <2>3, <2>4 DEF Finish
  <1>6. ASSUME NEW x \in Runs, RecoverFail(x) PROVE Counted
    BY <1>6, <1>f DEF RecoverFail
  <1>7. ASSUME NEW x \in Runs, \/ CreateRun(x) \/ ApproveRun(x) \/ SubmitRun(x) \/ CancelRegistered(x)
                               \/ EnqueueAccepted(x) \/ EnqueueRefused(x) \/ DispatchOne(x)
                               \/ RecoverEnqueue(x)
        PROVE  Counted
    BY <1>7 DEF CreateRun, ApproveRun, SubmitRun, CancelRegistered, EnqueueAccepted, EnqueueRefused,
                DispatchOne, RecoverEnqueue
  <1>8. ASSUME NEW w \in Workers, \/ Take(w) \/ Exit(w) \/ Claim(w) \/ ClaimRefused(w)
                                  \/ StartAbandoned(w) \/ ExecutorReturns(w) \/ GateResult(w)
        PROVE  Counted
    BY <1>8 DEF Take, Exit, Claim, ClaimRefused, StartAbandoned, ExecutorReturns, GateResult
  <1>9. ASSUME \/ DispatchScan \/ Start \/ StartRefused \/ RecoverNext \/ RecoverDone
               \/ RecoverListFailed \/ Close \/ ProcessExit \/ Crash
        PROVE  Counted
    BY <1>9 DEF DispatchScan, Start, StartRefused, RecoverNext, RecoverDone, RecoverListFailed,
                Close, ProcessExit, Crash, Forget
  <1> QED
    BY <1>1, <1>2, <1>3, <1>4, <1>5, <1>6, <1>7, <1>8, <1>9 DEF Next, API, Worker, Recovery

-------------------------------------------------------------------------------
(* The versions a power loss may restore. *)

\* Nobody is handed a run, or ends one successfully, in a step that leaves the
\* executions alone.
LEMMA EarnedFrame ==
  ASSUME TypeOK, Earned, UNCHANGED executions,
         \A w \in Workers : InFlight(w)' => InFlight(w) /\ job'[w] = job[w],
         \A r \in Runs : status'[r] \in {"succeeded", "partial"} => status[r] \in {"succeeded", "partial"}
  PROVE  Earned'
  BY DEF Earned

\* A write of any other status leaves successes alone.
LEMMA WriteEarnsNothing ==
  ASSUME TypeOK, NEW x \in Runs, NEW s \in RunStatuses \ {"succeeded", "partial"}, NEW res \in Results,
         Write(x, s, res)
  PROVE  \A r \in Runs : status'[r] \in {"succeeded", "partial"} => status[r] \in {"succeeded", "partial"}
  BY DEF TypeOK, Write

LEMMA FailRunEarnsNothing ==
  ASSUME TypeOK, NEW x \in Runs, NEW res \in Results, FailRun(x, res)
  PROVE  \A r \in Runs : status'[r] \in {"succeeded", "partial"} => status[r] \in {"succeeded", "partial"}
  <1>1. "failed" \in RunStatuses \ {"succeeded", "partial"}
    BY DEF RunStatuses, TerminalStatuses
  <1>2. CASE UNCHANGED status
    BY <1>2
  <1>3. CASE WriteTerminal(x, "failed", res)
    BY <1>1, <1>3, WriteEarnsNothing DEF WriteTerminal
  <1> QED  BY <1>2, <1>3 DEF FailRun

\* StartExecutor is the only step that counts an execution: the first of a
\* claimed run.
LEMMA FirstExecution ==
  ASSUME IInv, NEW w \in Workers, StartExecutor(w)
  PROVE  /\ job[w] \in Runs /\ executions[job[w]] = 0 /\ ~Terminal(status[job[w]])
         /\ executions' \in {executions, [executions EXCEPT ![job[w]] = 1]}
  <1>1. job[w] \in Runs
    BY HeldRun DEF IInv, StartExecutor
  <1>2. status[job[w]] = "validating"
    BY DEF IInv, Owners, ClaimIsKept, StartExecutor, Terminal, TerminalStatuses
  <1>3. executions[job[w]] = 0
    BY <1>1, <1>2 DEF IInv, History, NotYetExecuted
  <1>4. [executions EXCEPT ![job[w]] = @ + 1] = [executions EXCEPT ![job[w]] = 1]
    BY <1>3
  <1> QED  BY <1>1, <1>2, <1>3, <1>4 DEF StartExecutor, Terminal, TerminalStatuses

LEMMA EarnedKept ==
  ASSUME IInv, Earned, Next
  PROVE  Earned'
  <1> USE DEF stored, workers, process, budget
  <1>t. TypeOK /\ Holding
    BY DEF IInv
  <1>s. {"queued", "validating", "running", "failed", "cancelled", "preparing", "waiting_approval"}
          \subseteq RunStatuses \ {"succeeded", "partial"}
    BY DEF RunStatuses, LiveStatuses, TerminalStatuses
  <1>1. ASSUME NEW x \in Runs, CreateRun(x) \/ ApproveRun(x) \/ SubmitRun(x) \/ CancelDirect(x)
        PROVE  Earned'
    <2>1. PICK res \in Results, s \in {"queued", "preparing", "waiting_approval", "cancelled"} : Write(x, s, res)
      BY <1>1 DEF CreateRun, ApproveRun, SubmitRun, CancelDirect, WriteTerminal, InitialStatus
    <2>2. UNCHANGED <<executions, pc, job>>
      BY <1>1 DEF CreateRun, ApproveRun, SubmitRun, CancelDirect
    <2> QED  BY <2>1, <2>2, <1>s, <1>t, WriteEarnsNothing, EarnedFrame DEF InFlight
  <1>2. ASSUME NEW x \in Runs, FailUnqueued(x) \/ RecoverFail(x)
        PROVE  Earned'
    <2>1. UNCHANGED <<executions, pc, job>> /\ \E res \in Results : FailRun(x, res)
      BY <1>2 DEF FailUnqueued, RecoverFail
    <2> QED  BY <2>1, <1>t, FailRunEarnsNothing, EarnedFrame DEF InFlight
  <1>3. ASSUME NEW w \in Workers, Claim(w) PROVE Earned'
    <2>1. job[w] \in Runs
      BY <1>3, <1>t, HeldRun DEF Claim
    <2>2. PICK res \in Results : Write(job[w], "validating", res)
      BY <1>3 DEF Claim
    <2>3. \A r \in Runs : status'[r] \in {"succeeded", "partial"} => status[r] \in {"succeeded", "partial"}
      BY <2>1, <2>2, <1>s, <1>t, WriteEarnsNothing
    <2>4. \A v \in Workers : InFlight(v)' => InFlight(v) /\ job'[v] = job[v]
      BY <1>3, <1>t DEF Claim, Release, InFlight, TypeOK
    <2> QED  BY <1>3, <2>3, <2>4, <1>t, EarnedFrame DEF Claim
  <1>4. ASSUME NEW w \in Workers, PreflightFailed(w) PROVE Earned'
    <2>1. job[w] \in Runs
      BY <1>4, <1>t, HeldRun DEF PreflightFailed
    <2>2. \A r \in Runs : status'[r] \in {"succeeded", "partial"} => status[r] \in {"succeeded", "partial"}
      BY <1>4, <2>1, <1>t, FailRunEarnsNothing DEF PreflightFailed
    <2>3. \A v \in Workers : InFlight(v)' => InFlight(v) /\ job'[v] = job[v]
      BY <1>4, <1>t DEF PreflightFailed, Release, InFlight, TypeOK
    <2> QED  BY <1>4, <2>2, <2>3, <1>t, EarnedFrame DEF PreflightFailed
  <1>5. ASSUME NEW w \in Workers, StartExecutor(w) PROVE Earned'
    <2>1. /\ job[w] \in Runs /\ executions[job[w]] = 0
          /\ executions' \in {executions, [executions EXCEPT ![job[w]] = 1]}
      BY <1>5, FirstExecution
    <2>2. PICK res \in Results :
            /\ Write(job[w], "running", res)
            /\ IF res = "ok"
               THEN /\ pc' = [pc EXCEPT ![w] = "executing"]
                    /\ executions' = [executions EXCEPT ![job[w]] = @ + 1]
                    /\ UNCHANGED job
               ELSE Release(w) /\ UNCHANGED executions
      BY <1>5 DEF StartExecutor
    <2>3. \A r \in Runs : status'[r] \in {"succeeded", "partial"} => status[r] \in {"succeeded", "partial"}
      BY <2>1, <2>2, <1>s, <1>t, WriteEarnsNothing
    <2>4. CASE res = "ok"
      <3>1. executions' = [executions EXCEPT ![job[w]] = 1]
        BY <2>1, <2>2, <2>4
      <3>2. ASSUME NEW v \in Workers, InFlight(v)' PROVE executions'[job'[v]] = 1
        <4>1. CASE v = w
          BY <2>1, <2>2, <2>4, <3>1, <4>1, <1>t DEF TypeOK
        <4>2. CASE v # w
          <5>1. InFlight(v) /\ job'[v] = job[v]
            BY <2>2, <2>4, <3>2, <4>2, <1>t DEF InFlight, TypeOK
          <5>2. job[v] \in Runs /\ executions[job[v]] = 1
            BY <5>1, <1>t, HeldRun DEF Earned, InFlight
          <5> QED  BY <5>1, <5>2, <2>1, <3>1, <1>t DEF TypeOK
        <4> QED  BY <4>1, <4>2
      <3>3. \A r \in Runs : status'[r] \in {"succeeded", "partial"} => executions'[r] = 1
        BY <2>1, <2>3, <3>1, <1>t DEF Earned, TypeOK
      <3> QED  BY <3>2, <3>3 DEF Earned
    <2>5. CASE res # "ok"
      <3>1. \A v \in Workers : InFlight(v)' => InFlight(v) /\ job'[v] = job[v]
        BY <2>2, <2>5, <1>t DEF Release, InFlight, TypeOK
      <3> QED  BY <2>2, <2>3, <2>5, <3>1, <1>t, EarnedFrame
    <2> QED  BY <2>4, <2>5
  <1>6. ASSUME NEW w \in Workers, Finish(w) PROVE Earned'
    <2>1. job[w] \in Runs /\ executions[job[w]] = 1
      BY <1>6, <1>t, HeldRun DEF Finish, Earned, InFlight
    <2>2. /\ UNCHANGED executions
          /\ pc' = [pc EXCEPT ![w] = "idle"] /\ job' = [job EXCEPT ![w] = NoRun]
      BY <1>6 DEF Finish, Release
    <2>3. \A r \in Runs \ {job[w]} : status'[r] = status[r]
      BY <1>6, <1>t DEF Finish, WriteTerminal, Write, TypeOK
    <2> QED  BY <2>1, <2>2, <2>3, <1>t DEF Earned, InFlight, TypeOK
  <1>7. ASSUME NEW x \in Runs, \/ CancelRegistered(x) \/ EnqueueAccepted(x) \/ EnqueueRefused(x)
                               \/ DispatchOne(x) \/ RecoverEnqueue(x)
        PROVE  Earned'
    BY <1>7, <1>t, EarnedFrame
    DEF CancelRegistered, EnqueueAccepted, EnqueueRefused, DispatchOne, RecoverEnqueue, InFlight
  <1>8. ASSUME NEW w \in Workers, \/ Take(w) \/ Exit(w) \/ ClaimRefused(w) \/ StartAbandoned(w)
                                  \/ ExecutorReturns(w) \/ GateResult(w)
        PROVE  Earned'
    <2>1. \A v \in Workers : InFlight(v)' => InFlight(v) /\ job'[v] = job[v]
      BY <1>8, <1>t
      DEF Take, Exit, ClaimRefused, StartAbandoned, ExecutorReturns, GateResult, Release, InFlight, TypeOK
    <2> QED
      BY <1>8, <2>1, <1>t, EarnedFrame
      DEF Take, Exit, ClaimRefused, StartAbandoned, ExecutorReturns, GateResult
  <1>9. ASSUME \/ DispatchScan \/ Start \/ StartRefused \/ RecoverNext \/ RecoverDone
               \/ RecoverListFailed \/ Close
        PROVE  Earned'
    BY <1>9, <1>t, EarnedFrame
    DEF DispatchScan, Start, StartRefused, RecoverNext, RecoverDone, RecoverListFailed, Close, InFlight
  <1>10. CASE ProcessExit \/ Crash
    BY <1>10, <1>t, EarnedFrame DEF ProcessExit, Crash, Forget, InFlight
  <1> QED
    BY <1>1, <1>2, <1>3, <1>4, <1>5, <1>6, <1>7, <1>8, <1>9, <1>10 DEF Next, API, Worker, Recovery

\* The published version of a run can stand in for any older one.
LEMMA CurrentIsSafe ==
  ASSUME IInv, Earned, NEW r \in Runs
  PROVE  SafeVersion(r, Version(r)) /\ Version(r) \in Versions
  <1>t. status[r] \in RunStatuses \cup {"absent"} /\ executions[r] \in Nat
    BY DEF IInv, TypeOK
  <1>1. Version(r) \in Versions
    BY <1>t DEF Version, Versions
  <1>2. executions[r] > 0 => status[r] \in {"running"} \cup TerminalStatuses
    BY <1>t DEF IInv, History, NotYetExecuted, RunStatuses, LiveStatuses
  <1>3. /\ status[r] \in {"succeeded", "partial"} => executions[r] = 1
        /\ status[r] = "waiting_approval" => r \in Gated
        /\ r \in Gated /\ (executions[r] > 0
                           \/ status[r] \in {"queued", "validating", "running", "succeeded", "partial"})
             => r \in approved
    BY DEF IInv, History, OnlyGatedWait, ApprovalGate, Earned
  <1> QED  BY <1>1, <1>2, <1>3 DEF SafeVersion, Version

\* A step that may write keeps what the older versions promise: one that
\* leaves an older version behind has counted nothing.
LEMMA PersistKeepsVersions ==
  ASSUME IInvDurable, Next, Persist, UNCHANGED told
  PROVE  OlderIsSafe' /\ OutcomeIsSettled' /\ ToldOutcomeIsFinal' /\ older' \in [Runs -> SUBSET Versions]
  <1>t. /\ IInv /\ TypeOK /\ Earned /\ OlderIsSafe /\ OutcomeIsSettled /\ ToldOutcomeIsFinal
        /\ older \in [Runs -> SUBSET Versions] /\ told \in [Runs -> TerminalStatuses \cup {"none"}]
    BY DEF IInvDurable, DurableTypeOK
  <1>1. \/ executions' = executions /\ completions' = completions
        \/ faults' = faults /\ stored' # stored
    BY <1>t, CountsNeedAWrite
  <1>2. ToldOutcomeIsFinal'
    <2>1. ASSUME NEW r \in Runs, told[r] # "none" PROVE status'[r] = status[r]
      <3>1. Terminal(status[r])
        BY <1>t, <2>1 DEF ToldOutcomeIsFinal, Terminal
      <3> QED  BY <1>t, <3>1, EndedIsKept DEF Rewritten, Version
    <2> QED  BY <1>t, <2>1 DEF ToldOutcomeIsFinal
  <1>3. CASE Settled
    BY <1>2, <1>3 DEF Settled, OlderIsSafe, OutcomeIsSettled
  <1>4. CASE stored' = stored /\ UNCHANGED older
    <2>1. executions' = executions /\ completions' = completions
      BY <1>1, <1>4
    <2> QED  BY <1>t, <1>2, <1>4, <2>1 DEF OlderIsSafe, SafeVersion, OutcomeIsSettled
  <1>5. ASSUME NEW r \in Runs, faults' # faults, Rewritten(r),
               older' = [older EXCEPT ![r] = @ \cup {Version(r)}]
        PROVE  OlderIsSafe' /\ OutcomeIsSettled' /\ older' \in [Runs -> SUBSET Versions]
    <2>1. executions' = executions /\ completions' = completions
      BY <1>1, <1>5
    <2>2. SafeVersion(r, Version(r)) /\ Version(r) \in Versions
      BY <1>t, CurrentIsSafe
    <2>3. older' \in [Runs -> SUBSET Versions]
      BY <1>t, <1>5, <2>2
    <2>4. \A x \in Runs : \A v \in older'[x] : SafeVersion(x, v)
      BY <1>t, <1>5, <2>2 DEF OlderIsSafe
    <2>5. OlderIsSafe'
      BY <2>1, <2>4 DEF OlderIsSafe, SafeVersion
    <2>6. ~Terminal(status[r])
      BY <1>t, <1>5, EndedIsKept
    <2>7. completions[r] # 1 /\ told[r] = "none"
      BY <1>t, <2>6 DEF IInv, History, CountedOnce, ToldOutcomeIsFinal, Terminal
    <2>8. OutcomeIsSettled'
      BY <1>t, <1>5, <2>1, <2>7 DEF OutcomeIsSettled
    <2> QED  BY <2>3, <2>5, <2>8
  <1> QED  BY <1>2, <1>3, <1>4, <1>5 DEF Persist, Settled

\* A power loss puts the service in a state it could have been in.
LEMMA RestoredIsSafe ==
  ASSUME IInvDurable, PowerLoss
  PROVE  IInvDurable'
  <1>t. /\ IInv /\ TypeOK /\ Earned /\ OlderIsSafe /\ OutcomeIsSettled /\ ToldOutcomeIsFinal
        /\ older \in [Runs -> SUBSET Versions] /\ told \in [Runs -> TerminalStatuses \cup {"none"}]
    BY DEF IInvDurable, DurableTypeOK
  <1>1. PICK after :
           /\ \A r \in Runs : after[r] \in older[r] \cup {Version(r)}
           /\ status' = [r \in Runs |-> after[r].status]
           /\ approved' = {r \in Runs : after[r].approved}
           /\ cancelRequested' = {r \in Runs : after[r].cancelRequested}
    BY DEF PowerLoss
  <1>2. /\ Forget /\ Settled /\ UNCHANGED <<told, executions, completions, damaged, faults>>
        /\ ends < MaxEnds /\ ends' = ends + 1
    BY DEF PowerLoss, Forget
  <1>3. \A r \in Runs : SafeVersion(r, after[r]) /\ after[r] \in Versions
    BY <1>t, <1>1, CurrentIsSafe DEF OlderIsSafe
  <1>4. ASSUME NEW r \in Runs, completions[r] = 1 \/ told[r] # "none"
        PROVE  status'[r] = status[r]
    BY <1>t, <1>1, <1>4 DEF OutcomeIsSettled, Version
  <1>5. TypeOK'
    BY <1>t, <1>1, <1>2, <1>3, BoundsAssumption
    DEF TypeOK, Forget, Versions, Phases, Stages, PCs, Outcomes, Errors, APIs
  <1>6. Holding' /\ Schedule' /\ Owners'
    BY <1>2, ForgottenProcess DEF Forget, Holding
  <1>7. NotYetExecuted' /\ ExecutedAtMostOnce' /\ OnlyGatedWait'
    <2>1. \A r \in Runs : executions[r] \in Nat /\ executions[r] <= 1
      BY <1>t DEF IInv, History, ExecutedAtMostOnce, TypeOK
    <2>2. \A s \in {"running"} \cup TerminalStatuses :
             s \notin {"absent", "preparing", "waiting_approval", "queued", "validating"}
      BY DEF TerminalStatuses
    <2>3. \A r \in Runs : /\ executions[r] > 0 => status'[r] \in {"running"} \cup TerminalStatuses
                          /\ status'[r] = "waiting_approval" => r \in Gated
      BY <1>1, <1>3 DEF SafeVersion
    <2> QED  BY <1>2, <2>1, <2>2, <2>3 DEF NotYetExecuted, ExecutedAtMostOnce, OnlyGatedWait
  <1>8. ApprovalGate'
    BY <1>1, <1>2, <1>3, KindsAssumption DEF ApprovalGate, SafeVersion
  <1>9. CountedOnce'
    BY <1>t, <1>2, <1>4 DEF IInv, History, CountedOnce, TypeOK
  <1>10. Earned'
    BY <1>1, <1>2, <1>3 DEF Earned, SafeVersion, Forget, InFlight
  <1>11. OlderIsSafe' /\ OutcomeIsSettled' /\ older' \in [Runs -> SUBSET Versions]
    BY <1>2 DEF Settled, OlderIsSafe, OutcomeIsSettled
  <1>12. ToldOutcomeIsFinal'
    BY <1>t, <1>2, <1>4 DEF ToldOutcomeIsFinal
  <1> QED
    BY <1>t, <1>2, <1>5, <1>6, <1>7, <1>8, <1>9, <1>10, <1>11, <1>12
    DEF IInvDurable, IInv, History, DurableTypeOK

\* A read settles what it answers with.
LEMMA ReadIsSettled ==
  ASSUME IInvDurable, NEW r \in Runs, GetRun(r)
  PROVE  IInvDurable'
  <1>1. IInv' /\ Earned' /\ TypeOK'
    <2>1. UNCHANGED vars
      BY DEF GetRun
    <2>2. [Next]_vars
      BY <2>1
    <2>3. UNCHANGED <<status, executions, pc, job>>
      BY <2>1 DEF vars, stored, workers
    <2> QED  BY <2>2, <2>3, Inductive DEF IInvDurable, IInv, Earned, InFlight
  <1>2. UNCHANGED <<status, completions>>
    BY DEF GetRun, vars, stored
  <1>3. /\ Settled
        /\ told' = [told EXCEPT ![r] = IF Terminal(status[r]) THEN status[r] ELSE @]
    BY DEF GetRun, Settle
  <1>4. told' \in [Runs -> TerminalStatuses \cup {"none"}] /\ ToldOutcomeIsFinal'
    BY <1>2, <1>3 DEF IInvDurable, DurableTypeOK, ToldOutcomeIsFinal, Terminal
  <1> QED
    BY <1>1, <1>3, <1>4
    DEF Settled, IInvDurable, DurableTypeOK, OlderIsSafe, OutcomeIsSettled

LEMMA DurableInductive == IInvDurable /\ [NextDurable]_<<vars, durabilityVars>> => IInvDurable'
  <1> SUFFICES ASSUME IInvDurable, [NextDurable]_<<vars, durabilityVars>> PROVE IInvDurable'
    OBVIOUS
  <1>t. IInv /\ Earned /\ told \in [Runs -> TerminalStatuses \cup {"none"}]
    BY DEF IInvDurable, DurableTypeOK
  <1>1. CASE Lists /\ Settle /\ UNCHANGED told
    <2>1. Next /\ stored' = stored
      BY <1>1, StepsAreNext DEF Lists, Start, RecoverNext, DispatchScan
    <2>2. IInv' /\ TypeOK' /\ Earned'
      BY <1>t, <2>1, Inductive, EarnedKept DEF IInv
    <2>3. ToldOutcomeIsFinal'
      BY <1>1, <2>1 DEF stored, IInvDurable, ToldOutcomeIsFinal
    <2> QED
      BY <1>t, <1>1, <2>2, <2>3
      DEF Settle, Settled, IInvDurable, DurableTypeOK, OlderIsSafe, OutcomeIsSettled
  <1>2. CASE Writes /\ Persist /\ UNCHANGED told
    <2>1. Next
      BY <1>2, StepsAreNext
    <2>2. IInv' /\ TypeOK' /\ Earned'
      BY <1>t, <2>1, Inductive, EarnedKept DEF IInv
    <2>3. OlderIsSafe' /\ OutcomeIsSettled' /\ ToldOutcomeIsFinal' /\ older' \in [Runs -> SUBSET Versions]
      BY <1>2, <2>1, PersistKeepsVersions
    <2> QED  BY <1>t, <1>2, <2>2, <2>3 DEF IInvDurable, DurableTypeOK
  <1>3. CASE \E r \in Runs : GetRun(r)
    BY <1>3, ReadIsSettled
  <1>4. CASE PowerLoss
    BY <1>4, RestoredIsSafe
  <1>5. CASE UNCHANGED <<vars, durabilityVars>>
    <2>1. [Next]_vars /\ UNCHANGED <<older, told, status, executions, completions, pc, job>>
      BY <1>5 DEF durabilityVars, vars, stored, workers
    <2>2. IInv' /\ TypeOK' /\ Earned'
      BY <1>t, <2>1, Inductive DEF IInv, Earned, InFlight
    <2>3. OlderIsSafe' /\ OutcomeIsSettled' /\ ToldOutcomeIsFinal'
      BY <2>1 DEF IInvDurable, OlderIsSafe, SafeVersion, OutcomeIsSettled, ToldOutcomeIsFinal
    <2> QED  BY <2>1, <2>2, <2>3 DEF IInvDurable, DurableTypeOK
  <1> QED  BY <1>1, <1>2, <1>3, <1>4, <1>5 DEF NextDurable

LEMMA DurableInitially == InitDurable => IInvDurable
  <1> SUFFICES ASSUME InitDurable PROVE IInvDurable
    OBVIOUS
  <1>1. IInv /\ TypeOK
    BY Initially DEF InitDurable, IInv
  <1>2. Earned
    BY DEF InitDurable, Init, Earned, InFlight
  <1> QED
    BY <1>1, <1>2
    DEF InitDurable, IInvDurable, DurableTypeOK, OlderIsSafe, OutcomeIsSettled, ToldOutcomeIsFinal

-------------------------------------------------------------------------------

\* The inductive invariant, power losses included.
THEOREM DurableInvariance == SpecDurable => []IInvDurable
  BY DurableInitially, DurableInductive, PTL DEF SpecDurable

\* Every variable keeps its type.
THEOREM DurableTypeCorrect == SpecDurable => []DurableTypeOK
  <1>1. IInvDurable => DurableTypeOK
    BY DEF IInvDurable
  <1> QED  BY <1>1, DurableInvariance, PTL

\* The outcome that GetRun has answered is never taken back.
THEOREM OutcomesAreFinal == SpecDurable => []ToldOutcomeIsFinal
  <1>1. IInvDurable => ToldOutcomeIsFinal
    BY DEF IInvDurable
  <1> QED  BY <1>1, DurableInvariance, PTL

\* No run is executed twice, claimed twice, executed without its approval or
\* counted twice, whichever unsynced versions a power loss brings back.
THEOREM SafeOverPowerLosses ==
  SpecDurable => [](ExecutedAtMostOnce /\ OneOwner /\ RunningWhileInFlight /\ ApprovalGate /\ CountedOnce)
  <1>1. IInvDurable => ExecutedAtMostOnce /\ OneOwner /\ RunningWhileInFlight /\ ApprovalGate /\ CountedOnce
    BY DEF IInvDurable, IInv, Owners, History
  <1> QED  BY <1>1, DurableInvariance, PTL

\* Nor does a power loss take a run out of every hand: recoverRuns lists what
\* the disk holds after it.
THEOREM NothingLostOverPowerLosses == SpecDurable => []NothingLost
  <1>1. InitDurable => Tracked
    BY DEF InitDurable, Init, Tracked
  <1>2. IInvDurable /\ Tracked /\ [NextDurable]_<<vars, durabilityVars>> => Tracked'
    <2> SUFFICES ASSUME IInv, Tracked, [NextDurable]_<<vars, durabilityVars>>
                 PROVE  Tracked'
      BY DEF IInvDurable
    <2>1. CASE Lists \/ Writes
      BY <2>1, StepsAreNext, TrackedKept
    <2>2. CASE UNCHANGED vars
      BY <2>2, TrackedKept
    <2>3. CASE PowerLoss
      BY <2>3 DEF PowerLoss, Forget, Tracked
    <2> QED  BY <2>1, <2>2, <2>3 DEF NextDurable, GetRun
  <1> QED  BY <1>1, <1>2, DurableInvariance, TrackedMeansNotLost, PTL DEF SpecDurable

\* A step of the service that is not StartExecutor executes nothing.
LEMMA OnlyStartExecutes ==
  ASSUME Next, executions' # executions
  PROVE  \E w \in Workers : StartExecutor(w)
  <1> USE DEF stored, workers, process, budget
  <1>1. ASSUME NEW x \in Runs, API(x) \/ DispatchOne(x) \/ RecoverFail(x) \/ RecoverEnqueue(x)
        PROVE  FALSE
    BY <1>1 DEF API, CreateRun, ApproveRun, SubmitRun, EnqueueAccepted, EnqueueRefused, FailUnqueued,
                CancelRegistered, CancelDirect, DispatchOne, RecoverFail, RecoverEnqueue
  <1>2. ASSUME NEW w \in Workers, Worker(w), ~StartExecutor(w)
        PROVE  FALSE
    BY <1>2 DEF Worker, Take, Exit, Claim, ClaimRefused, PreflightFailed, StartAbandoned,
                ExecutorReturns, GateResult, Finish
  <1>3. ASSUME \/ DispatchScan \/ Start \/ StartRefused \/ RecoverNext \/ RecoverDone
               \/ RecoverListFailed \/ Close \/ ProcessExit \/ Crash
        PROVE  FALSE
    BY <1>3 DEF DispatchScan, Start, StartRefused, RecoverNext, RecoverDone, RecoverListFailed, Close,
                ProcessExit, Crash, Forget
  <1> QED  BY <1>1, <1>2, <1>3 DEF Next, Recovery

\* The service implements RunLife: each of its steps is one of a run's life,
\* or none.
THEOREM ServiceImplementsRunLife == SpecDurable => LivesUpToIt
  <1> USE DEF Life!Next, Life!Execute, Life!Tell
  <1>1. InitDurable => Life!Init
    BY DEF InitDurable, Init, Life!Init
  <1>2. IInvDurable /\ [NextDurable]_<<vars, durabilityVars>> => [Life!Next]_<<executions, told>>
    <2> SUFFICES ASSUME IInvDurable, [NextDurable]_<<vars, durabilityVars>>
                 PROVE  [Life!Next]_<<executions, told>>
      OBVIOUS
    <2>1. CASE (Lists \/ Writes) /\ UNCHANGED told
      <3>1. CASE executions' = executions
        BY <2>1, <3>1
      <3>2. CASE executions' # executions
        <4>1. PICK w \in Workers : StartExecutor(w)
          BY <2>1, <3>2, StepsAreNext, OnlyStartExecutes
        <4>2. /\ job[w] \in Runs /\ executions[job[w]] = 0 /\ ~Terminal(status[job[w]])
              /\ executions' = [executions EXCEPT ![job[w]] = 1]
          BY <3>2, <4>1, FirstExecution DEF IInvDurable
        <4>3. told[job[w]] = "none"
          BY <4>2 DEF IInvDurable, DurableTypeOK, ToldOutcomeIsFinal, Terminal
        <4> QED  BY <2>1, <4>2, <4>3
      <3> QED  BY <3>1, <3>2
    <2>2. ASSUME NEW r \in Runs, GetRun(r) PROVE [Life!Next]_<<executions, told>>
      <3>1. /\ UNCHANGED executions
            /\ told' = [told EXCEPT ![r] = IF Terminal(status[r]) THEN status[r] ELSE @]
        BY <2>2 DEF GetRun, vars
      <3>t. told \in [Runs -> TerminalStatuses \cup {"none"}]
        BY DEF IInvDurable, DurableTypeOK
      <3>2. CASE Terminal(status[r]) /\ told[r] = "none"
        <4>1. status[r] \in {"succeeded", "partial"} => executions[r] = 1
          BY DEF IInvDurable, Earned
        <4>2. Life!Tell(r, status[r]) /\ status[r] \in Life!TerminalStatuses
          BY <3>1, <3>2, <4>1 DEF Terminal, TerminalStatuses, Life!TerminalStatuses
        <4> QED  BY <4>2
      <3>3. CASE ~(Terminal(status[r]) /\ told[r] = "none")
        <4>1. told' = told
          BY <3>1, <3>3, <3>t DEF IInvDurable, ToldOutcomeIsFinal
        <4> QED  BY <3>1, <4>1
      <3> QED  BY <3>2, <3>3
    <2>3. CASE PowerLoss
      BY <2>3 DEF PowerLoss, Forget
    <2>4. CASE UNCHANGED <<vars, durabilityVars>>
      BY <2>4 DEF vars, durabilityVars
    <2> QED  BY <2>1, <2>2, <2>3, <2>4 DEF NextDurable
  <1> QED  BY <1>1, <1>2, DurableInvariance, PTL DEF SpecDurable, LivesUpToIt, Life!Spec
===============================================================================
