--------------------------- MODULE RunServiceProofs ---------------------------
(***************************************************************************)
(* The safety of app.Service, for every set of runs and of workers, every  *)
(* queue size and every bound on faults and ends.                *)
(*                                                                         *)
(* IInv is shown to be inductive action by action (Typing, Inductive); the *)
(* theorems at the end are its consequences.                               *)
(***************************************************************************)
EXTENDS RunService, TLAPS

\* A worker that is neither idle nor gone holds a run.
LEMMA HeldRun ==
  ASSUME TypeOK, Holding, NEW w \in Workers, pc[w] \notin {"idle", "exited"}
  PROVE  job[w] \in Runs
  <1>1. job[w] \in Runs \cup {NoRun}
    BY DEF TypeOK
  <1>2. job[w] # NoRun
    BY DEF Holding
  <1> QED  BY <1>1, <1>2

\* What is in the queue after a send.
LEMMA AppendQueue ==
  ASSUME NEW q \in Seq(Runs), NEW r \in Runs
  PROVE  /\ Append(q, r) \in Seq(Runs)
         /\ \A x : (\E i \in 1..Len(Append(q, r)) : Append(q, r)[i] = x)
                     <=> x = r \/ \E i \in 1..Len(q) : q[i] = x
  OBVIOUS

\* What is in the queue after a receive.
LEMMA TailQueue ==
  ASSUME NEW q \in Seq(Runs), q # <<>>
  PROVE  /\ Tail(q) \in Seq(Runs)
         /\ Head(q) \in Runs
         /\ \E i \in 1..Len(q) : q[i] = Head(q)
         /\ \A x : (\E i \in 1..Len(Tail(q)) : Tail(q)[i] = x) => \E i \in 1..Len(q) : q[i] = x
  OBVIOUS

\* The variables that Write and its derivatives assign.
StoreTyped ==
  /\ status \in [Runs -> RunStatuses \cup {"absent"}]
  /\ completions \in [Runs -> Nat]
  /\ damaged \in SUBSET Runs
  /\ faults \in 0..MaxFaults

\* A store operation, failed or not, stays within the bound on faults.
LEMMA FaultTyped ==
  ASSUME StoreTyped, NEW r \in Runs, NEW res \in Results, Fault(r, res)
  PROVE  damaged' \in SUBSET Runs /\ faults' \in 0..MaxFaults
  BY BoundsAssumption DEF StoreTyped, Fault, Results

\* Update keeps the persisted runs typed, ...
LEMMA WriteTyped ==
  ASSUME StoreTyped, NEW r \in Runs, NEW s \in RunStatuses, NEW res \in Results, Write(r, s, res)
  PROVE  /\ status' \in [Runs -> RunStatuses \cup {"absent"}]
         /\ damaged' \in SUBSET Runs /\ faults' \in 0..MaxFaults
  <1>1. damaged' \in SUBSET Runs /\ faults' \in 0..MaxFaults
    BY FaultTyped DEF Write
  <1> QED  BY <1>1 DEF Write, StoreTyped

\* ... the write of a terminal status and its completion count too, ...
LEMMA WriteTerminalTyped ==
  ASSUME StoreTyped, NEW r \in Runs, NEW s \in RunStatuses, NEW res \in Results,
         WriteTerminal(r, s, res)
  PROVE  StoreTyped'
  <1>1. completions' \in [Runs -> Nat]
    BY DEF WriteTerminal, StoreTyped
  <1> QED  BY <1>1, WriteTyped DEF WriteTerminal, StoreTyped

\* ... and failRun, on whatever run it is called.
LEMMA FailRunTyped ==
  ASSUME StoreTyped, NEW r \in Runs, NEW res \in Results, FailRun(r, res)
  PROVE  StoreTyped'
  <1>1. "failed" \in RunStatuses
    BY DEF RunStatuses, TerminalStatuses
  <1>2. CASE WriteTerminal(r, "failed", res)
    BY <1>1, <1>2, WriteTerminalTyped
  <1>3. CASE UNCHANGED <<status, completions, faults, damaged>>
    BY <1>3 DEF StoreTyped
  <1> QED  BY <1>2, <1>3 DEF FailRun

\* Types, and that a worker holds a run from Take to Release, are inductive
\* together: every access to status[job[w]] needs job[w] to be a run.
LEMMA Typing == TypeOK /\ Holding /\ [Next]_vars => TypeOK' /\ Holding'
  <1> SUFFICES ASSUME TypeOK, Holding, [Next]_vars PROVE TypeOK' /\ Holding'
    OBVIOUS
  <1> USE NoRunAssumption, KindsAssumption, BoundsAssumption
      DEF TypeOK, Holding, stored, workers, process, budget
  <1>a. StoreTyped
    BY DEF StoreTyped
  <1>b. {"queued", "validating", "running", "failed", "cancelled", "preparing", "waiting_approval"} \subseteq RunStatuses
    BY DEF RunStatuses, LiveStatuses, TerminalStatuses
  <1>1. ASSUME NEW r \in Runs, CreateRun(r) PROVE TypeOK' /\ Holding'
    BY <1>1, <1>a, <1>b, WriteTyped DEF CreateRun, InitialStatus, APIs
  <1>2. ASSUME NEW r \in Runs, ApproveRun(r) PROVE TypeOK' /\ Holding'
    BY <1>2, <1>a, <1>b, WriteTyped DEF ApproveRun, APIs
  <1>3. ASSUME NEW r \in Runs, SubmitRun(r) PROVE TypeOK' /\ Holding'
    BY <1>3, <1>a, <1>b, WriteTyped DEF SubmitRun, APIs
  <1>4. ASSUME NEW r \in Runs, EnqueueAccepted(r) PROVE TypeOK' /\ Holding'
    BY <1>4, AppendQueue DEF EnqueueAccepted, APIs
  <1>5. ASSUME NEW r \in Runs, EnqueueRefused(r) PROVE TypeOK' /\ Holding'
    BY <1>5 DEF EnqueueRefused, AfterRefusal, APIs
  <1>6. ASSUME NEW r \in Runs, FailUnqueued(r) PROVE TypeOK' /\ Holding'
    <2>1. StoreTyped'
      BY <1>6, <1>a, FailRunTyped DEF FailUnqueued
    <2> QED  BY <1>6, <2>1 DEF FailUnqueued, StoreTyped, APIs
  <1>7. ASSUME NEW r \in Runs, CancelRegistered(r) PROVE TypeOK' /\ Holding'
    BY <1>7, <1>a, FaultTyped DEF CancelRegistered
  <1>8. ASSUME NEW r \in Runs, CancelDirect(r) PROVE TypeOK' /\ Holding'
    <2>1. StoreTyped'
      BY <1>8, <1>a, <1>b, WriteTerminalTyped DEF CancelDirect
    <2> QED  BY <1>8, <2>1 DEF CancelDirect, StoreTyped
  <1>9. ASSUME NEW w \in Workers, Take(w) PROVE TypeOK' /\ Holding'
    <2>1. queue' \in Seq(Runs) /\ Head(queue) \in Runs
      BY <1>9, TailQueue DEF Take
    <2>2. pc' \in [Workers -> PCs] /\ job' \in [Workers -> Runs \cup {NoRun}] /\ Holding'
      BY <1>9, <2>1 DEF Take, PCs
    <2> QED  BY <1>9, <2>1, <2>2, TailQueue DEF Take
  <1>10. ASSUME NEW w \in Workers, Exit(w) PROVE TypeOK' /\ Holding'
    BY <1>10 DEF Exit, PCs
  <1>11. ASSUME NEW w \in Workers, Claim(w) PROVE TypeOK' /\ Holding'
    <2>1. job[w] \in Runs
      BY <1>11 DEF Claim
    <2>2. PICK res \in Results : Write(job[w], "validating", res)
      BY <1>11 DEF Claim
    <2>3. /\ status' \in [Runs -> RunStatuses \cup {"absent"}]
          /\ damaged' \in SUBSET Runs /\ faults' \in 0..MaxFaults
      BY <2>1, <2>2, <1>a, <1>b, WriteTyped
    <2>4. (pc' = [pc EXCEPT ![w] = "validating"] /\ job' = job) \/ Release(w)
      BY <1>11 DEF Claim
    <2>5. pc' \in [Workers -> PCs] /\ job' \in [Workers -> Runs \cup {NoRun}] /\ Holding'
      BY <1>11, <2>1, <2>4 DEF Claim, Release, PCs
    <2> QED  BY <1>11, <2>3, <2>5 DEF Claim
  <1>12. ASSUME NEW w \in Workers, ClaimRefused(w) PROVE TypeOK' /\ Holding'
    BY <1>12 DEF ClaimRefused, Release, PCs
  <1>13. ASSUME NEW w \in Workers, PreflightFailed(w) PROVE TypeOK' /\ Holding'
    <2>1. job[w] \in Runs
      BY <1>13 DEF PreflightFailed
    <2>2. StoreTyped'
      BY <1>13, <2>1, <1>a, FailRunTyped DEF PreflightFailed, StoreTyped
    <2> QED  BY <1>13, <2>2 DEF PreflightFailed, StoreTyped, Release, PCs
  <1>14. ASSUME NEW w \in Workers, StartExecutor(w) PROVE TypeOK' /\ Holding'
    <2>1. job[w] \in Runs
      BY <1>14 DEF StartExecutor
    <2>2. PICK res \in Results : Write(job[w], "running", res)
      BY <1>14 DEF StartExecutor
    <2>3. /\ status' \in [Runs -> RunStatuses \cup {"absent"}]
          /\ damaged' \in SUBSET Runs /\ faults' \in 0..MaxFaults
      BY <2>1, <2>2, <1>a, <1>b, WriteTyped
    <2>4. \/ /\ pc' = [pc EXCEPT ![w] = "executing"] /\ job' = job
             /\ cancels' = cancels \cup {job[w]}
             /\ executions' = [executions EXCEPT ![job[w]] = @ + 1]
          \/ Release(w) /\ cancels' = cancels /\ executions' = executions
      BY <1>14 DEF StartExecutor
    <2>5. pc' \in [Workers -> PCs] /\ job' \in [Workers -> Runs \cup {NoRun}] /\ Holding'
      <3>1. CASE pc' = [pc EXCEPT ![w] = "executing"] /\ job' = job
        BY <1>14, <2>1, <3>1 DEF StartExecutor, PCs
      <3>2. CASE Release(w)
        BY <1>14, <2>1, <3>2 DEF StartExecutor, Release, PCs
      <3> QED  BY <2>4, <3>1, <3>2
    <2>6. cancels' \in SUBSET Runs
      BY <2>1, <2>4
    <2>7. executions' \in [Runs -> Nat]
      <3>1. executions \in [Runs -> Nat]
        OBVIOUS
      <3> QED  BY ONLY <2>1, <2>4, <3>1
    <2> QED  BY <1>14, <2>3, <2>5, <2>6, <2>7 DEF StartExecutor
  <1>15. ASSUME NEW w \in Workers, StartAbandoned(w) PROVE TypeOK' /\ Holding'
    BY <1>15 DEF StartAbandoned, Release, PCs
  <1>16. ASSUME NEW w \in Workers, ExecutorReturns(w) PROVE TypeOK' /\ Holding'
    BY <1>16 DEF ExecutorReturns, PCs
  <1>17. ASSUME NEW w \in Workers, GateResult(w) PROVE TypeOK' /\ Holding'
    BY <1>17 DEF GateResult, LowerStatus, PCs, Outcomes, Answers, TerminalStatuses
  <1>18. ASSUME NEW w \in Workers, Finish(w) PROVE TypeOK' /\ Holding'
    <2>1. job[w] \in Runs
      BY <1>18 DEF Finish
    <2>2. FinalStatus(w) \in RunStatuses
      BY <1>b DEF FinalStatus, RunStatuses
    <2>3. StoreTyped'
      BY <1>18, <2>1, <2>2, <1>a, WriteTerminalTyped DEF Finish, StoreTyped
    <2>4. pc' \in [Workers -> PCs] /\ job' \in [Workers -> Runs \cup {NoRun}] /\ Holding'
      BY <1>18 DEF Finish, Release, PCs
    <2>5. /\ outcome' \in [Workers -> Outcomes]
          /\ cancels' \in SUBSET Runs /\ cancelled' \in SUBSET Runs
      BY <1>18 DEF Finish, Unregister, Outcomes, Errors
    <2>6. UNCHANGED <<approved, cancelRequested, process, queue, api, scan, executions, ends>>
      BY <1>18 DEF Finish
    <2> QED  BY <2>3, <2>4, <2>5, <2>6 DEF StoreTyped
  <1>19. ASSUME NEW r \in Runs, DispatchOne(r) PROVE TypeOK' /\ Holding'
    <2>1. queue' = Append(queue, r) \/ queue' = queue
      BY <1>19 DEF DispatchOne
    <2>2. Append(queue, r) \in Seq(Runs)
      BY AppendQueue
    <2>3. queue' \in Seq(Runs)
      BY <2>1, <2>2
    <2> QED  BY <1>19, <2>3 DEF DispatchOne
  <1>20. CASE DispatchScan
    BY <1>20 DEF DispatchScan, Backlog
  <1>21. CASE Start
    BY <1>21 DEF Start, With, Phases, Stages
  <1>22. ASSUME NEW r \in Runs, RecoverFail(r) PROVE TypeOK' /\ Holding'
    <2>1. StoreTyped'
      BY <1>22, <1>a, FailRunTyped DEF RecoverFail
    <2> QED  BY <1>22, <2>1 DEF RecoverFail, StoreTyped, Phases
  <1>23. ASSUME NEW r \in Runs, RecoverEnqueue(r) PROVE TypeOK' /\ Holding'
    BY <1>23, AppendQueue DEF RecoverEnqueue
  <1>24. CASE RecoverNext
    BY <1>24 DEF RecoverNext, With, Stages
  <1>25. CASE RecoverDone
    BY <1>25 DEF RecoverDone, Phases
  <1>26. CASE RecoverListFailed
    BY <1>26 DEF RecoverListFailed, Phases
  <1>27. CASE Close
    BY <1>27 DEF Close, Phases
  <1>28. CASE ProcessExit
    BY <1>28 DEF ProcessExit, Forget, Phases, Stages, PCs, APIs, Outcomes, Errors
  <1>29. CASE Crash
    BY <1>29 DEF Crash, Forget, Phases, Stages, PCs, APIs, Outcomes, Errors
  <1>30. CASE StartRefused
    BY <1>30 DEF StartRefused
  <1>31. CASE UNCHANGED vars
    BY <1>31 DEF vars
  <1> QED
    BY <1>1, <1>2, <1>3, <1>4, <1>5, <1>6, <1>7, <1>8, <1>9, <1>10, <1>11, <1>12, <1>13,
       <1>14, <1>15, <1>16, <1>17, <1>18, <1>19, <1>20, <1>21, <1>22, <1>23, <1>24, <1>25,
       <1>26, <1>27, <1>28, <1>29, <1>30, <1>31 DEF Next, API, Worker, Recovery

(***************************************************************************)
(* What the helpers do to the persisted runs.                              *)
(***************************************************************************)

\* Only run r changes status, and it may only go to s.
LEMMA WriteMoves ==
  ASSUME TypeOK, NEW r \in Runs, NEW s, NEW res \in Results, Write(r, s, res)
  PROVE  /\ \A x \in Runs \ {r} : status'[x] = status[x]
         /\ status'[r] \in {status[r], s}
         /\ res # "lost" => status'[r] = s
  BY DEF TypeOK, Write, Results

\* Ending a run that has not ended counts it for the first time.
LEMMA WriteTerminalCounts ==
  ASSUME TypeOK, CountedOnce, NEW r \in Runs, ~Terminal(status[r]), NEW s \in TerminalStatuses,
         NEW res \in Results, WriteTerminal(r, s, res)
  PROVE  CountedOnce'
  <1>1. completions[r] = 0
    BY DEF TypeOK, CountedOnce
  <1>2. \A x \in Runs \ {r} : status'[x] = status[x] /\ completions'[x] = completions[x]
    BY WriteMoves DEF WriteTerminal, TypeOK
  <1>3. completions'[r] \in {0, 1} /\ (completions'[r] = 1 => Terminal(status'[r]))
    <2>1. CASE res = "ok"
      BY <2>1, <1>1, WriteMoves DEF WriteTerminal, TypeOK, Terminal
    <2>2. CASE res # "ok"
      BY <2>2, <1>1 DEF WriteTerminal
    <2> QED  BY <2>1, <2>2
  <1> QED  BY <1>2, <1>3 DEF CountedOnce, Terminal

\* failRun does not count a run that has ended.
LEMMA FailRunCounts ==
  ASSUME TypeOK, CountedOnce, NEW r \in Runs, NEW res \in Results, FailRun(r, res)
  PROVE  CountedOnce'
  <1>1. CASE ~Terminal(status[r]) /\ WriteTerminal(r, "failed", res)
    <2>1. "failed" \in TerminalStatuses
      BY DEF TerminalStatuses
    <2> QED  BY <1>1, <2>1, WriteTerminalCounts
  <1>2. CASE UNCHANGED <<status, completions, faults, damaged>>
    BY <1>2 DEF CountedOnce, Terminal
  <1> QED  BY <1>1, <1>2 DEF FailRun

\* failRun only fails its run, and never one that has ended.
LEMMA FailRunMoves ==
  ASSUME TypeOK, NEW r \in Runs, NEW res \in Results, FailRun(r, res)
  PROVE  /\ \A x \in Runs \ {r} : status'[x] = status[x]
         /\ status'[r] \in {status[r], "failed"}
         /\ Terminal(status[r]) => status'[r] = status[r]
  BY WriteMoves DEF FailRun, WriteTerminal

(***************************************************************************)
(* Frames: the parts of the invariant that a step keeps because it leaves  *)
(* the state they speak of alone.                                          *)
(***************************************************************************)

\* Ownership speaks of statuses, workers and registered cancels only.
LEMMA OwnersFrame ==
  ASSUME Owners, UNCHANGED <<status, pc, job, cancels>>
  PROVE  Owners'
  BY DEF Owners, ClaimIsKept, OneOwner, RunningWhileInFlight, RegisteredWhileInFlight, InFlight

\* History speaks of statuses, approvals and counters only.
LEMMA HistoryFrame ==
  ASSUME History, UNCHANGED <<status, approved, executions, completions>>
  PROVE  History'
  BY DEF History, NotYetExecuted, ExecutedAtMostOnce, OnlyGatedWait, ApprovalGate, CountedOnce, Terminal

\* A worker that leaves its run, not in flight, to nobody.
LEMMA OwnersRelease ==
  ASSUME TypeOK, Owners, NEW w \in Workers, ~InFlight(w), Release(w), UNCHANGED <<status, cancels>>
  PROVE  Owners'
  <1>1. /\ \A v \in Workers \ {w} : pc'[v] = pc[v] /\ job'[v] = job[v]
        /\ pc'[w] = "idle"
    BY DEF Release, TypeOK
  <1>2. \A v \in Workers : InFlight(v)' <=> v # w /\ InFlight(v)
    BY <1>1 DEF InFlight
  <1> QED  BY <1>1, <1>2 DEF Owners, ClaimIsKept, OneOwner, RunningWhileInFlight, RegisteredWhileInFlight

\* Every step of a worker between Take and Release leaves the schedule alone.
LEMMA ScheduleOfWorker ==
  ASSUME Schedule, TypeOK, NEW w \in Workers, pc[w] # "idle",
         \A r \in Runs : status'[r] \in {"absent", "preparing", "waiting_approval"} => status[r] = status'[r],
         \A v \in Workers : (v # w => pc'[v] = pc[v]) /\ (job'[v] = job[v] \/ job'[v] \notin Runs),
         UNCHANGED <<phase, stage, todo, queue, api, scan>>
  PROVE  Schedule'
  BY DEF Schedule, Dormant, Unscheduled, RecoveryIsQuiet, InQueue, Serving

\* process returns early: the worker drops its run and nothing else changes.
LEMMA ReleasedQuietly ==
  ASSUME TypeOK, Schedule, Owners, NEW w \in Workers, ~InFlight(w), pc[w] # "idle", Release(w),
         UNCHANGED <<status, cancels, phase, stage, todo, queue, api, scan>>
  PROVE  Schedule' /\ Owners'
  <1>1. \A v \in Workers : (v # w => pc'[v] = pc[v]) /\ (job'[v] = job[v] \/ job'[v] \notin Runs)
    BY NoRunAssumption DEF Release, TypeOK
  <1> QED  BY <1>1, ScheduleOfWorker, OwnersRelease

\* A run that ends, the history of its executions and approval unchanged.
LEMMA HistoryWhenEnding ==
  ASSUME TypeOK, History, NEW r \in Runs, \A x \in Runs \ {r} : status'[x] = status[x],
         \/ status'[r] \in {status[r], "failed", "cancelled"}
         \/ status[r] = "running" /\ status'[r] \in TerminalStatuses,
         UNCHANGED <<approved, executions>>, CountedOnce'
  PROVE  History'
  <1>1. NotYetExecuted' /\ ExecutedAtMostOnce'
    BY DEF History, NotYetExecuted, ExecutedAtMostOnce, TerminalStatuses
  <1>2. OnlyGatedWait'
    BY DEF History, OnlyGatedWait, TerminalStatuses
  <1>3. ApprovalGate'
    BY KindsAssumption DEF History, ApprovalGate, TerminalStatuses
  <1> QED  BY <1>1, <1>2, <1>3 DEF History

\* A run that moves on, not yet handed to the executor.
LEMMA HistoryWhenMoving ==
  ASSUME TypeOK, History, NEW r \in Runs, \A x \in Runs \ {r} : status'[x] = status[x],
         status[r] \in {"absent", "preparing", "waiting_approval", "queued"},
         status'[r] \in {"absent", "preparing", "waiting_approval", "queued", "validating"},
         status'[r] = "waiting_approval" => r \in Gated,
         r \in Gated /\ status'[r] \in {"queued", "validating"} => r \in approved',
         approved \subseteq approved', UNCHANGED <<executions, completions>>
  PROVE  History'
  <1>1. NotYetExecuted' /\ ExecutedAtMostOnce'
    BY DEF History, NotYetExecuted, ExecutedAtMostOnce
  <1>2. OnlyGatedWait'
    BY DEF History, OnlyGatedWait
  <1>3. ApprovalGate'
    BY KindsAssumption DEF History, ApprovalGate
  <1>4. CountedOnce'
    <2>1. ~Terminal(status[r])
      BY DEF Terminal, TerminalStatuses
    <2> QED  BY <2>1 DEF History, CountedOnce, Terminal
  <1> QED  BY <1>1, <1>2, <1>3, <1>4 DEF History

\* A run that no worker holds changes its status.
LEMMA OwnersElsewhere ==
  ASSUME TypeOK, Holding, Owners, NEW r \in Runs, \A x \in Runs \ {r} : status'[x] = status[x],
         \A v \in Workers : job[v] # r, UNCHANGED <<pc, job, cancels>>
  PROVE  Owners'
  <1>1. \A v \in Workers : job[v] # NoRun => status'[job[v]] = status[job[v]]
    BY DEF TypeOK
  <1> QED
    BY <1>1
    DEF Holding, Owners, ClaimIsKept, OneOwner, RunningWhileInFlight, RegisteredWhileInFlight, InFlight

\* The end of a process: nothing is scheduled or owned any more, ...
LEMMA ForgottenProcess ==
  ASSUME Forget
  PROVE  Schedule' /\ Owners'
  <1> USE DEF Forget
  <1>1. Schedule'
    <2>1. \A x : ~InQueue(x)'
      BY DEF InQueue
    <2> QED
      BY <2>1, NoRunAssumption
      DEF Schedule, Dormant, Unscheduled, RecoveryIsQuiet, Serving
  <1>2. Owners'
    BY DEF Owners, ClaimIsKept, OneOwner, RunningWhileInFlight, RegisteredWhileInFlight, InFlight
  <1> QED  BY <1>1, <1>2

\* ... and unless it takes back persisted versions nothing else changes.
LEMMA Forgotten ==
  ASSUME TypeOK, History, Forget, UNCHANGED stored
  PROVE  Schedule' /\ Owners' /\ History'
  <1>1. History'
    BY HistoryFrame DEF Forget, stored
  <1> QED  BY <1>1, ForgottenProcess

(***************************************************************************)
(* The invariant is inductive: one step per action, and under it one per   *)
(* part of the invariant.                                                  *)
(***************************************************************************)

\* Every step of the service keeps IInv.
LEMMA Inductive == IInv /\ [Next]_vars => IInv'
  <1> SUFFICES ASSUME IInv, [Next]_vars PROVE IInv'
    OBVIOUS
  <1> USE DEF stored, workers, process, budget
  <1>t. TypeOK /\ Holding /\ Schedule /\ Owners /\ History /\ TypeOK' /\ Holding'
    BY Typing DEF IInv
  <1> SUFFICES Schedule' /\ Owners' /\ History'
    BY <1>t DEF IInv
  <1>1. ASSUME NEW r \in Runs, CreateRun(r) PROVE Schedule' /\ Owners' /\ History'
    <2>1. PICK res \in Results : Write(r, InitialStatus(r), res)
      BY <1>1 DEF CreateRun
    <2>2. /\ \A x \in Runs \ {r} : status'[x] = status[x]
          /\ status[r] = "absent" /\ status'[r] \in {"absent", InitialStatus(r)}
          /\ res = "ok" => status'[r] = InitialStatus(r)
      BY <1>1, <2>1, <1>t, WriteMoves DEF CreateRun
    <2>3. Schedule'
      BY <1>1, <2>1, <2>2, <1>t, KindsAssumption
      DEF CreateRun, Write, InitialStatus, TypeOK, Schedule, Dormant, Unscheduled, RecoveryIsQuiet, InQueue, Serving
    <2>4. Owners'
      BY <1>1, <2>2, <1>t, OwnersElsewhere DEF CreateRun, Schedule, Dormant
    <2>5. History'
      <3>1. /\ InitialStatus(r) \in {"preparing", "waiting_approval", "queued"}
            /\ InitialStatus(r) = "waiting_approval" => r \in Gated
            /\ r \in Gated => InitialStatus(r) = "waiting_approval"
        BY KindsAssumption DEF InitialStatus
      <3> QED  BY <1>1, <2>2, <3>1, <1>t, HistoryWhenMoving DEF CreateRun
    <2> QED  BY <2>3, <2>4, <2>5
  <1>2. ASSUME NEW r \in Runs, ApproveRun(r) PROVE Schedule' /\ Owners' /\ History'
    <2>1. PICK res \in Results :
            /\ Write(r, "queued", res)
            /\ approved' = IF res = "lost" THEN approved ELSE approved \cup {r}
            /\ api' = IF res = "ok" THEN [api EXCEPT ![r] = "enqueue"] ELSE api
      BY <1>2 DEF ApproveRun
    <2>2. /\ \A x \in Runs \ {r} : status'[x] = status[x]
          /\ status[r] = "waiting_approval" /\ status'[r] \in {"waiting_approval", "queued"}
          /\ res # "lost" => status'[r] = "queued"
          /\ res = "lost" => status'[r] = status[r]
      BY <1>2, <2>1, <1>t, WriteMoves DEF ApproveRun, Write
    <2>3. Schedule'
      <3>a. UNCHANGED <<queue, job, scan, todo>>
        BY <1>2 DEF ApproveRun, process, workers
      <3>b. \A x \in Runs : api'[x] # api[x] => x = r /\ status'[r] = "queued"
        BY <2>1, <2>2, <1>t DEF TypeOK
      <3>c. Dormant /\ Unscheduled /\ r \notin Manual
        BY <2>2, <1>t, KindsAssumption DEF Schedule, History, OnlyGatedWait
      <3>1. Dormant'
        <4>1. \A x \in Runs : status'[x] \in {"absent", "preparing", "waiting_approval"} =>
                status[x] \in {"absent", "preparing", "waiting_approval"}
          BY <2>2
        <4> QED  BY <3>a, <3>b, <3>c, <4>1 DEF Dormant, InQueue
      <3>2. Unscheduled'
        BY <2>2, <3>a, <3>b, <3>c DEF Dormant, Unscheduled, InQueue
      <3>3. RecoveryIsQuiet'
        BY <1>2, <1>t DEF ApproveRun, Schedule, RecoveryIsQuiet, Serving
      <3> QED  BY <3>1, <3>2, <3>3 DEF Schedule
    <2>4. Owners'
      BY <1>2, <2>2, <1>t, OwnersElsewhere DEF ApproveRun, Schedule, Dormant
    <2>5. History'
      <3>1. /\ approved \subseteq approved'
            /\ status'[r] = "queued" => r \in approved'
            /\ status[r] = "waiting_approval" => r \in Gated
        BY <2>1, <2>2, <1>t DEF History, OnlyGatedWait
      <3> QED  BY <1>2, <2>2, <3>1, <1>t, HistoryWhenMoving DEF ApproveRun
    <2> QED  BY <2>3, <2>4, <2>5
  <1>3. ASSUME NEW r \in Runs, SubmitRun(r) PROVE Schedule' /\ Owners' /\ History'
    <2>1. PICK res \in Results :
            /\ Write(r, "queued", res)
            /\ api' = IF res = "ok" THEN [api EXCEPT ![r] = "notify"] ELSE api
      BY <1>3 DEF SubmitRun
    <2>2. /\ \A x \in Runs \ {r} : status'[x] = status[x]
          /\ status[r] = "preparing" /\ status'[r] \in {"preparing", "queued"}
          /\ res = "ok" => status'[r] = "queued"
      BY <1>3, <2>1, <1>t, WriteMoves DEF SubmitRun
    <2>3. Schedule'
      BY <1>3, <2>1, <2>2, <1>t
      DEF SubmitRun, TypeOK, Schedule, Dormant, Unscheduled, RecoveryIsQuiet, InQueue, Serving
    <2>4. Owners'
      BY <1>3, <2>2, <1>t, OwnersElsewhere DEF SubmitRun, Schedule, Dormant
    <2>5. History'
      BY <1>3, <2>2, <1>t, KindsAssumption, HistoryWhenMoving DEF SubmitRun
    <2> QED  BY <2>3, <2>4, <2>5
  <1>4. ASSUME NEW r \in Runs, EnqueueAccepted(r) PROVE Schedule' /\ Owners' /\ History'
    <2>1. Schedule'
      BY <1>4, <1>t, AppendQueue
      DEF EnqueueAccepted, TypeOK, Schedule, Dormant, Unscheduled, RecoveryIsQuiet, InQueue, Serving
    <2>2. Owners' /\ History'
      BY <1>4, <1>t, OwnersFrame, HistoryFrame DEF EnqueueAccepted
    <2> QED  BY <2>1, <2>2
  <1>5. ASSUME NEW r \in Runs, EnqueueRefused(r) PROVE Schedule' /\ Owners' /\ History'
    <2>1. api[r] = "enqueue" \/ (api'[r] = "none" /\ api[r] # "none")
      BY <1>5, <1>t DEF EnqueueRefused, AfterRefusal, TypeOK
    <2>2. Schedule'
      BY <1>5, <2>1, <1>t
      DEF EnqueueRefused, TypeOK, Schedule, Dormant, Unscheduled, RecoveryIsQuiet, InQueue, Serving
    <2>3. Owners' /\ History'
      BY <1>5, <1>t, OwnersFrame, HistoryFrame DEF EnqueueRefused
    <2> QED  BY <2>2, <2>3
  <1>6. ASSUME NEW r \in Runs, FailUnqueued(r) PROVE Schedule' /\ Owners' /\ History'
    <2>1. PICK res \in Results : FailRun(r, res)
      BY <1>6 DEF FailUnqueued
    <2>2. /\ \A x \in Runs \ {r} : status'[x] = status[x]
          /\ status'[r] \in {status[r], "failed"}
      BY <2>1, <1>t, FailRunMoves
    <2>3. \A v \in Workers : job[v] # r
      BY <1>6, <1>t DEF FailUnqueued, Schedule, Unscheduled
    <2>4. Schedule'
      <3>1. /\ api[r] = "fail" /\ api' = [api EXCEPT ![r] = "none"]
            /\ UNCHANGED <<phase, stage, todo, queue, pc, job, scan>>
        BY <1>6 DEF FailUnqueued
      <3>2. \A x \in Runs : api'[x] = IF x = r THEN "none" ELSE api[x]
        BY <3>1, <1>t DEF TypeOK
      <3>3. Dormant'
        BY <2>2, <3>1, <3>2, <1>t DEF Schedule, Dormant, InQueue
      <3>4. Unscheduled'
        BY <3>1, <3>2, <1>t DEF Schedule, Unscheduled, InQueue
      <3>5. RecoveryIsQuiet'
        BY <3>1, <3>2, <1>t DEF Schedule, RecoveryIsQuiet, Serving
      <3> QED  BY <3>3, <3>4, <3>5 DEF Schedule
    <2>5. Owners'
      BY <1>6, <2>2, <2>3, <1>t, OwnersElsewhere DEF FailUnqueued
    <2>6. CountedOnce'
      BY <2>1, <1>t, FailRunCounts DEF History
    <2>7. History'
      BY <1>6, <2>2, <2>6, <1>t, HistoryWhenEnding DEF FailUnqueued
    <2> QED  BY <2>4, <2>5, <2>7
  <1>7. ASSUME NEW r \in Runs, CancelRegistered(r) PROVE Schedule' /\ Owners' /\ History'
    <2>1. Schedule'
      BY <1>7, <1>t
      DEF CancelRegistered, Schedule, Dormant, Unscheduled, RecoveryIsQuiet, InQueue, Serving
    <2>2. Owners' /\ History'
      BY <1>7, <1>t, OwnersFrame, HistoryFrame DEF CancelRegistered
    <2> QED  BY <2>1, <2>2
  <1>8. ASSUME NEW r \in Runs, CancelDirect(r) PROVE Schedule' /\ Owners' /\ History'
    <2>1. PICK res \in Results : WriteTerminal(r, "cancelled", res)
      BY <1>8 DEF CancelDirect
    <2>2. ~Terminal(status[r]) /\ r \notin cancels
          /\ UNCHANGED <<approved, executions, process, queue, workers, api, scan>>
      BY <1>8 DEF CancelDirect, Registered, Terminal, LiveStatuses, TerminalStatuses
    <2>3. /\ \A x \in Runs \ {r} : status'[x] = status[x]
          /\ status'[r] \in {status[r], "cancelled"}
      BY <2>1, <1>t, WriteMoves DEF WriteTerminal
    <2>4. Schedule'
      BY <2>2, <2>3, <1>t
      DEF Schedule, Dormant, Unscheduled, RecoveryIsQuiet, InQueue, Serving
    <2>5. Owners'
      <3>1. \A v \in Workers : InFlight(v) => job[v] # r
        BY <2>2, <1>t DEF Owners, RegisteredWhileInFlight
      <3>2. \A v \in Workers : (pc[v] = "validating" \/ InFlight(v)) => job[v] \in Runs
        BY <1>t DEF TypeOK, Holding, InFlight
      <3> QED
        BY <2>2, <2>3, <3>1, <3>2, <1>t
        DEF Owners, ClaimIsKept, OneOwner, RunningWhileInFlight, RegisteredWhileInFlight, InFlight
    <2>6. CountedOnce'
      <3>1. "cancelled" \in TerminalStatuses
        BY DEF TerminalStatuses
      <3> QED  BY <3>1, <2>1, <2>2, <1>t, WriteTerminalCounts DEF History
    <2>7. History'
      BY <2>2, <2>3, <2>6, <1>t, HistoryWhenEnding
    <2> QED  BY <2>4, <2>5, <2>7
  <1>9. ASSUME NEW w \in Workers, Take(w) PROVE Schedule' /\ Owners' /\ History'
    <2>1. /\ pc[w] = "idle" /\ queue # <<>> /\ queue' = Tail(queue)
          /\ job' = [job EXCEPT ![w] = Head(queue)]
          /\ UNCHANGED <<status, phase, stage, todo, scan, api, cancels>>
      BY <1>9 DEF Take
    <2>2. /\ \A v \in Workers \ {w} : pc'[v] = pc[v] /\ job'[v] = job[v]
          /\ pc'[w] = "taken"
      BY <1>9, <1>t DEF Take, TypeOK
    <2>3. InQueue(Head(queue)) /\ \A x : InQueue(x)' => InQueue(x)
      <3>1. queue \in Seq(Runs)
        BY <1>t DEF TypeOK
      <3> QED  BY <2>1, <3>1, TailQueue DEF InQueue
    <2>4. \A x \in Runs : ~InQueue(x) => ~InQueue(x)' /\ x # Head(queue)
      BY <2>3
    <2>5. \A v \in Workers : job'[v] = job[v] \/ job'[v] = Head(queue)
      BY <2>1, <1>t DEF TypeOK
    <2>6. Dormant' /\ Unscheduled'
      BY <2>1, <2>4, <2>5, <1>t DEF Schedule, Dormant, Unscheduled
    <2>7. RecoveryIsQuiet'
      BY <2>1, <1>t DEF Schedule, RecoveryIsQuiet, Serving
    <2>8. Owners'
      BY <2>1, <2>2, <1>t
      DEF Owners, ClaimIsKept, OneOwner, RunningWhileInFlight, RegisteredWhileInFlight, InFlight
    <2>9. History'
      BY <1>9, <1>t, HistoryFrame DEF Take
    <2> QED  BY <2>6, <2>7, <2>8, <2>9 DEF Schedule
  <1>10. ASSUME NEW w \in Workers, Exit(w) PROVE Schedule' /\ Owners' /\ History'
    <2>1. /\ pc[w] = "idle" /\ pc' = [pc EXCEPT ![w] = "exited"] /\ phase \in {"closing", "aborted"}
          /\ UNCHANGED <<status, job, phase, stage, todo, queue, scan, api, cancels>>
      BY <1>10 DEF Exit, Stopping
    <2>2. Schedule'
      BY <2>1, <1>t DEF TypeOK, Schedule, Dormant, Unscheduled, RecoveryIsQuiet, InQueue, Serving
    <2>3. Owners'
      BY <2>1, <1>t
      DEF TypeOK, Owners, ClaimIsKept, OneOwner, RunningWhileInFlight, RegisteredWhileInFlight, InFlight
    <2>4. History'
      BY <1>10, <1>t, HistoryFrame DEF Exit
    <2> QED  BY <2>2, <2>3, <2>4
  <1>11. ASSUME NEW w \in Workers, Claim(w) PROVE Schedule' /\ Owners' /\ History'
    <2>1. PICK res \in Results :
            /\ Write(job[w], "validating", res)
            /\ IF res = "ok" THEN pc' = [pc EXCEPT ![w] = "validating"] /\ UNCHANGED job
                             ELSE Release(w)
      BY <1>11 DEF Claim
    <2>2. job[w] \in Runs /\ pc[w] = "taken" /\ status[job[w]] = "queued"
      <3>1. pc[w] = "taken" /\ status[job[w]] = "queued"
        BY <1>11 DEF Claim, Claimable
      <3> QED  BY <3>1, <1>t, HeldRun
    <2>3. /\ \A x \in Runs \ {job[w]} : status'[x] = status[x]
          /\ status'[job[w]] \in {"queued", "validating"}
          /\ res = "ok" => status'[job[w]] = "validating"
      BY <2>1, <2>2, <1>t, WriteMoves
    <2>4. UNCHANGED <<phase, stage, todo, queue, scan, api, cancels, approved, executions, completions>>
      BY <1>11 DEF Claim
    <2>5. /\ \A v \in Workers \ {w} : pc'[v] = pc[v] /\ job'[v] = job[v]
          /\ \/ pc'[w] = "validating" /\ job'[w] = job[w] /\ res = "ok"
             \/ pc'[w] = "idle" /\ job'[w] = NoRun
      BY <2>1, <1>t DEF Release, TypeOK
    <2>6. Schedule'
      <3>1. \A x \in Runs : status'[x] \in {"absent", "preparing", "waiting_approval"} => status[x] = status'[x]
        BY <2>2, <2>3
      <3>2. \A v \in Workers : (v # w => pc'[v] = pc[v]) /\ (job'[v] = job[v] \/ job'[v] \notin Runs)
        BY <2>5, NoRunAssumption
      <3> QED  BY <2>2, <2>4, <3>1, <3>2, <1>t, ScheduleOfWorker
    <2>7. \A v \in Workers : (pc[v] = "validating" \/ InFlight(v)) => job[v] # job[w] /\ job[v] \in Runs
      <3>1. \A v \in Workers : (pc[v] = "validating" \/ InFlight(v)) => job[v] \in Runs
        BY <1>t DEF TypeOK, Holding, InFlight
      <3>2. \A v \in Workers : (pc[v] = "validating" \/ InFlight(v)) => status[job[v]] # "queued"
        BY <1>t DEF Owners, ClaimIsKept, RunningWhileInFlight
      <3> QED  BY <2>2, <3>1, <3>2
    <2>8. \A v \in Workers : InFlight(v)' <=> InFlight(v)
      BY <2>2, <2>5 DEF InFlight
    <2>9. ClaimIsKept'
      BY <2>3, <2>5, <2>7, <1>t DEF Owners, ClaimIsKept
    <2>10. OneOwner'
      BY <2>5, <2>7, <2>8, <1>t DEF Owners, OneOwner
    <2>11. RunningWhileInFlight'
      BY <2>2, <2>3, <2>5, <2>7, <2>8, <1>t DEF Owners, RunningWhileInFlight, InFlight
    <2>12. RegisteredWhileInFlight'
      BY <2>2, <2>4, <2>5, <2>8, <1>t DEF Owners, RegisteredWhileInFlight, InFlight
    <2>13. History'
      <3>1. job[w] \in Gated => job[w] \in approved
        BY <2>2, <1>t DEF History, ApprovalGate
      <3> QED  BY <2>2, <2>3, <2>4, <3>1, <1>t, HistoryWhenMoving
    <2> QED  BY <2>6, <2>9, <2>10, <2>11, <2>12, <2>13 DEF Owners
  <1>12. ASSUME NEW w \in Workers, ClaimRefused(w) PROVE Schedule' /\ Owners' /\ History'
    BY <1>12, <1>t, ReleasedQuietly, HistoryFrame DEF ClaimRefused, InFlight
  <1>13. ASSUME NEW w \in Workers, PreflightFailed(w) PROVE Schedule' /\ Owners' /\ History'
    <2>1. /\ pc[w] = "validating" /\ job[w] \in Runs
          /\ UNCHANGED <<phase, stage, todo, queue, scan, api, cancels, approved, executions>>
      BY <1>13, <1>t DEF PreflightFailed, TypeOK, Holding
    <2>2. \/ \E res \in Results : FailRun(job[w], res)
          \/ UNCHANGED <<status, completions>>
      BY <1>13 DEF PreflightFailed
    <2>3. /\ \A x \in Runs \ {job[w]} : status'[x] = status[x]
          /\ status'[job[w]] \in {status[job[w]], "failed"}
      BY <2>1, <2>2, <1>t, FailRunMoves
    <2>4. /\ \A v \in Workers \ {w} : pc'[v] = pc[v] /\ job'[v] = job[v]
          /\ pc'[w] = "idle" /\ job'[w] = NoRun
      BY <1>13, <1>t DEF PreflightFailed, Release, TypeOK
    <2>5. \A v \in Workers \ {w} : (pc[v] = "validating" \/ InFlight(v)) => job[v] \in Runs \ {job[w]}
      BY <2>1, <1>t DEF TypeOK, Holding, Owners, OneOwner, InFlight
    <2>6. Schedule'
      <3>1. \A x \in Runs : status'[x] \in {"absent", "preparing", "waiting_approval"} => status[x] = status'[x]
        BY <2>1, <2>3
      <3>2. \A v \in Workers : (v # w => pc'[v] = pc[v]) /\ (job'[v] = job[v] \/ job'[v] \notin Runs)
        BY <2>4, NoRunAssumption
      <3> QED  BY <2>1, <3>1, <3>2, <1>t, ScheduleOfWorker
    <2>7. ClaimIsKept' /\ OneOwner' /\ RunningWhileInFlight'
      BY <2>3, <2>4, <2>5, <1>t DEF Owners, ClaimIsKept, OneOwner, RunningWhileInFlight, InFlight
    <2>8. RegisteredWhileInFlight'
      BY <2>1, <2>4, <1>t DEF Owners, RegisteredWhileInFlight, InFlight
    <2>9. CountedOnce'
      <3>1. CASE \E res \in Results : FailRun(job[w], res)
        BY <3>1, <2>1, <1>t, FailRunCounts DEF History
      <3>2. CASE UNCHANGED <<status, completions>>
        BY <3>2, <1>t DEF History, CountedOnce, Terminal
      <3> QED  BY <2>2, <3>1, <3>2
    <2>10. History'
      BY <2>1, <2>3, <2>9, <1>t, HistoryWhenEnding
    <2> QED  BY <2>6, <2>7, <2>8, <2>10 DEF Owners
  <1>14. ASSUME NEW w \in Workers, StartExecutor(w) PROVE Schedule' /\ Owners' /\ History'
    <2>1. PICK res \in Results :
            /\ Write(job[w], "running", res)
            /\ \/ /\ res = "ok"
                  /\ pc' = [pc EXCEPT ![w] = "executing"] /\ job' = job
                  /\ cancels' = cancels \cup {job[w]}
                  /\ executions' = [executions EXCEPT ![job[w]] = @ + 1]
               \/ Release(w) /\ cancels' = cancels /\ executions' = executions
      BY <1>14 DEF StartExecutor
    <2>2. job[w] \in Runs /\ pc[w] = "validating" /\ status[job[w]] = "validating"
      <3>1. job[w] \in Runs /\ pc[w] = "validating"
        BY <1>14, <1>t DEF StartExecutor, TypeOK, Holding
      <3> QED  BY <3>1, <1>14, <1>t DEF StartExecutor, Owners, ClaimIsKept, Terminal, TerminalStatuses
    <2>3. /\ \A x \in Runs \ {job[w]} : status'[x] = status[x]
          /\ status'[job[w]] \in {"validating", "running"}
          /\ res = "ok" => status'[job[w]] = "running"
      BY <2>1, <2>2, <1>t, WriteMoves
    <2>4. \A v \in Workers \ {w} : (pc[v] = "validating" \/ InFlight(v)) => job[v] \in Runs \ {job[w]}
      BY <2>2, <1>t DEF TypeOK, Holding, Owners, OneOwner, InFlight
    <2>5. /\ \A v \in Workers \ {w} : pc'[v] = pc[v] /\ job'[v] = job[v]
          /\ \/ pc'[w] = "executing" /\ job'[w] = job[w] /\ res = "ok"
             \/ pc'[w] = "idle" /\ job'[w] = NoRun
      BY <2>1, <1>t DEF Release, TypeOK
    <2>6. ClaimIsKept' /\ OneOwner'
      BY <2>3, <2>4, <2>5, <1>t DEF Owners, ClaimIsKept, OneOwner, InFlight
    <2>7. RunningWhileInFlight'
      BY <2>3, <2>4, <2>5, <1>t DEF Owners, RunningWhileInFlight, InFlight
    <2>8. RegisteredWhileInFlight'
      <3>1. CASE pc'[w] = "executing" /\ cancels' = cancels \cup {job[w]}
        BY <3>1, <2>2, <2>5, <1>t DEF Owners, RegisteredWhileInFlight, InFlight
      <3>2. CASE pc'[w] = "idle" /\ cancels' = cancels
        BY <3>2, <2>2, <2>5, <1>t DEF Owners, RegisteredWhileInFlight, InFlight
      <3> QED  BY <3>1, <3>2, <2>1, <1>t DEF Release, TypeOK
    <2>9. /\ PolicyAllows(job[w])
          /\ UNCHANGED <<phase, stage, todo, queue, scan, api, approved, completions>>
      BY <1>14 DEF StartExecutor
    <2>10. Schedule'
      <3>1. \A x \in Runs : status'[x] \in {"absent", "preparing", "waiting_approval"} => status[x] = status'[x]
        BY <2>2, <2>3
      <3>2. \A v \in Workers : (v # w => pc'[v] = pc[v]) /\ (job'[v] = job[v] \/ job'[v] \notin Runs)
        BY <2>5, NoRunAssumption
      <3> QED  BY <2>2, <2>9, <3>1, <3>2, <1>t, ScheduleOfWorker
    <2>11. /\ \A x \in Runs \ {job[w]} : executions'[x] = executions[x]
           /\ executions'[job[w]] = 0 \/ (executions'[job[w]] = 1 /\ res = "ok")
      <3>1. executions[job[w]] = 0
        BY <2>2, <1>t DEF History, NotYetExecuted
      <3> QED  BY <2>1, <2>2, <3>1, <1>t DEF TypeOK
    <2>12. NotYetExecuted' /\ ExecutedAtMostOnce'
      BY <2>2, <2>3, <2>11, <1>t DEF History, NotYetExecuted, ExecutedAtMostOnce
    <2>13. OnlyGatedWait' /\ ApprovalGate'
      BY <2>3, <2>9, <2>11, <1>t, KindsAssumption DEF PolicyAllows, History, OnlyGatedWait, ApprovalGate
    <2>14. CountedOnce'
      BY <2>2, <2>3, <2>9, <1>t DEF History, CountedOnce, Terminal, TerminalStatuses
    <2> QED  BY <2>6, <2>7, <2>8, <2>10, <2>12, <2>13, <2>14 DEF Owners, History
  <1>15. ASSUME NEW w \in Workers, StartAbandoned(w) PROVE Schedule' /\ Owners' /\ History'
    BY <1>15, <1>t, ReleasedQuietly, HistoryFrame DEF StartAbandoned, InFlight
  <1>16. ASSUME NEW w \in Workers, ExecutorReturns(w) PROVE Schedule' /\ Owners' /\ History'
    <2>1. /\ pc[w] = "executing" /\ job' = job
          /\ UNCHANGED <<status, cancels, phase, stage, todo, queue, api, scan, approved, executions, completions>>
      BY <1>16 DEF ExecutorReturns
    <2>2. /\ \A v \in Workers \ {w} : pc'[v] = pc[v]
          /\ pc'[w] \in {"gating", "finishing"}
      BY <1>16, <1>t DEF ExecutorReturns, TypeOK
    <2>3. Schedule'
      BY <2>1, <2>2, <1>t, ScheduleOfWorker
    <2>4. Owners'
      BY <2>1, <2>2, <1>t
      DEF Owners, ClaimIsKept, OneOwner, RunningWhileInFlight, RegisteredWhileInFlight, InFlight
    <2> QED  BY <2>1, <2>3, <2>4, <1>t, HistoryFrame
  <1>17. ASSUME NEW w \in Workers, GateResult(w) PROVE Schedule' /\ Owners' /\ History'
    <2>1. /\ pc[w] = "gating" /\ job' = job
          /\ UNCHANGED <<status, cancels, phase, stage, todo, queue, api, scan, approved, executions, completions>>
      BY <1>17 DEF GateResult
    <2>2. /\ \A v \in Workers \ {w} : pc'[v] = pc[v]
          /\ pc'[w] = "finishing"
      BY <1>17, <1>t DEF GateResult, TypeOK
    <2>3. Schedule'
      BY <2>1, <2>2, <1>t, ScheduleOfWorker
    <2>4. Owners'
      BY <2>1, <2>2, <1>t
      DEF Owners, ClaimIsKept, OneOwner, RunningWhileInFlight, RegisteredWhileInFlight, InFlight
    <2> QED  BY <2>1, <2>3, <2>4, <1>t, HistoryFrame
  <1>18. ASSUME NEW w \in Workers, Finish(w) PROVE Schedule' /\ Owners' /\ History'
    <2>1. job[w] \in Runs /\ pc[w] = "finishing" /\ InFlight(w) /\ status[job[w]] = "running"
      <3>1. pc[w] = "finishing" /\ InFlight(w)
        BY <1>18 DEF Finish, InFlight
      <3>2. job[w] \in Runs
        BY <3>1, <1>t DEF TypeOK, Holding
      <3> QED  BY <3>1, <3>2, <1>t DEF Owners, RunningWhileInFlight
    <2>2. PICK res \in Results :
            \/ ~Terminal(status[job[w]]) /\ WriteTerminal(job[w], FinalStatus(w), res)
            \/ UNCHANGED <<status, completions>>
      BY <1>18 DEF Finish
    <2>3. FinalStatus(w) \in TerminalStatuses
      BY DEF FinalStatus, TerminalStatuses
    <2>4. /\ \A x \in Runs \ {job[w]} : status'[x] = status[x]
          /\ status'[job[w]] = status[job[w]] \/ status'[job[w]] \in TerminalStatuses
      <3>1. CASE WriteTerminal(job[w], FinalStatus(w), res)
        BY <3>1, <2>1, <2>3, <1>t, WriteMoves DEF WriteTerminal
      <3>2. CASE UNCHANGED <<status, completions>>
        BY <3>2
      <3> QED  BY <2>2, <3>1, <3>2
    <2>5. \A v \in Workers \ {w} : (pc[v] = "validating" \/ InFlight(v)) => job[v] \in Runs \ {job[w]}
      <3>1. \A v \in Workers : (pc[v] = "validating" \/ InFlight(v)) => job[v] \in Runs
        BY <1>t DEF TypeOK, Holding, InFlight
      <3> QED  BY <2>1, <3>1, <1>t DEF Owners, OneOwner
    <2>6. /\ \A v \in Workers \ {w} : pc'[v] = pc[v] /\ job'[v] = job[v]
          /\ pc'[w] = "idle" /\ job'[w] = NoRun /\ cancels' = cancels \ {job[w]}
      BY <1>18, <1>t DEF Finish, Release, Unregister, TypeOK
    <2>7. UNCHANGED <<phase, stage, todo, queue, scan, api, approved, executions>>
      BY <1>18 DEF Finish
    <2>8. Schedule'
      <3>1. \A x \in Runs : status'[x] \in {"absent", "preparing", "waiting_approval"} => status[x] = status'[x]
        BY <2>4 DEF TerminalStatuses
      <3>2. \A v \in Workers : (v # w => pc'[v] = pc[v]) /\ (job'[v] = job[v] \/ job'[v] \notin Runs)
        BY <2>6, NoRunAssumption
      <3> QED  BY <2>1, <2>7, <3>1, <3>2, <1>t, ScheduleOfWorker
    <2>9. ClaimIsKept' /\ RunningWhileInFlight'
      BY <2>4, <2>5, <2>6, <1>t DEF Owners, ClaimIsKept, RunningWhileInFlight, InFlight
    <2>10. OneOwner'
      BY <2>5, <2>6, <1>t DEF Owners, OneOwner, InFlight
    <2>11. RegisteredWhileInFlight'
      BY <2>1, <2>5, <2>6, <1>t DEF Owners, RegisteredWhileInFlight, InFlight
    <2>12. CountedOnce'
      <3>1. CASE ~Terminal(status[job[w]]) /\ WriteTerminal(job[w], FinalStatus(w), res)
        BY <3>1, <2>1, <2>3, <1>t, WriteTerminalCounts DEF History
      <3>2. CASE UNCHANGED <<status, completions>>
        BY <3>2, <1>t DEF History, CountedOnce, Terminal
      <3> QED  BY <2>2, <3>1, <3>2
    <2>13. History'
      BY <2>1, <2>4, <2>7, <2>12, <1>t, HistoryWhenEnding
    <2> QED  BY <2>8, <2>9, <2>10, <2>11, <2>13 DEF Owners
  <1>19. ASSUME NEW r \in Runs, DispatchOne(r) PROVE Schedule' /\ Owners' /\ History'
    <2>1. queue' = Append(queue, r) \/ queue' = queue
      BY <1>19 DEF DispatchOne
    <2>2. \A x \in Runs : InQueue(x)' => InQueue(x) \/ x = r
      <3>1. queue \in Seq(Runs)
        BY <1>t DEF TypeOK
      <3>2. CASE queue' = Append(queue, r)
        BY <3>1, <3>2, AppendQueue DEF InQueue
      <3>3. CASE queue' = queue
        BY <3>3 DEF InQueue
      <3> QED  BY <2>1, <3>2, <3>3
    <2>3. /\ r \in scan /\ r \in Manual /\ scan' \subseteq scan /\ Serving
          /\ UNCHANGED <<status, pc, job, cancels, phase, stage, api, todo, approved, executions, completions>>
      BY <1>19, <1>t DEF DispatchOne, TypeOK
    <2>4. Dormant' /\ Unscheduled'
      BY <2>2, <2>3, <1>t DEF Schedule, Dormant, Unscheduled
    <2>5. RecoveryIsQuiet'
      BY <2>3, <1>t DEF Schedule, RecoveryIsQuiet, Serving
    <2> QED  BY <2>3, <2>4, <2>5, <1>t, OwnersFrame, HistoryFrame DEF Schedule
  <1>20. CASE DispatchScan
    <2>1. Schedule'
      BY <1>20, <1>t DEF DispatchScan, Backlog, Schedule, Dormant, Unscheduled, RecoveryIsQuiet, InQueue, Serving
    <2> QED  BY <1>20, <2>1, <1>t, OwnersFrame, HistoryFrame DEF DispatchScan
  <1>21. CASE Start
    <2>1. Schedule'
      BY <1>21, <1>t DEF Start, With, Schedule, Dormant, Unscheduled, RecoveryIsQuiet, InQueue, Serving
    <2> QED  BY <1>21, <2>1, <1>t, OwnersFrame, HistoryFrame DEF Start
  <1>22. ASSUME NEW r \in Runs, RecoverFail(r) PROVE Schedule' /\ Owners' /\ History'
    <2>1. PICK res \in Results : FailRun(r, res)
      BY <1>22 DEF RecoverFail
    <2>2. /\ \A x \in Runs \ {r} : status'[x] = status[x]
          /\ status'[r] \in {status[r], "failed"}
      BY <2>1, <1>t, FailRunMoves
    <2>3. /\ phase = "recovering" /\ phase' \in {"recovering", "aborted"} /\ stage # "queued"
          /\ todo' \subseteq todo
          /\ UNCHANGED <<stage, queue, pc, job, cancels, api, scan, approved, executions>>
      BY <1>22 DEF RecoverFail
    <2>4. Schedule'
      BY <2>2, <2>3, <1>t DEF Schedule, Dormant, Unscheduled, RecoveryIsQuiet, InQueue, Serving
    <2>5. Owners'
      <3>1. \A v \in Workers : pc[v] = "idle"
        BY <2>3, <1>t DEF Schedule, RecoveryIsQuiet
      <3> QED
        BY <2>3, <3>1, <1>t
        DEF Owners, ClaimIsKept, OneOwner, RunningWhileInFlight, RegisteredWhileInFlight, InFlight
    <2>6. CountedOnce'
      BY <2>1, <1>t, FailRunCounts DEF History
    <2>7. History'
      BY <2>2, <2>3, <2>6, <1>t, HistoryWhenEnding
    <2> QED  BY <2>4, <2>5, <2>7
  <1>23. ASSUME NEW r \in Runs, RecoverEnqueue(r) PROVE Schedule' /\ Owners' /\ History'
    <2>1. /\ phase = "recovering" /\ stage = "queued" /\ r \in todo
          /\ queue' = Append(queue, r) /\ todo' \subseteq todo
          /\ UNCHANGED <<status, phase, stage, pc, job, cancels, api, scan, approved, executions, completions>>
      BY <1>23 DEF RecoverEnqueue
    <2>2. \A x \in Runs : InQueue(x)' => InQueue(x) \/ x = r
      <3>1. queue \in Seq(Runs)
        BY <1>t DEF TypeOK
      <3> QED  BY <2>1, <3>1, AppendQueue DEF InQueue
    <2>3. Dormant' /\ Unscheduled'
      BY <2>1, <2>2, <1>t DEF Schedule, Dormant, Unscheduled, RecoveryIsQuiet, Serving
    <2>4. RecoveryIsQuiet'
      BY <2>1, <1>t DEF Schedule, RecoveryIsQuiet, Serving
    <2> QED  BY <2>1, <2>3, <2>4, <1>t, OwnersFrame, HistoryFrame DEF Schedule
  <1>24. CASE RecoverNext
    <2>1. /\ phase = "recovering" /\ stage # "queued" /\ stage' \in {"running", "queued"} /\ todo' = With(stage')
          /\ UNCHANGED <<status, phase, queue, pc, job, cancels, api, scan, approved, executions, completions>>
      BY <1>24 DEF RecoverNext
    <2>2. Schedule'
      BY <2>1, <1>t DEF With, Schedule, Dormant, Unscheduled, RecoveryIsQuiet, InQueue, Serving
    <2> QED  BY <2>1, <2>2, <1>t, OwnersFrame, HistoryFrame
  <1>25. CASE RecoverDone
    <2>1. Schedule'
      BY <1>25, <1>t DEF RecoverDone, Schedule, Dormant, Unscheduled, RecoveryIsQuiet, InQueue, Serving
    <2> QED  BY <1>25, <2>1, <1>t, OwnersFrame, HistoryFrame DEF RecoverDone
  <1>26. CASE RecoverListFailed
    <2>1. Schedule'
      BY <1>26, <1>t DEF RecoverListFailed, Schedule, Dormant, Unscheduled, RecoveryIsQuiet, InQueue, Serving
    <2> QED  BY <1>26, <2>1, <1>t, OwnersFrame, HistoryFrame DEF RecoverListFailed
  <1>27. CASE Close
    <2>1. Schedule'
      BY <1>27, <1>t DEF Close, Schedule, Dormant, Unscheduled, RecoveryIsQuiet, InQueue, Serving
    <2> QED  BY <1>27, <2>1, <1>t, OwnersFrame, HistoryFrame DEF Close
  <1>28. CASE ProcessExit
    BY <1>28, <1>t, Forgotten DEF ProcessExit
  <1>29. CASE Crash
    BY <1>29, <1>t, Forgotten DEF Crash
  <1>30. CASE StartRefused
    <2>1. Schedule'
      BY <1>30, <1>t DEF StartRefused, Schedule, Dormant, Unscheduled, RecoveryIsQuiet, InQueue, Serving
    <2> QED  BY <1>30, <2>1, <1>t, OwnersFrame, HistoryFrame DEF StartRefused
  <1>31. CASE UNCHANGED vars
    <2>1. Schedule'
      BY <1>31, <1>t DEF vars, Schedule, Dormant, Unscheduled, RecoveryIsQuiet, InQueue, Serving
    <2> QED  BY <1>31, <2>1, <1>t, OwnersFrame, HistoryFrame DEF vars
  <1> QED
    BY <1>1, <1>2, <1>3, <1>4, <1>5, <1>6, <1>7, <1>8, <1>9, <1>10, <1>11, <1>12, <1>13,
       <1>14, <1>15, <1>16, <1>17, <1>18, <1>19, <1>20, <1>21, <1>22, <1>23, <1>24, <1>25,
       <1>26, <1>27, <1>28, <1>29, <1>30, <1>31 DEF Next, API, Worker, Recovery

\* The empty data directory and the process not yet started satisfy IInv.
LEMMA Initially == Init => IInv
  <1> SUFFICES ASSUME Init PROVE IInv
    OBVIOUS
  <1> USE NoRunAssumption, BoundsAssumption DEF Init
  <1>1. TypeOK
    BY DEF TypeOK, Phases, Stages, PCs, APIs, Outcomes, Errors
  <1>2. Holding
    BY DEF Holding
  <1>3. Schedule
    BY DEF Schedule, Dormant, Unscheduled, RecoveryIsQuiet, InQueue, Serving
  <1>4. Owners
    BY DEF Owners, ClaimIsKept, OneOwner, RunningWhileInFlight, RegisteredWhileInFlight, InFlight
  <1>5. History
    BY KindsAssumption DEF History, NotYetExecuted, ExecutedAtMostOnce, OnlyGatedWait, ApprovalGate, CountedOnce
  <1> QED  BY <1>1, <1>2, <1>3, <1>4, <1>5 DEF IInv

(***************************************************************************)
(* Nothing is lost.  Tracked speaks of one run at a time: a step either    *)
(* leaves the run where it is, or moves it to the next hands, or the store *)
(* has failed on it.                                                       *)
(***************************************************************************)

\* A store operation that failed marks its run, and none is ever unmarked.
LEMMA FaultDamages ==
  ASSUME NEW x, NEW res, Fault(x, res)
  PROVE  /\ damaged \subseteq damaged'
         /\ x \notin damaged' => res = "ok"
  BY DEF Fault

\* failRun ends a scheduled run, or marks it.
LEMMA FailRunEnds ==
  ASSUME TypeOK, NEW x \in Runs, NEW res \in Results, FailRun(x, res)
  PROVE  /\ damaged \subseteq damaged'
         /\ x \notin damaged' /\ status[x] \in {"queued", "validating", "running"} => status'[x] = "failed"
  <1>1. CASE ~Terminal(status[x]) /\ WriteTerminal(x, "failed", res)
    BY <1>1, FaultDamages, WriteMoves DEF WriteTerminal, Write
  <1>2. CASE /\ Terminal(status[x]) \/ ~CanTransition(status[x], "failed")
             /\ UNCHANGED <<status, completions, faults, damaged>>
    BY <1>2 DEF Terminal, TerminalStatuses, CanTransition, AllowedTransitions
  <1> QED  BY <1>1, <1>2 DEF FailRun

\* Nobody needs to look after a run that is not scheduled.
LEMMA NothingToTrack ==
  ASSUME NEW r \in Runs, status'[r] \notin {"queued", "validating", "running"}
  PROVE  TrackedRun(r)'
  BY DEF TrackedRun

\* A run stays with its worker, and is handed from recoverRuns and the API to
\* the queue, from the queue to a worker.
LEMMA StillTracked ==
  ASSUME NEW r \in Runs, TrackedRun(r), status'[r] = status[r], UNCHANGED <<phase, stage>>,
         r \in todo => r \in todo' \/ InQueue(r)',
         InQueue(r) => InQueue(r)' \/ HeldBy(r, {"taken"})',
         api[r] \in {"enqueue", "fail"} => api'[r] \in {"enqueue", "fail"} \/ InQueue(r)',
         r \in todo => r \in todo' \/ stage = "queued",
         \A w \in Workers : job[w] = r =>
           /\ job'[w] = r
           /\ \/ pc'[w] = pc[w]
              \/ {pc[w], pc'[w]} \subseteq {"executing", "gating", "finishing"}
  PROVE  TrackedRun(r)'
  <1>1. \A at \in {{"taken"}, {"validating"}, {"executing", "gating", "finishing"}} :
          HeldBy(r, at) => HeldBy(r, at)'
    BY DEF HeldBy
  <1>2. CASE status[r] = "queued"
    BY <1>1, <1>2 DEF TrackedRun
  <1>3. CASE status[r] = "validating"
    BY <1>1, <1>3 DEF TrackedRun
  <1>4. CASE status[r] = "running"
    BY <1>1, <1>4 DEF TrackedRun
  <1> QED  BY <1>2, <1>3, <1>4, NothingToTrack

\* A step that moves run x, which no worker needs to hold any more, or w's run.
LEMMA OthersTracked ==
  ASSUME NEW r \in Runs, TrackedRun(r), status'[r] = status[r],
         UNCHANGED <<phase, stage, todo, queue>>, api'[r] = api[r],
         \A w \in Workers : job[w] = r => job'[w] = r /\ pc'[w] = pc[w]
  PROVE  TrackedRun(r)'
  <1>1. InQueue(r)' <=> InQueue(r)
    BY DEF InQueue
  <1> QED  BY <1>1, StillTracked

\* The calls of the API on a run.
LEMMA CallsTrack ==
  ASSUME IInv, Tracked, NEW x \in Runs, API(x),
         NEW r \in Runs, r \notin damaged', phase' \in {"recovering", "up"}
  PROVE  TrackedRun(r)'
  <1> USE DEF stored, workers, process, budget
  <1>t. TypeOK
    BY DEF IInv
  <1>1. CASE CreateRun(x) \/ ApproveRun(x) \/ SubmitRun(x)
    <2>1. PICK res \in Results, s \in {"queued", "preparing", "waiting_approval"} :
            /\ Write(x, s, res)
            /\ x \notin Manual /\ s = "queued" /\ res = "ok" => api' = [api EXCEPT ![x] = "enqueue"]
            /\ \A y \in Runs \ {x} : api'[y] = api[y]
      BY <1>1, <1>t, KindsAssumption DEF CreateRun, ApproveRun, SubmitRun, InitialStatus, TypeOK
    <2>2. UNCHANGED <<phase, stage, todo, queue, pc, job>>
      BY <1>1 DEF CreateRun, ApproveRun, SubmitRun
    <2>3. CASE r = x
      <3>1. res = "ok" /\ status'[x] = s
        BY <2>1, <2>3, <1>t, FaultDamages, WriteMoves DEF Write
      <3>2. x \in Manual \/ s # "queued" \/ api'[x] = "enqueue"
        BY <2>1, <3>1, <1>t DEF TypeOK
      <3> QED  BY <2>1, <2>3, <3>1, <3>2 DEF TrackedRun
    <2>4. CASE r # x
      <3>1. status'[r] = status[r] /\ r \notin damaged
        BY <2>1, <2>4, <1>t, FaultDamages, WriteMoves DEF Write
      <3>2. TrackedRun(r)
        BY <2>2, <3>1 DEF Tracked
      <3> QED  BY <2>1, <2>2, <2>4, <3>1, <3>2, OthersTracked
    <2> QED  BY <2>3, <2>4
  <1>2. CASE EnqueueAccepted(x) \/ EnqueueRefused(x)
    <2>1. /\ UNCHANGED <<phase, stage, todo, status, damaged, pc, job>>
          /\ \A y \in Runs \ {x} : api'[y] = api[y]
          /\ \/ queue' = Append(queue, x)
             \/ queue' = queue /\ (api[x] = "enqueue" => api'[x] = "fail") /\ api[x] # "fail"
      BY <1>2, <1>t DEF EnqueueAccepted, EnqueueRefused, AfterRefusal, TypeOK
    <2>2. /\ InQueue(r) => InQueue(r)'
          /\ api[r] \in {"enqueue", "fail"} => api'[r] \in {"enqueue", "fail"} \/ InQueue(r)'
      <3>1. CASE queue' = Append(queue, x)
        <4>1. queue \in Seq(Runs)
          BY <1>t DEF TypeOK
        <4>2. \A y : InQueue(y)' <=> y = x \/ InQueue(y)
          BY <3>1, <4>1, AppendQueue DEF InQueue
        <4> QED  BY <2>1, <4>2
      <3>2. CASE queue' = queue /\ (api[x] = "enqueue" => api'[x] = "fail") /\ api[x] # "fail"
        BY <2>1, <3>2 DEF InQueue
      <3> QED  BY <2>1, <3>1, <3>2
    <2>3. TrackedRun(r)
      BY <2>1 DEF Tracked
    <2> QED  BY <2>1, <2>2, <2>3, StillTracked
  <1>3. CASE FailUnqueued(x)
    <2>1. PICK res \in Results : FailRun(x, res)
      BY <1>3 DEF FailUnqueued
    <2>2. UNCHANGED <<phase, stage, todo, queue, pc, job>> /\ api' = [api EXCEPT ![x] = "none"]
      BY <1>3 DEF FailUnqueued
    <2>3. r \notin damaged /\ TrackedRun(r)
      BY <2>1, <2>2, <1>t, FailRunEnds DEF Tracked
    <2>4. CASE r = x
      BY <2>1, <2>4, <1>t, FailRunEnds, FailRunMoves, NothingToTrack
    <2>5. CASE r # x
      <3>1. status'[r] = status[r] /\ api'[r] = api[r]
        BY <2>1, <2>2, <2>5, <1>t, FailRunMoves DEF TypeOK
      <3> QED  BY <2>2, <2>3, <3>1, OthersTracked
    <2> QED  BY <2>4, <2>5
  <1>4. CASE CancelRegistered(x)
    <2>1. UNCHANGED <<phase, stage, todo, queue, pc, job, api, status>>
      BY <1>4 DEF CancelRegistered
    <2>2. r \notin damaged /\ TrackedRun(r)
      BY <1>4, <2>1, FaultDamages DEF CancelRegistered, Tracked
    <2> QED  BY <2>1, <2>2, OthersTracked
  <1>5. CASE CancelDirect(x)
    <2>1. PICK res \in Results : Write(x, "cancelled", res)
      BY <1>5 DEF CancelDirect, WriteTerminal
    <2>2. UNCHANGED <<phase, stage, todo, queue, pc, job, api>>
      BY <1>5 DEF CancelDirect
    <2>3. r \notin damaged /\ TrackedRun(r)
      BY <2>1, <2>2, FaultDamages DEF Write, Tracked
    <2>4. CASE r = x
      BY <2>1, <2>4, <1>t, FaultDamages, WriteMoves, NothingToTrack DEF Write
    <2>5. CASE r # x
      <3>1. status'[r] = status[r]
        BY <2>1, <2>5, <1>t, WriteMoves
      <3> QED  BY <2>2, <2>3, <3>1, OthersTracked
    <2> QED  BY <2>4, <2>5
  <1> QED  BY <1>1, <1>2, <1>3, <1>4, <1>5 DEF API

\* The workers' steps: a worker lets go of a run that has ended, or marks it.
LEMMA WorkersTrack ==
  ASSUME IInv, Tracked, NEW w \in Workers, Worker(w),
         NEW r \in Runs, r \notin damaged', phase' \in {"recovering", "up"}
  PROVE  TrackedRun(r)'
  <1> USE DEF stored, workers, process, budget
  <1>t. TypeOK /\ Holding /\ ClaimIsKept /\ RunningWhileInFlight
    BY DEF IInv, Owners
  <1>p. /\ UNCHANGED <<phase, stage, todo, api>> /\ ~Stopping
        /\ damaged \subseteq damaged'
        /\ \A v \in Workers \ {w} : pc'[v] = pc[v] /\ job'[v] = job[v]
    <2>1. UNCHANGED <<phase, stage, todo, api>>
      BY DEF Worker, Take, Exit, Claim, ClaimRefused, PreflightFailed, StartExecutor, StartAbandoned,
             ExecutorReturns, GateResult, Finish
    <2>2. ~Stopping
      BY <2>1 DEF Stopping
    <2>3. \A v \in Workers \ {w} : pc'[v] = pc[v] /\ job'[v] = job[v]
      BY <1>t DEF Worker, Take, Exit, Claim, ClaimRefused, PreflightFailed, StartExecutor, StartAbandoned,
             ExecutorReturns, GateResult, Finish, Release, TypeOK
    <2>4. ASSUME Claim(w) \/ StartExecutor(w) PROVE damaged \subseteq damaged'
      BY <2>4, FaultDamages DEF Claim, StartExecutor, Write
    <2>5. ASSUME PreflightFailed(w) PROVE damaged \subseteq damaged'
      BY <2>2, <2>5, <1>t, HeldRun, FailRunEnds DEF PreflightFailed
    <2>6. ASSUME Finish(w) PROVE damaged \subseteq damaged'
      BY <2>6, FaultDamages DEF Finish, WriteTerminal, Write
    <2>7. ASSUME \/ Take(w) \/ Exit(w) \/ ClaimRefused(w) \/ StartAbandoned(w)
                 \/ ExecutorReturns(w) \/ GateResult(w)
          PROVE  damaged \subseteq damaged'
      BY <2>7 DEF Take, Exit, ClaimRefused, StartAbandoned, ExecutorReturns, GateResult
    <2> QED  BY <2>1, <2>2, <2>3, <2>4, <2>5, <2>6, <2>7 DEF Worker
  <1>i. r \notin damaged /\ TrackedRun(r)
    BY <1>p DEF Tracked
  <1>1. CASE Take(w)
    <2>1. /\ queue # <<>> /\ queue' = Tail(queue) /\ UNCHANGED status
          /\ pc[w] = "idle" /\ pc'[w] = "taken" /\ job'[w] = Head(queue)
      BY <1>1, <1>t DEF Take, TypeOK
    <2>2. job[w] \notin Runs
      BY <2>1, <1>t, NoRunAssumption DEF Holding
    <2>3. InQueue(r) => InQueue(r)' \/ r = Head(queue)
      <3>1. queue \in Seq(Runs)
        BY <1>t DEF TypeOK
      <3>2. ASSUME NEW i \in 1..Len(queue), queue[i] = r, i # 1
            PROVE  i - 1 \in 1..Len(Tail(queue)) /\ Tail(queue)[i - 1] = r
        BY <2>1, <3>1, <3>2
      <3> QED  BY <2>1, <3>1, <3>2 DEF InQueue
    <2>4. r = Head(queue) => HeldBy(r, {"taken"})'
      BY <2>1 DEF HeldBy
    <2> QED  BY <1>i, <1>p, <2>1, <2>2, <2>3, <2>4, StillTracked
  <1>2. CASE Exit(w)
    BY <1>2, <1>p DEF Exit
  <1>3. ASSUME ~Take(w), UNCHANGED queue, r # job[w], status'[r] = status[r] PROVE TrackedRun(r)'
    BY <1>3, <1>i, <1>p, OthersTracked
  <1>4. CASE Claim(w)
    <2>1. PICK res \in Results :
            /\ Write(job[w], "validating", res)
            /\ res = "ok" => pc' = [pc EXCEPT ![w] = "validating"] /\ UNCHANGED job
      BY <1>4 DEF Claim
    <2>2. job[w] \in Runs /\ UNCHANGED queue /\ pc[w] = "taken"
      BY <1>4, <1>t, HeldRun DEF Claim
    <2>3. CASE r = job[w]
      <3>1. status'[r] = "validating" /\ pc'[w] = "validating" /\ job'[w] = r
        BY <2>1, <2>2, <2>3, <1>t, FaultDamages, WriteMoves DEF Write, TypeOK
      <3> QED  BY <3>1 DEF TrackedRun, HeldBy
    <2>4. CASE r # job[w]
      BY <1>4, <2>1, <2>2, <2>4, <1>3, <1>t, WriteMoves DEF Take
    <2> QED  BY <2>3, <2>4
  <1>5. CASE StartExecutor(w)
    <2>1. PICK res \in Results :
            /\ Write(job[w], "running", res)
            /\ res = "ok" => pc' = [pc EXCEPT ![w] = "executing"] /\ UNCHANGED job
      BY <1>5 DEF StartExecutor
    <2>2. job[w] \in Runs /\ UNCHANGED queue /\ pc[w] = "validating"
      BY <1>5, <1>t, HeldRun DEF StartExecutor
    <2>3. CASE r = job[w]
      <3>1. status'[r] = "running" /\ pc'[w] = "executing" /\ job'[w] = r
        BY <2>1, <2>2, <2>3, <1>t, FaultDamages, WriteMoves DEF Write, TypeOK
      <3> QED  BY <3>1 DEF TrackedRun, HeldBy
    <2>4. CASE r # job[w]
      BY <1>5, <2>1, <2>2, <2>4, <1>3, <1>t, WriteMoves DEF Take
    <2> QED  BY <2>3, <2>4
  <1>6. CASE ClaimRefused(w)
    <2>1. /\ pc[w] = "taken" /\ status[job[w]] # "queued" /\ UNCHANGED <<status, queue>>
          /\ job[w] \in Runs
      BY <1>6, <1>p, <1>t, HeldRun DEF ClaimRefused, Claimable
    <2>2. CASE r = job[w]
      <3>1. \A at \in {{"validating"}, {"executing", "gating", "finishing"}} : HeldBy(r, at) => HeldBy(r, at)'
        BY <2>1, <1>p DEF HeldBy
      <3> QED  BY <1>i, <1>p, <2>1, <2>2, <3>1 DEF TrackedRun
    <2> QED  BY <1>3, <1>6, <2>1, <2>2 DEF Take
  <1>7. CASE PreflightFailed(w)
    <2>1. PICK res \in Results : FailRun(job[w], res)
      BY <1>7, <1>p DEF PreflightFailed
    <2>2. /\ job[w] \in Runs /\ UNCHANGED queue /\ pc[w] = "validating"
          /\ status[job[w]] \in {"validating", "cancelled"}
      BY <1>7, <1>t, HeldRun DEF PreflightFailed, ClaimIsKept
    <2>3. CASE r = job[w]
      BY <2>1, <2>2, <2>3, <1>t, FailRunEnds, FailRunMoves, NothingToTrack
    <2>4. CASE r # job[w]
      BY <1>7, <2>1, <2>2, <2>4, <1>3, <1>t, FailRunMoves DEF Take
    <2> QED  BY <2>3, <2>4
  <1>8. CASE StartAbandoned(w)
    <2>1. /\ job[w] \in Runs /\ UNCHANGED <<status, queue>> /\ pc[w] = "validating"
          /\ status[job[w]] \in {"validating", "cancelled"}
          /\ Terminal(status[job[w]]) \/ ~CanTransition(status[job[w]], "running")
      BY <1>8, <1>p, <1>t, HeldRun DEF StartAbandoned, ClaimIsKept
    <2>2. status[job[w]] = "cancelled"
      BY <2>1 DEF Terminal, TerminalStatuses, CanTransition, AllowedTransitions
    <2>3. CASE r = job[w]
      BY <2>1, <2>2, <2>3, NothingToTrack
    <2>4. CASE r # job[w]
      BY <1>3, <2>1, <2>4 DEF Take
    <2> QED  BY <2>3, <2>4
  <1>9. CASE ExecutorReturns(w) \/ GateResult(w)
    <2>1. /\ UNCHANGED <<status, queue, job>>
          /\ {pc[w], pc'[w]} \subseteq {"executing", "gating", "finishing"}
      BY <1>9, <1>t DEF ExecutorReturns, GateResult, TypeOK
    <2>2. InQueue(r)' <=> InQueue(r)
      BY <2>1 DEF InQueue
    <2> QED  BY <1>i, <1>p, <2>1, <2>2, StillTracked
  <1>10. CASE Finish(w)
    <2>1. job[w] \in Runs /\ UNCHANGED queue /\ status[job[w]] = "running"
      BY <1>10, <1>t, HeldRun DEF Finish, RunningWhileInFlight, InFlight
    <2>2. /\ FinalStatus(w) \in TerminalStatuses
          /\ ~Terminal("running") /\ CanTransition("running", FinalStatus(w))
      BY DEF FinalStatus, Terminal, TerminalStatuses, CanTransition, AllowedTransitions
    <2>3. PICK res \in Results : Write(job[w], FinalStatus(w), res)
      BY <1>10, <2>1, <2>2 DEF Finish, WriteTerminal
    <2>4. CASE r = job[w]
      <3>1. status'[r] = FinalStatus(w)
        BY <2>1, <2>3, <2>4, <1>t, FaultDamages, WriteMoves DEF Write
      <3> QED  BY <2>2, <3>1, NothingToTrack DEF TerminalStatuses
    <2>5. CASE r # job[w]
      BY <1>10, <2>1, <2>3, <2>5, <1>3, <1>t, WriteMoves DEF Take, Finish
    <2> QED  BY <2>4, <2>5
  <1> QED  BY <1>1, <1>2, <1>4, <1>5, <1>6, <1>7, <1>8, <1>9, <1>10 DEF Worker

\* The dispatcher, the start and the end of the process: Start lists the
\* validating runs, RecoverNext the running and then the queued ones, and
\* nothing is left in a list when the next one replaces it.
LEMMA ProcessTracks ==
  ASSUME IInv, Tracked, NEW r \in Runs, r \notin damaged', phase' \in {"recovering", "up"},
         \/ \E x \in Runs : DispatchOne(x)
         \/ DispatchScan \/ Start \/ StartRefused \/ Recovery \/ Close \/ ProcessExit \/ Crash
  PROVE  TrackedRun(r)'
  <1> USE DEF stored, workers, process, budget
  <1>t. TypeOK
    BY DEF IInv
  <1>1. ASSUME NEW x \in Runs, DispatchOne(x) \/ RecoverEnqueue(x) PROVE TrackedRun(r)'
    <2>1. /\ UNCHANGED <<phase, stage, status, damaged, api, pc, job>>
          /\ \/ queue' = queue /\ todo' = todo
             \/ queue' = Append(queue, x) /\ (todo' = todo \/ (stage = "queued" /\ todo' = todo \ {x}))
      BY <1>1 DEF DispatchOne, RecoverEnqueue
    <2>2. /\ InQueue(r) => InQueue(r)'
          /\ queue' = Append(queue, x) /\ r = x => InQueue(r)'
      <3>1. queue \in Seq(Runs)
        BY <1>t DEF TypeOK
      <3>2. queue' = Append(queue, x) => \A y : InQueue(y)' <=> y = x \/ InQueue(y)
        BY <3>1, AppendQueue DEF InQueue
      <3>3. queue' = queue => (InQueue(r)' <=> InQueue(r))
        BY DEF InQueue
      <3> QED  BY <2>1, <3>2, <3>3
    <2>3. TrackedRun(r)
      BY <2>1 DEF Tracked
    <2> QED  BY <2>1, <2>2, <2>3, StillTracked
  <1>2. CASE DispatchScan \/ StartRefused
    <2>1. UNCHANGED <<phase, stage, todo, queue, status, damaged, api, pc, job>>
      BY <1>2 DEF DispatchScan, StartRefused
    <2>2. TrackedRun(r)
      BY <2>1 DEF Tracked
    <2> QED  BY <2>1, <2>2, OthersTracked
  <1>3. CASE Start
    BY <1>3 DEF Start, With, TrackedRun
  <1>4. ASSUME NEW x \in Runs, RecoverFail(x) PROVE TrackedRun(r)'
    <2>1. PICK res \in Results : FailRun(x, res)
      BY <1>4 DEF RecoverFail
    <2>2. UNCHANGED <<phase, stage, queue, pc, job, api>> /\ todo' = todo \ {x}
      BY <1>4 DEF RecoverFail
    <2>3. r \notin damaged /\ TrackedRun(r)
      BY <2>1, <2>2, <1>t, FailRunEnds DEF Tracked
    <2>4. CASE r = x
      BY <2>1, <2>4, <1>t, FailRunEnds, FailRunMoves, NothingToTrack
    <2>5. CASE r # x
      <3>1. status'[r] = status[r]
        BY <2>1, <2>5, <1>t, FailRunMoves
      <3>2. InQueue(r)' <=> InQueue(r)
        BY <2>2 DEF InQueue
      <3> QED  BY <2>2, <2>3, <2>5, <3>1, <3>2, StillTracked
    <2> QED  BY <2>4, <2>5
  <1>5. CASE RecoverNext \/ RecoverDone
    <2>1. /\ phase = "recovering" /\ todo = {}
          /\ UNCHANGED <<status, queue, pc, job, api, damaged>>
          /\ \/ stage = "validating" /\ stage' = "running" /\ todo' = With("running")
             \/ stage = "running" /\ stage' = "queued" /\ todo' = With("queued")
             \/ stage = "queued" /\ phase' = "up"
      BY <1>5, <1>t DEF RecoverNext, RecoverDone, TypeOK, Stages
    <2>2. TrackedRun(r)
      BY <2>1 DEF Tracked
    <2>3. /\ InQueue(r)' <=> InQueue(r)
          /\ \A at \in {{"taken"}, {"validating"}, {"executing", "gating", "finishing"}} :
               HeldBy(r, at)' <=> HeldBy(r, at)
      BY <2>1 DEF InQueue, HeldBy
    <2>4. \A s : status[r] = s => r \in With(s)
      BY DEF With
    <2>5. phase' = phase \/ stage = "queued"
      BY <1>5, <2>1 DEF RecoverNext, RecoverDone
    <2> QED  BY <2>1, <2>2, <2>3, <2>4, <2>5 DEF TrackedRun
  <1>6. CASE RecoverListFailed \/ Close \/ ProcessExit \/ Crash
    BY <1>6 DEF RecoverListFailed, Close, ProcessExit, Crash, Forget
  <1> QED  BY <1>1, <1>2, <1>3, <1>4, <1>5, <1>6 DEF Recovery

\* Every step of the service keeps track of every run that no fault has hit.
LEMMA TrackedKept == IInv /\ Tracked /\ [Next]_vars => Tracked'
  <1> SUFFICES ASSUME IInv, Tracked, [Next]_vars, phase' \in {"recovering", "up"},
                      NEW r \in Runs, r \notin damaged'
               PROVE  TrackedRun(r)'
    BY DEF Tracked
  <1>1. CASE UNCHANGED vars
    BY <1>1 DEF vars, stored, workers, process, budget, Tracked, TrackedRun, InQueue, HeldBy
  <1>2. ASSUME NEW x \in Runs, API(x) PROVE TrackedRun(r)'
    BY <1>2, CallsTrack
  <1>3. ASSUME NEW w \in Workers, Worker(w) PROVE TrackedRun(r)'
    BY <1>3, WorkersTrack
  <1>4. CASE \/ \E x \in Runs : DispatchOne(x)
             \/ DispatchScan \/ Start \/ StartRefused \/ Recovery \/ Close \/ ProcessExit \/ Crash
    BY <1>4, ProcessTracks
  <1> QED  BY <1>1, <1>2, <1>3, <1>4 DEF Next

\* Once recoverRuns is done, to be tracked is not to be lost.
LEMMA TrackedMeansNotLost == Tracked => NothingLost
  BY DEF Tracked, TrackedRun, NothingLost

\* The inductive invariant holds in every state of the service.
THEOREM Invariance == Spec => []IInv
  BY Initially, Inductive, PTL DEF Spec

\* Every variable keeps its type, for any number of runs and workers, any
\* queue and any bound on faults and ends.
THEOREM TypeCorrect == Spec => []TypeOK
  <1>1. IInv => TypeOK
    BY DEF IInv
  <1> QED  BY <1>1, Invariance, PTL

\* A run is handed to the executor at most once, however often SubmitRun, the
\* dispatcher and recoverRuns put it in the queue, and however often the store
\* fails and the process dies.
THEOREM AtMostOneExecution == Spec => []ExecutedAtMostOnce
  <1>1. IInv => ExecutedAtMostOnce
    BY DEF IInv, History
  <1> QED  BY <1>1, Invariance, PTL

\* The compare-and-set from queued to validating makes a worker the only owner
\* of its run.
THEOREM ClaimsAreExclusive == Spec => []OneOwner
  <1>1. IInv => OneOwner
    BY DEF IInv, Owners
  <1> QED  BY <1>1, Invariance, PTL

\* No call ends a run whose executor is at work, and CancelRun finds the cancel
\* function of every such run and of no other.
THEOREM NotTerminalBeforeAcknowledged == Spec => [](RunningWhileInFlight /\ RegisteredWhileInFlight)
  <1>1. IInv => RunningWhileInFlight /\ RegisteredWhileInFlight
    BY DEF IInv, Owners
  <1> QED  BY <1>1, Invariance, PTL

\* A run that needs an approval never gets past the gate without one.
THEOREM NothingRunsUnapproved == Spec => []ApprovalGate
  <1>1. IInv => ApprovalGate
    BY DEF IInv, History
  <1> QED  BY <1>1, Invariance, PTL

\* RunCompleted is called at most once for a run, and for ended runs only.
THEOREM CompletionsCountedOnce == Spec => []CountedOnce
  <1>1. IInv => CountedOnce
    BY DEF IInv, History
  <1> QED  BY <1>1, Invariance, PTL

\* While the service is up, a queued, validating or running run that no store
\* fault has hit is on its way: what recoverRuns, the API, the queue and the
\* workers hand to each other is never dropped between two of them.
THEOREM NoRunIsLost == Spec => []NothingLost
  <1>1. Init => Tracked
    BY DEF Init, Tracked
  <1> QED  BY <1>1, Initially, Inductive, TrackedKept, TrackedMeansNotLost, PTL DEF Spec
===============================================================================
