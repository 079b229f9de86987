------------------------------ MODULE RunService ------------------------------
(***************************************************************************)
(* app.Service: the run queue, its workers, the API calls that create,     *)
(* submit, approve and cancel runs, the dispatcher of manual runs, and the *)
(* life of the process that hosts them (start and recovery, graceful stop, *)
(* crash).                                                                 *)
(*                                                                         *)
(* status, approved and cancelRequested are the persisted runs: each Update*)
(* of the store is one atomic step, and may fail before or after the new   *)
(* version is published.  Everything else that is not a history variable   *)
(* is the memory of one process and is lost when it ends.                  *)
(***************************************************************************)
EXTENDS Naturals, Sequences, FiniteSets, RunStatus

CONSTANTS Runs,        \* run identifiers
          Workers,     \* worker goroutines
          Manual,      \* runs created with execution_mode "manual"
          Gated,       \* runs whose mode or policy requires an approval
          NoRun,       \* a worker that holds no run
          QueueSize,   \* capacity of the queue channel
          MaxFaults,   \* bound: store faults in a behaviour
          MaxEnds      \* bound: crashes and graceful stops of the process

ASSUME KindsAssumption == Manual \subseteq Runs /\ Gated \subseteq Runs \ Manual
ASSUME NoRunAssumption == NoRun \notin Runs
ASSUME QueueAssumption == QueueSize \in Nat \ {0}
ASSUME BoundsAssumption == MaxFaults \in Nat /\ MaxEnds \in Nat

VARIABLES
  status,           \* persisted status of each run
  approved,         \* runs with a persisted approval
  cancelRequested,  \* runs with a persisted run.cancel_requested event
  phase,            \* what the process is doing
  stage, todo,      \* recoverRuns: the list it works on and what is left of it
  queue,            \* the queue channel
  pc, job, outcome, \* each worker: where it is, its run, its executor's answer
  cancels,          \* runs with a registered cancel function
  cancelled,        \* runs whose execution context was cancelled by CancelRun
  api,              \* the call that published a run and has yet to enqueue it
  scan,             \* dispatchInputs: the listed runs it has yet to enqueue
  executions,       \* history: executor invocations of each run
  completions,      \* history: RunCompleted calls for each run
  damaged,          \* history: runs hit by a store fault since the last start
  faults, ends

stored  == <<status, approved, cancelRequested>>
workers == <<pc, job, outcome, cancels, cancelled>>
process == <<phase, stage, todo>>
budget  == <<faults, ends>>
vars    == <<stored, process, queue, workers, api, scan, executions, completions,
             damaged, budget>>

Phases   == {"down", "recovering", "up", "closing", "aborted"}
Stages   == {"validating", "running", "queued"}
PCs      == {"idle", "taken", "validating", "executing", "gating", "finishing", "exited"}
APIs     == {"none", "notify", "enqueue", "fail"}
\* What Execute returns: a status, or an error.
Answers  == TerminalStatuses \cup {"nonterminal"}
Errors   == {"deadline", "canceled", "error"}
Outcomes == Answers \cup Errors

Serving  == phase \in {"up", "closing"}      \* API handlers may still be running
Stopping == phase \in {"closing", "aborted"} \* s.ctx is done
Alive    == phase # "down"
InputMuFree == \A r \in Manual : api[r] = "none"

-------------------------------------------------------------------------------
(* The store, as the service sees it. *)

\* store.Update and Create: "ok"; "lost": an error before publication;
\* "torn": an error after it (directory sync or audit append failed).
Results == {"ok", "lost", "torn"}

Fault(r, res) ==
  IF res = "ok" THEN UNCHANGED <<faults, damaged>>
  ELSE /\ faults < MaxFaults
       /\ faults' = faults + 1
       /\ damaged' = damaged \cup {r}

\* Persist run r with status s.
Write(r, s, res) ==
  /\ Fault(r, res)
  /\ status' = IF res = "lost" THEN status ELSE [status EXCEPT ![r] = s]

\* Persist a terminal status and, on success, count it.
WriteTerminal(r, s, res) ==
  /\ Write(r, s, res)
  /\ completions' = IF res = "ok" THEN [completions EXCEPT ![r] = @ + 1] ELSE completions

\* Mutations: no check for a terminal run; a retry instead of a failure.
FailRunUnchecked(r, res) == WriteTerminal(r, "failed", res)
FailRunRetries(r, res)   == Write(r, "queued", res) /\ UNCHANGED completions

\* failRun: nothing on a terminal run; an error when the edge is missing.
FailRun(r, res) ==
  \/ /\ ~Terminal(status[r]) /\ CanTransition(status[r], "failed")
     /\ WriteTerminal(r, "failed", res)
  \/ /\ Terminal(status[r]) \/ ~CanTransition(status[r], "failed")
     /\ res = "ok"
     /\ UNCHANGED <<status, completions, faults, damaged>>

-------------------------------------------------------------------------------
(* API calls. *)

\* Mutation: the policy's decision is ignored.
InitialStatusUngated(r) == IF r \in Manual THEN "preparing" ELSE "queued"

\* What NormalizeAndEvaluate decides of a request that it admits; one that it
\* refuses leaves nothing behind.
InitialStatus(r) == IF r \in Manual THEN "preparing"
                    ELSE IF r \in Gated THEN "waiting_approval"
                    ELSE "queued"

\* CreateRun up to the store; a queued run is then enqueued by the same call.
CreateRun(r) ==
  /\ Serving /\ status[r] = "absent"
  /\ \E res \in Results :
       /\ Write(r, InitialStatus(r), res)
       /\ api' = IF res = "ok" /\ InitialStatus(r) = "queued"
                 THEN [api EXCEPT ![r] = "enqueue"] ELSE api
  /\ UNCHANGED <<approved, cancelRequested, process, queue, workers, scan,
                 executions, completions, ends>>

ApproveRun(r) ==
  /\ Serving /\ status[r] = "waiting_approval"
  /\ \E res \in Results :
       /\ Write(r, "queued", res)
       /\ approved' = IF res = "lost" THEN approved ELSE approved \cup {r}
       /\ api' = IF res = "ok" THEN [api EXCEPT ![r] = "enqueue"] ELSE api
  /\ UNCHANGED <<cancelRequested, process, queue, workers, scan, executions,
                 completions, ends>>

\* The last step of SubmitRun, which holds inputMu until it has notified.
SubmitRun(r) ==
  /\ Serving /\ r \in Manual /\ status[r] = "preparing" /\ InputMuFree
  /\ \E res \in Results :
       /\ Write(r, "queued", res)
       /\ api' = IF res = "ok" THEN [api EXCEPT ![r] = "notify"] ELSE api
  /\ UNCHANGED <<approved, cancelRequested, process, queue, workers, scan,
                 executions, completions, ends>>

Room == Len(queue) < QueueSize

EnqueueAccepted(r) ==
  /\ Serving /\ api[r] \in {"enqueue", "notify"} /\ Room
  /\ queue' = Append(queue, r)
  /\ api' = [api EXCEPT ![r] = "none"]
  /\ UNCHANGED <<stored, process, workers, scan, executions, completions, damaged, budget>>

\* Mutation: CreateRun forgets the run it could not enqueue.
NothingAfterRefusal(call) == "none"

\* A submission is left to the dispatcher, any other run is failed.
AfterRefusal(call) == IF call = "notify" THEN "none" ELSE "fail"

\* The queue is full, the service is stopping, or the caller has gone (a
\* submission waits on the service's context alone).
EnqueueRefused(r) ==
  /\ Serving /\ api[r] \in {"enqueue", "notify"}
  /\ ~Room \/ Stopping \/ api[r] = "enqueue"
  /\ api' = [api EXCEPT ![r] = AfterRefusal(@)]
  /\ UNCHANGED <<stored, process, queue, workers, scan, executions, completions, damaged, budget>>

\* CreateRun and ApproveRun fail the run they could not enqueue.
FailUnqueued(r) ==
  /\ Serving /\ api[r] = "fail"
  /\ \E res \in Results : FailRun(r, res)
  /\ api' = [api EXCEPT ![r] = "none"]
  /\ UNCHANGED <<approved, cancelRequested, process, queue, workers, scan, executions, ends>>

\* Mutation: CancelRun takes every run for one that nobody executes.
NotRegistered(r) == FALSE

Registered(r) == r \in cancels

\* CancelRun of a registered run: record the request, then cancel the
\* executor's context if the record was written; all under cancelMu.
CancelRegistered(r) ==
  /\ Serving /\ Registered(r) /\ ~Terminal(status[r])
  /\ r \in Manual => InputMuFree
  /\ \E res \in Results :
       /\ Fault(r, res)
       /\ cancelRequested' = IF res = "lost" THEN cancelRequested ELSE cancelRequested \cup {r}
       /\ cancelled' = IF res = "ok" THEN cancelled \cup {r} ELSE cancelled
  /\ UNCHANGED <<status, approved, process, queue, pc, job, outcome, cancels, api,
                 scan, executions, completions, ends>>

\* CancelRun of any other run that is not terminal cancels it at once.
CancelDirect(r) ==
  /\ Serving /\ ~Registered(r) /\ status[r] \in LiveStatuses
  /\ r \in Manual => InputMuFree
  /\ CanTransition(status[r], "cancelled")
  /\ \E res \in Results : WriteTerminal(r, "cancelled", res)
  /\ UNCHANGED <<approved, cancelRequested, process, queue, workers, api, scan,
                 executions, ends>>

-------------------------------------------------------------------------------
(* Workers: process(runID), one store access per step. *)

Release(w) ==
  /\ pc' = [pc EXCEPT ![w] = "idle"]
  /\ job' = [job EXCEPT ![w] = NoRun]

Take(w) ==
  /\ Alive /\ pc[w] = "idle" /\ queue # <<>>
  /\ pc' = [pc EXCEPT ![w] = "taken"]
  /\ job' = [job EXCEPT ![w] = Head(queue)]
  /\ queue' = Tail(queue)
  /\ UNCHANGED <<stored, process, outcome, cancels, cancelled, api, scan, executions,
                 completions, damaged, budget>>

\* The select of worker may still take a run after s.ctx is done, or leave.
Exit(w) ==
  /\ Stopping /\ pc[w] = "idle"
  /\ pc' = [pc EXCEPT ![w] = "exited"]
  /\ UNCHANGED <<stored, process, queue, job, outcome, cancels, cancelled, api, scan,
                 executions, completions, damaged, budget>>

\* Mutation: any status with an edge to validating can be claimed.
ClaimableByEdge(s) == CanTransition(s, "validating")

Claimable(s) == s = "queued"

\* The first Update of process turns a queued run into a validating one.
Claim(w) ==
  /\ pc[w] = "taken" /\ Claimable(status[job[w]]) /\ ~Stopping
  /\ \E res \in Results :
       /\ Write(job[w], "validating", res)
       /\ IF res = "ok" THEN pc' = [pc EXCEPT ![w] = "validating"] /\ UNCHANGED job
                        ELSE Release(w)
  /\ UNCHANGED <<approved, cancelRequested, process, queue, outcome, cancels, cancelled,
                 api, scan, executions, completions, ends>>

\* It returns early on a terminal run, a run another worker has claimed, and
\* when s.ctx is done.
ClaimRefused(w) ==
  /\ pc[w] = "taken" /\ (~Claimable(status[job[w]]) \/ Stopping)
  /\ Release(w)
  /\ UNCHANGED <<stored, process, queue, outcome, cancels, cancelled, api, scan,
                 executions, completions, damaged, budget>>

\* A failed check: the frozen input, the agent, the execution policy or the
\* prompt.  failRun then runs on s.ctx.
PreflightFailed(w) ==
  /\ pc[w] = "validating"
  /\ \/ ~Stopping /\ \E res \in Results : FailRun(job[w], res)
     \/ Stopping /\ UNCHANGED <<status, completions, faults, damaged>>
  /\ Release(w)
  /\ UNCHANGED <<approved, cancelRequested, process, queue, outcome, cancels, cancelled,
                 api, scan, executions, ends>>

PolicyAllows(r) == r \in Gated => r \in approved

\* Under cancelMu: turn the run to running and register its cancel function.
StartExecutor(w) ==
  LET r == job[w] IN
  /\ pc[w] = "validating" /\ PolicyAllows(r) /\ ~Stopping
  /\ ~Terminal(status[r]) /\ CanTransition(status[r], "running")
  /\ \E res \in Results :
       /\ Write(r, "running", res)
       /\ IF res = "ok"
          THEN /\ pc' = [pc EXCEPT ![w] = "executing"]
               /\ cancels' = cancels \cup {r}
               /\ executions' = [executions EXCEPT ![r] = @ + 1]
               /\ UNCHANGED job
          ELSE Release(w) /\ UNCHANGED <<cancels, executions>>
  /\ UNCHANGED <<approved, cancelRequested, process, queue, outcome, cancelled, api,
                 scan, completions, ends>>

\* Cancelled meanwhile, or s.ctx is done: the executor is not invoked.
StartAbandoned(w) ==
  /\ pc[w] = "validating" /\ PolicyAllows(job[w])
  /\ Stopping \/ Terminal(status[job[w]]) \/ ~CanTransition(status[job[w]], "running")
  /\ Release(w)
  /\ UNCHANGED <<stored, process, queue, outcome, cancels, cancelled, api, scan,
                 executions, completions, damaged, budget>>

\* Execute returns.  The deadline may pass at any time; context.Canceled needs
\* a cancelled context, which does not exclude any other answer.
ExecutorReturns(w) ==
  /\ pc[w] = "executing"
  /\ \E o \in Outcomes :
       /\ o = "canceled" => job[w] \in cancelled \/ Stopping
       /\ outcome' = [outcome EXCEPT ![w] = o]
       /\ pc' = [pc EXCEPT ![w] = IF o \in Errors THEN "finishing" ELSE "gating"]
  /\ UNCHANGED <<stored, process, queue, job, cancels, cancelled, api, scan,
                 executions, completions, damaged, budget>>

\* validation.Gate only lowers a status; the evidence check fails any result
\* that is not failed yet, and always does once s.ctx is done.
LowerStatus(s) == {s, "failed"} \cup (IF s = "succeeded" THEN {"partial"} ELSE {})

GateResult(w) ==
  /\ pc[w] = "gating"
  /\ \E s \in IF Stopping THEN {"failed"} ELSE LowerStatus(outcome[w]) :
       outcome' = [outcome EXCEPT ![w] = s]
  /\ pc' = [pc EXCEPT ![w] = "finishing"]
  /\ UNCHANGED <<stored, process, queue, job, cancels, cancelled, api, scan,
                 executions, completions, damaged, budget>>

FinalStatus(w) ==
  IF outcome[w] \in TerminalStatuses THEN outcome[w]
  ELSE IF outcome[w] = "canceled" /\ job[w] \in cancelRequested THEN "cancelled"
  ELSE "failed"

Unregister(r) == cancels' = cancels \ {r} /\ cancelled' = cancelled \ {r}

\* The last Update of process, under cancelMu and not bound to s.ctx.
Finish(w) ==
  LET r == job[w] IN
  /\ pc[w] = "finishing"
  /\ \E res \in Results :
       \/ /\ ~Terminal(status[r]) /\ CanTransition(status[r], FinalStatus(w))
          /\ WriteTerminal(r, FinalStatus(w), res)
       \/ /\ Terminal(status[r]) \/ ~CanTransition(status[r], FinalStatus(w))
          /\ res = "ok" /\ UNCHANGED <<status, completions, faults, damaged>>
  /\ Unregister(r)
  /\ outcome' = [outcome EXCEPT ![w] = "error"]
  /\ Release(w)
  /\ UNCHANGED <<approved, cancelRequested, process, queue, api, scan, executions,
                 ends>>

-------------------------------------------------------------------------------
(* dispatchInputs: list the queued manual runs, then enqueue them one by   *)
(* one, whatever has happened to them since.                               *)

\* Mutations: the filter on manual runs is dropped, or inverted.
BacklogOfAll     == {r \in Runs : status[r] = "queued"}
BacklogAutomatic == {r \in Runs \ Manual : status[r] = "queued"}

Backlog == {r \in Manual : status[r] = "queued"}

DispatchScan ==
  /\ phase = "up" /\ scan = {}
  /\ scan' = Backlog
  /\ UNCHANGED <<stored, process, queue, workers, api, executions, completions, damaged, budget>>

DispatchOne(r) ==
  /\ Serving /\ r \in scan
  /\ scan' = scan \ {r}
  /\ \/ Room /\ queue' = Append(queue, r)
     \/ (~Room \/ Stopping) /\ UNCHANGED queue
  /\ UNCHANGED <<stored, process, workers, api, executions, completions, damaged, budget>>

-------------------------------------------------------------------------------
(* The process: start and recovery, graceful stop, crash. *)

\* Mutations: recovery leaves the queued runs out, or the running ones.
WithUnlessQueued(s)  == {r \in Runs : status[r] = s /\ s # "queued"}
WithUnlessRunning(s) == {r \in Runs : status[r] = s /\ s # "running"}

With(s) == {r \in Runs : status[r] = s}

\* Start: the workers run from here on; recovery follows.
Start ==
  /\ phase = "down"
  /\ phase' = "recovering" /\ stage' = "validating" /\ todo' = With("validating")
  /\ damaged' = {}
  /\ UNCHANGED <<stored, queue, workers, api, scan, executions, completions, budget>>

\* The first list of Start fails: no worker runs yet.
StartRefused ==
  /\ phase = "down" /\ faults < MaxFaults
  /\ faults' = faults + 1
  /\ UNCHANGED <<stored, process, queue, workers, api, scan, executions, completions,
                 damaged, ends>>

\* recoverRuns fails the runs the previous process left behind; an error
\* aborts the start.
RecoverFail(r) ==
  /\ phase = "recovering" /\ stage \in {"validating", "running"} /\ r \in todo
  /\ \E res \in Results :
       /\ FailRun(r, res)
       /\ phase' = IF res = "ok" THEN phase ELSE "aborted"
  /\ todo' = todo \ {r}
  /\ UNCHANGED <<approved, cancelRequested, stage, queue, workers, api, scan,
                 executions, ends>>

RecoverNext ==
  /\ phase = "recovering" /\ stage # "queued" /\ todo = {}
  /\ stage' = IF stage = "validating" THEN "running" ELSE "queued"
  /\ todo' = With(stage')
  /\ UNCHANGED <<stored, phase, queue, workers, api, scan, executions, completions, damaged, budget>>

\* A list of recoverRuns fails: so does the start.
RecoverListFailed ==
  /\ phase = "recovering" /\ todo = {} /\ faults < MaxFaults
  /\ faults' = faults + 1
  /\ phase' = "aborted"
  /\ UNCHANGED <<stored, stage, todo, queue, workers, api, scan, executions,
                 completions, damaged, ends>>

\* The persisted backlog may be larger than the queue: this send blocks.
RecoverEnqueue(r) ==
  /\ phase = "recovering" /\ stage = "queued" /\ r \in todo /\ Room
  /\ queue' = Append(queue, r)
  /\ todo' = todo \ {r}
  /\ UNCHANGED <<stored, phase, stage, workers, api, scan, executions, completions, damaged, budget>>

RecoverDone ==
  /\ phase = "recovering" /\ stage = "queued" /\ todo = {}
  /\ phase' = "up"
  /\ UNCHANGED <<stored, stage, todo, queue, workers, api, scan, executions,
                 completions, damaged, budget>>

\* Close, after the HTTP server was shut down: s.ctx and every execution
\* context end at once.
Close ==
  /\ phase = "up" /\ ends < MaxEnds
  /\ phase' = "closing"
  /\ ends' = ends + 1
  /\ UNCHANGED <<stored, stage, todo, queue, workers, api, scan, executions,
                 completions, damaged, faults>>

\* The memory of a process that ends.
Forget ==
  /\ phase' = "down" /\ stage' = "validating" /\ todo' = {}
  /\ queue' = <<>>
  /\ pc' = [w \in Workers |-> "idle"]
  /\ job' = [w \in Workers |-> NoRun]
  /\ outcome' = [w \in Workers |-> "error"]
  /\ cancels' = {} /\ cancelled' = {}
  /\ api' = [r \in Runs |-> "none"]
  /\ scan' = {}
  /\ UNCHANGED <<executions, completions, damaged, faults>>

\* wg.Wait returned: main ends, and with it the handlers still running.
ProcessExit ==
  /\ Stopping /\ scan = {} /\ \A w \in Workers : pc[w] = "exited"
  /\ Forget /\ UNCHANGED <<stored, ends>>

Crash ==
  /\ Alive /\ ends < MaxEnds
  /\ ends' = ends + 1
  /\ Forget /\ UNCHANGED stored

-------------------------------------------------------------------------------
Init ==
  /\ status = [r \in Runs |-> "absent"]
  /\ approved = {} /\ cancelRequested = {}
  /\ phase = "down" /\ stage = "validating" /\ todo = {}
  /\ queue = <<>>
  /\ pc = [w \in Workers |-> "idle"]
  /\ job = [w \in Workers |-> NoRun]
  /\ outcome = [w \in Workers |-> "error"]
  /\ cancels = {} /\ cancelled = {}
  /\ api = [r \in Runs |-> "none"]
  /\ scan = {}
  /\ executions = [r \in Runs |-> 0]
  /\ completions = [r \in Runs |-> 0]
  /\ damaged = {}
  /\ faults = 0 /\ ends = 0

API(r) ==
  \/ CreateRun(r) \/ ApproveRun(r) \/ SubmitRun(r)
  \/ EnqueueAccepted(r) \/ EnqueueRefused(r) \/ FailUnqueued(r)
  \/ CancelRegistered(r) \/ CancelDirect(r)

Worker(w) ==
  \/ Take(w) \/ Exit(w) \/ Claim(w) \/ ClaimRefused(w)
  \/ PreflightFailed(w) \/ StartExecutor(w) \/ StartAbandoned(w)
  \/ ExecutorReturns(w) \/ GateResult(w) \/ Finish(w)

Recovery == RecoverNext \/ RecoverDone \/ RecoverListFailed \/ \E r \in Runs : RecoverFail(r) \/ RecoverEnqueue(r)

Next ==
  \/ \E r \in Runs : API(r) \/ DispatchOne(r)
  \/ \E w \in Workers : Worker(w)
  \/ DispatchScan \/ Start \/ StartRefused \/ Recovery
  \/ Close \/ ProcessExit \/ Crash

Spec == Init /\ [][Next]_vars

-------------------------------------------------------------------------------
(* Properties. *)

TypeOK ==
  /\ status \in [Runs -> RunStatuses \cup {"absent"}]
  /\ approved \in SUBSET Runs /\ cancelRequested \in SUBSET Runs
  /\ phase \in Phases /\ stage \in Stages /\ todo \in SUBSET Runs
  /\ queue \in Seq(Runs)
  /\ pc \in [Workers -> PCs]
  /\ job \in [Workers -> Runs \cup {NoRun}]
  /\ outcome \in [Workers -> Outcomes]
  /\ cancels \in SUBSET Runs /\ cancelled \in SUBSET Runs
  /\ api \in [Runs -> APIs]
  /\ scan \in SUBSET Manual
  /\ executions \in [Runs -> Nat] /\ completions \in [Runs -> Nat]
  /\ damaged \in SUBSET Runs
  /\ faults \in 0..MaxFaults /\ ends \in 0..MaxEnds

InFlight(w) == pc[w] \in {"executing", "gating", "finishing"}

\* A run is handed to the executor at most once in its life: duplicate
\* notifications by SubmitRun, the dispatcher and recovery, store faults,
\* crashes and restarts never start it again.
ExecutedAtMostOnce == \A r \in Runs : executions[r] <= 1

\* Claiming is exclusive: two workers are never past the claim of one run.
OneOwner ==
  \A v, w \in Workers :
    (v # w /\ (pc[v] = "validating" \/ InFlight(v)) /\ (pc[w] = "validating" \/ InFlight(w)))
      => job[v] # job[w]

\* A run cannot become terminal before its executor has acknowledged it: from
\* StartExecutor to Finish nothing moves it out of running.
RunningWhileInFlight == \A w \in Workers : InFlight(w) => status[job[w]] = "running"

\* The registered cancel functions are those of the runs in flight: CancelRun
\* finds one as long as the executor's answer is not persisted, and no longer.
RegisteredWhileInFlight == cancels = {job[w] : w \in {v \in Workers : InFlight(v)}}

\* A run that needs an approval is neither queued, nor anything that follows,
\* nor handed to the executor, without a persisted approval; an approval whose
\* write was torn by a store fault, or that a crash cut short, included.
ApprovalGate ==
  \A r \in Gated :
    status[r] \in {"queued", "validating", "running", "succeeded", "partial"} \/ executions[r] > 0
      => r \in approved

\* The completion metric counts a run once, whichever of worker, CancelRun,
\* failRun and recovery races to end it, and only when it has ended.
CountedOnce ==
  \A r \in Runs : completions[r] <= 1 /\ (completions[r] = 1 => Terminal(status[r]))

InQueue(r) == \E i \in 1..Len(queue) : queue[i] = r
HeldBy(r, at) == \E w \in Workers : job[w] = r /\ pc[w] \in at

\* While the service serves, a run the store never failed on is always on its
\* way: a queued one is in the queue, with a worker, with the call that
\* published it, or manual (the dispatcher's); a validating or running one is
\* with a worker.
NothingLost ==
  phase = "up" => \A r \in Runs \ damaged :
    /\ status[r] = "queued" => \/ InQueue(r) \/ HeldBy(r, {"taken"})
                               \/ api[r] \in {"enqueue", "fail"} \/ r \in Manual
    /\ status[r] = "validating" => HeldBy(r, {"validating"})
    /\ status[r] = "running" => HeldBy(r, {"executing", "gating", "finishing"})

-------------------------------------------------------------------------------
(* Who may touch a run: the facts that make the properties above inductive. *)

\* A worker holds a run between Take and Release.
Holding == \A w \in Workers : job[w] = NoRun <=> pc[w] \in {"idle", "exited"}

\* Nothing in the process refers to a run that has not been queued yet.
Dormant ==
  \A r \in Runs : status[r] \in {"absent", "preparing", "waiting_approval"} =>
    /\ ~InQueue(r) /\ api[r] = "none" /\ r \notin scan /\ r \notin todo
    /\ \A w \in Workers : job[w] # r

\* A run whose creator or approver has yet to enqueue it is in nobody else's
\* hands, so that FailUnqueued can only fail a run no worker will see.
Unscheduled ==
  \A r \in Runs : api[r] \in {"enqueue", "fail"} =>
    r \notin Manual /\ ~InQueue(r) /\ \A w \in Workers : job[w] # r

\* A claimed run is validating until its own worker moves it, or cancelled.
ClaimIsKept ==
  \A w \in Workers : pc[w] = "validating" => status[job[w]] \in {"validating", "cancelled"}

\* recoverRuns fails the leftovers before any worker can have a run.
RecoveryIsQuiet ==
  /\ (phase = "down" \/ (phase = "recovering" /\ stage # "queued")) =>
       queue = <<>> /\ \A w \in Workers : pc[w] = "idle"
  /\ ~Serving => scan = {} /\ \A r \in Runs : api[r] = "none"
  /\ Serving => todo = {}

\* A run that has not been running was never executed.
NotYetExecuted ==
  \A r \in Runs : status[r] \in {"absent", "preparing", "waiting_approval", "queued", "validating"}
    => executions[r] = 0

\* Only a gated run waits for an approval.
OnlyGatedWait == \A r \in Runs : status[r] = "waiting_approval" => r \in Gated

\* NothingLost from the start of the process on: a run that recoverRuns has yet
\* to fail or to enqueue is in its list, or still to be listed.
TrackedRun(r) ==
  /\ status[r] = "queued" =>
       \/ phase = "recovering" /\ (stage # "queued" \/ r \in todo)
       \/ InQueue(r) \/ HeldBy(r, {"taken"}) \/ api[r] \in {"enqueue", "fail"} \/ r \in Manual
  /\ status[r] = "validating" =>
       (phase = "recovering" /\ stage = "validating" /\ r \in todo) \/ HeldBy(r, {"validating"})
  /\ status[r] = "running" =>
       \/ phase = "recovering" /\ (stage = "validating" \/ (stage = "running" /\ r \in todo))
       \/ HeldBy(r, {"executing", "gating", "finishing"})

Tracked == phase \in {"recovering", "up"} => \A r \in Runs \ damaged : TrackedRun(r)

Schedule == Dormant /\ Unscheduled /\ RecoveryIsQuiet
Owners   == ClaimIsKept /\ OneOwner /\ RunningWhileInFlight /\ RegisteredWhileInFlight
History  == NotYetExecuted /\ ExecutedAtMostOnce /\ OnlyGatedWait /\ ApprovalGate /\ CountedOnce

IInv == TypeOK /\ Holding /\ Schedule /\ Owners /\ History

\* What the architecture overview promises of a running run whose cancellation
\* was accepted: its final status is cancelled.
AcceptedCancelEndsCancelled ==
  \A r \in cancelRequested : Terminal(status[r]) => status[r] = "cancelled"

-------------------------------------------------------------------------------
(* Liveness. *)

\* Every goroutine and handler that can take a step eventually does, an
\* executor returns (its context has a deadline), and the host restarts the
\* process.
Fairness ==
  /\ \A w \in Workers : WF_vars(Worker(w))
  /\ \A r \in Runs :
       /\ WF_vars(EnqueueAccepted(r) \/ EnqueueRefused(r) \/ FailUnqueued(r))
       /\ WF_vars(DispatchOne(r))
  /\ WF_vars(DispatchScan) /\ WF_vars(Start) /\ WF_vars(Recovery) /\ WF_vars(ProcessExit)

FairSpec == Spec /\ Fairness

\* Every queued run ends, over crashes and stops, unless the store fails on it.
QueuedRunsEnd == \A r \in Runs : status[r] = "queued" ~> Terminal(status[r]) \/ r \in damaged

\* So does every run whose cancellation was accepted.
CancelledRunsEnd == \A r \in Runs : r \in cancelRequested ~> Terminal(status[r]) \/ r \in damaged

\* Store faults included, a queued manual run is always notified again: the
\* dispatcher repairs a lost claim or a full queue.
ManualRunsAreRepaired == \A r \in Manual : status[r] = "queued" ~> status[r] # "queued"
==============================================================================
