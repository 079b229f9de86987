# Security agent suite: formal models

TLA+ models of the Go control plane of the security agent suite (`cmd/sasd`,
`internal/`), the TLC runs that check them, and theorems about them that TLAPS
checks. The models are translated from the code; documents are used only to say
what the code promises.

The control plane takes *runs* (requests to a security agent) over HTTP, keeps
them in JSON files, and executes each at most once through an external
`agent-compose` process. What can go wrong is in the order of things: calls that
race with workers, writes that fail after they were published, processes and
machines that stop between two writes, cancellations and deadlines that race with
answers. The models are about these.

## 1. The system

| Component | State | Operations | Talks to |
| --- | --- | --- | --- |
| Run state machine (`domain/run.go`) | a run's status and events | `Transition`, `SetResult` | — |
| Run service (`app/service.go`) | queue channel, workers, registered cancel functions, the service's context | `CreateRun`, `ApproveRun`, `CancelRun`, `process`, `recoverRuns`, `Start`, `Close` | run store, evidence store, policy, executor |
| Manual input (`app/input.go`) | `inputMu`; in files: the input journals | `UploadInput`, `SubmitRun`, `AppendEvidence`, `checkFrozen`, `dispatchInputs` | artifact, evidence and run stores; the queue |
| Run file store (`store/file/file.go`) | runs in memory and in files, request-id index, audit log | `Create`, `Update`, `Get`, `FindByRequestID`, `List`, `load` | the file system |
| Journal store (`store/file/input.go`) | one journal file per manual run | `CreateInputJournal`, `GetInputJournal` | the file system |
| Evidence store (`store/file/evidence.go`) | immutable record files, and memory | `Append`, `Get`, `List`, `load` | artifact store (cited artifacts) |
| Artifact store (`artifacts/store.go`) | bytes and metadata files | `Put`, `PutInput`, `Get`, `ReadInput` | the file system |
| Policy (`policy/`) | none | `NormalizeAndEvaluate`, `ValidateExecution`, input manifests and fingerprints | — |
| Executors (`executor/`) | one child process per execution | `Execute` | artifact store, `agent-compose` |
| Output validation (`validation/`) | the contracts of the five agents | `Parse`, `Gate`, `ValidateResultEvidence` | — |
| HTTP API (`httpapi/`) | the rate limiter's entries | handlers, middlewares | the service |
| Observability, catalog, prompt, config, ids | counters; constant tables | | |
| Doctor (`doctor/doctor.go`) | the report under way | `Run` (`sasctl doctor`), `RunRuntime` (the monitor) | agent-compose, OctoBus, Docker, the provider, DNS |
| Daemon (`cmd/sasd`) | `ready`, the monitor's ticker, the context of signals | start, `monitorReadiness`, shutdown | service, doctor, HTTP server |
| Client (`cmd/sasctl`) | — | HTTP calls, `doctor`, `validate-output` | the HTTP API, doctor, validation |

How they interact: an HTTP handler calls one operation of the service. The service
publishes the run through the store and then puts its id in the queue channel; the
two are separate steps and either may fail. A worker takes an id, *claims* the run
(an `Update` that only succeeds from `queued`), checks its input, policy and prompt,
turns it to `running` while it registers a cancel function, calls the executor, and
persists the answer. `CancelRun` either cancels the registered context and leaves
the end to the worker, or ends the run itself. A manual run goes through four files
(artifact metadata, journal, evidence, run) before it is queued, and a dispatcher
scans for queued manual runs that nobody notified. On a start, `recoverRuns` fails
what was left `validating` or `running` and enqueues what was left `queued`.

Hard behaviour, and what makes each component right:

* *Run service*: a run may be in the queue several times, or in none after a failed
  write; workers, `CancelRun`, `failRun` and recovery may all try to end it. Right
  is: executed at most once, one owner, not ended under its executor, cancellable
  until its answer is persisted, counted once, never lost, never executed without
  the approval it needs; and every queued run ends.
* *File stores*: publication (rename or link) comes before durability (directory
  sync), and the sync may fail. Right is: nobody is told of what a power loss can
  take back; a retry after an error creates no second run, record or journal; and
  what is on disk never makes the next start refuse.
* *Creation*: two calls with one request id may both find nothing. Right is one
  answer for all, with the input that was asked for.
* *Manual input*: a queued run has all of its frozen input on disk; a reserved
  evidence id stays reserved; a submission that failed midway resumes.
* *Execution*: what a run ends as is what its child earned, whatever ended first;
  no untrusted or cut-off output becomes a conclusion; every execution ends.
* *Service over its store*: workers and callers use what a failed sync published, and
  a power loss can take it back later. Right is: an outcome that was read is final, and
  nothing that ran runs again.
* *Output validation*: the contracts say where a document refers to evidence, two walks
  look for references by a list of keys. Right is: no accepted conclusion refers to
  evidence that nobody vouches for, in any field of any contract.
* *Doctor and daemon*: a check may depend on others, whose failures come out as
  `unknown`; the environment changes and the context may end in the middle of a
  report. Right is: a report overlooks nothing that was wrong all along and raises no
  false alarm; `/readyz` follows what lasts; a signal ends the process.
* *Rate limiter*: the clock is read before the lock. Right is: nobody refused too
  early, and the overrun bounded by the requests that came late.

`PROJECT.json` lists each hazard with its line and the properties that watch it.

## 2. Modules

| Module | Models | Built on |
| --- | --- | --- |
| `RunStatus` | statuses and `allowedTransitions` | |
| `RunService` | the service, its workers, dispatcher, API calls and process life | `RunStatus` |
| `DurableRuns` | abstract: versions advance; what a caller was told of is never lost | |
| `FileStore` | the run store; `KeepsItsPromise` says it implements `DurableRuns` | refines `DurableRuns` |
| `RunCreation` | concurrent `CreateRun` calls step by step over the store | `FileStore` |
| `RunLife` | abstract: a run as its callers see it | `RunStatus` |
| `DurableService` | the service over torn writes, syncs and power losses; `LivesUpToIt` says it implements `RunLife` | `RunService`, refines `RunLife` |
| `EvidenceStore` | evidence records and artifact metadata | |
| `ManualInput` | uploads, submissions, public appends, journals and frozen checks | `EvidenceStore` |
| `OutputContract` | the contracts of the five agents, `Parse`, the trust and integrity walks | |
| `Outcome` | one execution: child, context snapshot, artifacts, classification, Gate, evidence check, final status | `OutputContract` |
| `Doctor` | one report: every check, what it needs, what its failure does to the rest | |
| `Daemon` | main and the readiness monitor of `sasd`; `sasctl doctor` | `Doctor` |
| `RateLimiter` | the limiter's entries and the clock | |
| `MC*` | constants, bounds and symmetry for TLC; `MCDaemon` puts the rate limiter beside the daemon | |
| `RunServiceProofs`, `DurableServiceProofs`, `FileStoreProofs`, `EvidenceStoreProofs`, `ManualInputProofs`, `OutcomeProofs`, `DaemonProofs`, `RateLimiterProofs` | theorems and their proofs | |

### RunService

`status`, `approved` and `cancelRequested` are the persisted runs, `queue`, `pc`,
`job`, `outcome`, `cancels`, `cancelled`, `api` and `scan` the memory of the process;
`executions`, `completions` and `damaged` are history. One action is one access to
shared state: an `Update` of the store (`Claim`, `StartExecutor`, `Finish`), a send to
or receive from the queue (`EnqueueAccepted`, `Take`), an operation under `cancelMu`
(`CancelRegistered`). Every `Update` has three results: `ok`, `lost` (an error before
the rename) and `torn` (an error after it). `CreateRun`, `ApproveRun` and `SubmitRun`
publish first and enqueue in a later step, so a worker, a cancellation, a crash or a
full queue may come between. The executor is any answer at any time (`Outcome` has
the inside), `context.Canceled` only after a cancellation or a stop. `Start`,
`Recovery`, `Close`, `ProcessExit` and `Crash` are the life of the process.

### DurableService, RunLife

Every run has, beside its published version, the `older` versions that a power loss may
bring back. A write that succeeds, a read and a list sync the directory and so settle
every run (the code's `Get` and `List` sync first); a write that is torn leaves the
version before it possible, or none if only the audit failed. `PowerLoss` takes each run
back to any of its versions and ends the process. `GetRun` tells a caller; `told` is the
history of what it told. `RunLife` has two steps, `Execute` and `Tell`.

### FileStore, DurableRuns, RunCreation

A run is its version number. A write is `Rename`, `Synced` or `SyncFailed`, then the
audit line, with the store's lock held; each may fail. `disk` is what is published,
`durable` what a power loss leaves. Reads sync first (`SyncRuns` in the code's `Get`),
which is why they may tell of a version whose write returned an error. In
`RunCreation` a call and the run it would create share a name, as every call mints
a fresh id. `Compatible` is `compareCreation`: manual calls are compared by agent and
input (`CreationFingerprint`), a manual call with an automatic one never fits, and of two
automatic calls nothing is compared. `OneAnswer` says no more than that: an automatic
caller that reuses a request id is answered with the run that has it, whatever its
input, and no document of the repository promises otherwise.

### EvidenceStore, ManualInput

A record is run, id and body, its file is named by run and id. `Link` publishes it,
`Appended` syncs it and lets memory know, `AppendSyncFailed` leaves the file alone.
`ManualInput` adds the manual runs with the versions a power loss may leave
(`possible`), the journals, and `at`, the step of whoever holds `inputMu`. All uploads
of a run match its manifest and so have the same bytes; a refused upload is a step
that fails. `Restart` is enabled only when the loads of the stores and
`checkFrozen` of every queued run would pass.

### OutputContract, Outcome

A document is its status and what it says of evidence: the ids it lists, the ids it
cites and in which field, its findings, its claims of facts (metrics, citations).
`ReferenceFields` is read from the contracts (`contracts` in the code), `ReferenceKeys`
from `isEvidenceReferenceKey`: the two are separate lists in the code too. `Code` is
`parseWithTrusted`; `GateCode` and `ParseCode` are its two uses. Whether everything else
in a document has the types and values of its contract is one bit, `conforms`.

In `Outcome` the child leaves one of all possible records: how it ended, whether its
output was truncated, what its envelope says; and beside it a document, of any agent.
`Cancel`, `Expire` and `Stop` may come before every step. Actions follow
`Execute` in order: `ChildEnds`, `TakeSnapshot`, one `Store` per artifact (or
`StoreFails`), `AllStored`, then one action per return statement, then `Gate`,
`CheckEvidence` (or `ListingFails`) and `Finish` of the service. Evidence is listed on the
service's context, after a read of the run that syncs the directory of the runs: the list
may fail at any time, and the result then becomes failed with
`agent_output_evidence_invalid`. `listed` remembers that it did not, and `CompletedIsKept`
says that this is the only thing that can still reclassify a completed run whose
artifacts are stored. The configuration errors before the child
is started are the `other` error with no output.

### Doctor, Daemon

`Order` is the order in which `run` comes to each check; `PassedFirst` and `AddressesOf`
are what a check needs before it looks, read from the conditions in `run` one by one.
`wrong` is the set of things that are wrong: one for each check, a missing or malformed
address, and a descendant of a probe's command that keeps its output open
(`runCommand` has a deadline but no `WaitDelay`). `Change` breaks or repairs one thing
between any two steps. `Finds` is the set of answers a check may then give; `steady`
and `ever` remember what was wrong all along and at any time since the report began. In
`Daemon` the monitor is `StartCheck`, the checks, `FinishCheck` (which sets `ready`),
and the select on ticker and context; main is `Signal`, `Join` (it waits for the
monitor), `Drain`, `Exit`, or `Abort`. `sasctl doctor` is a process of one report.

### RateLimiter

`ReadClock` is `time.Now()`, an argument of `allow`; `Allow` is the body under the lock.
Between them other requests may pass and the minute may change.

## 3. Runs

| Run | Config | Shows |
| --- | --- | --- |
| `service_safety` | `DurableService.cfg` | All safety properties of the service, over torn writes and power losses, and the refinement of `RunLife`: a manual and a gated run, two workers, queue of one, one store fault and one crash or power loss, or a graceful stop. |
| `service_live` | `RunService_live.cfg` | Queued and cancelled runs end unless the store failed on them; manual ones leave the queue even then. A gated and a manual run, one worker, one fault, one crash or stop. |
| `service_cancel` | `RunService_cancel.cfg` | **Violation.** An accepted cancellation can end in another status than `cancelled`. |
| `creation` | `RunCreation.cfg` | Idempotent creation, and everything the file store promises, the refinement of `DurableRuns` included: a call, its retry, one with another input and an automatic one under one request id, a fifth call under another, two faults, two ends of the process. |
| `creation_agents` | `RunCreation_agents.cfg` | **Violation.** A call that loses the race is answered with the run of another agent. |
| `manual_input` | `ManualInput.cfg` | Manual input and the evidence store: two uploads of one manual run, a second run with public evidence, two ids, two faults, two ends. |
| `evidence_ids` | `EvidenceStore_ids.cfg` | **Violation.** After a failed sync an id can be appended under another run, and load refuses. |
| `evidence_cited` | `EvidenceStore_cited.cfg` | **Violation.** A power loss takes back the metadata of an artifact that a durable record cites, and load refuses. |
| `outcome` | `Outcome.cfg` | Every child, every moment of a cancellation, a deadline and a stop, every artifact failure, a failing list of evidence, and documents of every agent. |
| `outcome_ends` | `Outcome_ends.cfg` | **Violation.** An artifact that cannot be stored hides a cancellation or a timeout. |
| `daemon` | `Daemon.cfg` | Reports are true, readiness converges, a signal ends the process; no false refusal and a bounded overrun of the rate limiter. Either executor, or `sasctl doctor`; one thing wrong and one change of it; four requests, two keys, limit one, four minutes. |
| `rate_limiter_limit` | `RateLimiter_limit.cfg` | **Violation.** Late requests let more than the limit pass in one minute. |

The disagreements that the violations show are described, with the
quoted documents, under `findings` in `PROJECT.json`.

Bounds. Two runs of different kinds and two workers are enough for every race the
service has between two owners of one run and for a full queue; one fault plus one
end of the process reaches each "torn write, then recovery" case, and the proofs
remove these bounds for the safety properties. In `creation` two faults are needed
for a failed sync followed by a failed retry, two ends for a crash followed by a
power loss, two equal calls for a retry that races with its call, and one call for each
way to differ from them: in its input, in its mode, in its request id. In
`manual_input` two artifacts are needed for conflicting submissions, two ids for an id
that is taken, two runs for a public append elsewhere. In `outcome` every child is
explored; a document has one reference, finding or claim (in every field of every
contract) beside no listed evidence, one, or the same twice, which is what each rule of the
validator needs to fire; the variety is given to a child that otherwise did
everything right (`SmallSaid`), the others leave one of two documents (`SmallPlain`):
documents do not matter to them beyond that. In `daemon` one thing wrong at a time
(`MaxWrong`) and one change (`MaxChanges`) break and repair every check; that failures
do not mask each other is what `ReportsAreTrue` proves for any number of both. The rate
limiter needs a window that is left and re-entered (two minutes), one more for
sweeping, and as many requests as make a reset visible. `Bound` in `MCDurableService`
keeps a graceful stop and a fault apart and lets callers read the outcome of one run; the
theorems of `DurableServiceProofs` have neither limit.
`MaxFaults`, `MaxEnds`, `MaxCrashes`, `MaxVersion`, `MaxWrong`, `MaxChanges` and
`LastWindow` are the bounds that appear in guards; all others are sizes of sets.

Symmetry is used for workers, for retries of one call and for requests of one key,
never in a run with a liveness property.

Deadlock is checked where the system may go on for ever (`service_*`,
`creation*`). It is not where it may stop: the stores may refuse to load
(`manual_input`, `evidence_*`), an execution ends (`outcome*`), requests and minutes run
out (`rate_limiter_limit`), the daemon exits (`daemon`).

Fairness. `RunService`: weak fairness of every worker goroutine, of each call that has
published a run, of the dispatcher's goroutine, of recovery and of start and exit.
The Go scheduler runs every goroutine that can run; an executor returns because its
context has a deadline (`ExecutionEnds` checks that); a supervisor restarts the daemon
(`docker-compose.yml` does). Nothing is assumed of clients, cancellations, approvals, faults or
crashes. `Outcome`: the deadline comes; a child whose context has ended is interrupted
and its output closed five seconds later (`WaitDelay`), so `ChildEnds` is fair only then.
`Daemon`: the monitor's goroutine, main and the ticker; every probe has a deadline and so
answers, except that a probe whose output is held by a descendant has no fair end:
`DaemonStops` and `ReadinessConverges` are stated for output that is let go of. Nothing
is assumed of a select with two ready cases, of changes, or of signals.

Each property of a passing run has a mutant in `PROJECT.json`: a plausible bug in the
modelled code (definitions marked *Mutation*) that makes TLC find the property
violated.

## 4. Theorems

All constants are arbitrary in the proofs: any runs, workers, queue size, keys,
artifacts, and any number of faults, crashes and stops. Every safety property that a
passing run checks is a theorem. Each module of proofs extends the module that composes
the component with its environment, so its theorems are about the specification that the
run of that name checks: `ManualInputProofs` takes the lemmas of `EvidenceStoreProofs`,
`DaemonProofs` those of `RateLimiterProofs`, `DurableServiceProofs` those of
`RunServiceProofs`; `FileStoreProofs` is about the store alone and under `CreateRun`.

* **RunServiceProofs.** `ExecutedAtMostOnce`, `OneOwner`, `RunningWhileInFlight`,
  `ApprovalGate` and `CountedOnce` are invariants. None is inductive. `IInv` adds who may
  hold a run: a run not yet queued is nowhere in the process (`Dormant`); one whose
  creator has yet to enqueue it is with nobody else (`Unscheduled`); recovery works
  before any worker holds a run (`RecoveryIsQuiet`); a claimed run stays `validating`
  unless cancelled (`ClaimIsKept`); registered cancel functions are those of the runs
  in flight; what has not been running was never executed (`NotYetExecuted`).
  `NothingLost` speaks of a process that serves, and must be true from the moment it
  does. `Tracked` says the same of recovery: a run it has yet to fail or to enqueue is in
  its list, or of a status it has yet to list. Each step is shown to keep track of one run
  (`ProcessTracks`, `WorkersTrack` and the lemmas before them); that a run is taken out of
  the queue only by the worker that now holds it is the heart of it.
* **DurableServiceProofs.** The same invariants and `ToldOutcomeIsFinal` over torn writes and power
  losses, and the refinement of `RunLife`. The invariant adds to `IInv` that every version
  a power loss may restore is harmless (`SafeVersion`): once a run was executed it is
  `running` or ended, and approved if gated, in all of its versions (`OlderIsSafe`); that
  an outcome which was counted or read has no older version left (`OutcomeIsSettled`);
  and that success follows an execution (`Earned`). `NothingLost` carries over because a
  power loss ends the process, and `Tracked` says nothing until the next one starts.
* **FileStoreProofs.** `ToldIsDurable`, `AuditIsDurable`, `OneRunPerRequest`, `MemoryIsDisk` are invariants,
  and the store implements `DurableRuns` (`Refinement`: every step is a step of it or a
  stutter; a rename advances, an answer tells, a power loss loses what was not told).
  Then of `RunCreation`: its calls take only steps of the store, or spend one of its
  faults (`CreationMoves`), so everything above holds under them, `DurableRuns` included.
  `OneAnswer` is about calls that found each other's run, which `Answered` makes
  inductive: a run that a call was answered with is durable, has its key and stands the
  comparison with it; what that says of a manual caller is `ComparedAgree`.
  Two answers then name durable runs of one key, and the store publishes only one. That
  the index leads to runs of the right key is `IndexedByKey`.
* **EvidenceStoreProofs.** `ToldSurvives`: what callers were told of is durable and under one
  id each, because a record that memory knows is durable. `Immutable`: a run and an id
  name one file (`OneRecordPerFile`), so the retry of an append finds the bytes of the
  earlier attempt and replaces nothing.
* **ManualInputProofs.** `FrozenInputIsWhole` and `ReservedIdsAreKept`. `InputIInv` adds that
  the step of a submission implies what is durable by then (`HandlerIsSound`), that
  journals are unique by run and id, and that memory knows durable records only.
  `CandidateResumes` and `OneSubmission` are proved together, from `Answers`: a version of
  a run is submitted for one artifact, by the step that queued it (`SubmittedOnce`),
  and a conflict is answered by the handler that found it before the next one starts
  (`AnsweredFirst`). All but one step submit nothing new (`NothingSubmitted`). The
  invariants of the evidence store hold beside manual input, which takes only steps of the
  store or none (`StoreMoves`): `ToldSurvives`, `Immutable`.
* **OutcomeProofs.** First of the validator, for any document and any vouched evidence: the Gate
  accepts nothing that is not `Backed` (`GateAcceptsOnlyBacked`; its heart is that every
  reference field of every contract has one of `ReferenceKeys`), refuses nothing that is
  and conforms, unless an id is listed twice (`BackedIsAccepted`), and is stricter than
  `sasctl validate-output` (`GateImpliesParse`). Then all six invariants of `Outcome`, for any
  documents of any child (`Said` and `Plain` are arbitrary). `IInv` says step by step
  what is known: what is in the run's result before and after it is published, that an
  answer without an error was given in a live context with everything stored
  (`Answered`), that a claim of success that reached `evidence` was accepted (`Claimed`)
  and one that reached `finish` compared with the listed evidence, and what a perfect child
  keeps (`Kept`): a succeeded answer up to the list of evidence (nothing is listed before,
  `Unlisted`), and after it what the list made of it.
* **DaemonProofs.** `ReportIsTrue`, for any number of things wrong and of changes. `ReportInv`
  says of each check what its answer rests on: what passed was not wrong all along, nor
  was its address (`PassesAreRight`; the provider settings alone may pass unseen, behind a
  compose file that failed); a failure or an unknown has a `Cause`, something relevant that
  was wrong at some time, or the end of the context (`FailuresAreRight`); only what does not
  apply is skipped (`SkipsAreRight`). A check needs only checks that come before it
  (`NeedsComeFirst`), so a need that did not pass has a cause already (`NeedsHaveCauses`),
  and no induction along `Order` is needed. At the end, what the run `daemon` checks of the
  daemon and the limiter of its API together (`BothTypeCorrect`, `BothAreSafe`).
* **RateLimiterProofs.** `NoFalseRefusal`: the count of an entry is backed by requests
  that were let through in its window, or the limit was reached (`Backed`).
  `OverrunIsBounded` is not inductive: what a key may still use of a window depends on
  whether its entry is of that window. `Bounded` says what has been used up beyond the
  limits that late requests account for: the count of an entry up to the limit, nothing
  of a window that has no entry and is not over, a whole limit of one that is. Only a late
  request can make the entry forget the clock's own minute, which pays for one more limit.

The assumptions are the named `ASSUME`s of the modules: which sets constants are
taken from, that a manual run is not gated, that the manual calls are calls,
that a limit and a queue size are positive.

Only model-checked: `QueuedRunsEnd`, `CancelledRunsEnd`, `ManualRunsAreRepaired`,
`ExecutionEnds`, `ReadinessConverges`, `DaemonStops`. They are liveness properties; liveness
under fairness and `ENABLED` are out of the prover's reach, as are induction over data and
recursive operators. What the violation runs show is false, and so has no theorem.

## 5. Not modelled

* Memory stores and the mock executor: for tests.
* HTTP: decoding a body (`httpapi/input.go`, `StrictDecode` in `validation/input.go`),
  authentication headers, tenant checks, encoding. A handler reads a request, calls one
  operation of the service and keeps no state; a wrong tenant is answered as an unknown run.
* Manifest parsing, fingerprints, redaction, bounded texts, the content of provenance:
  data. The types, bounds and formats of the fields of an agent's document that do not
  refer to evidence are one bit.
* Policy decides once, without state, what a run needs: the services take its answer
  (`Gated`, a refusal) as given. Its rules are tables and string tests.
* What exactly an answer of agent-compose, OctoBus, Docker, DNS or a provider must
  contain for a check of the doctor to pass: one fact per check.
* `/metrics`, logging, catalog, prompt, configuration: no state that matters.
* The other commands of `sasctl` are stateless; a retry is a repeated call, and `wait` is
  repeated `GetRun`.
* Schemas and deployment files.
* Failures to write an audit line are modelled; the file's own durability is not, as
  the code never syncs it.

## 6. Plan

1. Done: `RunService`, `FileStore`, `RunCreation`, `EvidenceStore`, `ManualInput`, `Outcome`,
   `RateLimiter`; the composition of the service with the store's durability
   (`DurableService`, `RunLife`); the validator's contracts (`OutputContract`); the doctor
   and the daemon (`Doctor`, `Daemon`).
2. Done: a proof of every safety property that a passing run checks.
3. Proofs of what remains true where a violation run shows a promise broken: when an id
   is still unique, when a cited artifact exists, what a cancelled run may end as.
4. Policy: the decision of `NormalizeAndEvaluate` against `ValidateExecution` later, over
   bounded requests.
