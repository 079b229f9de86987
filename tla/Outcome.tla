-------------------------------- MODULE Outcome --------------------------------
(***************************************************************************)
(* One execution: how Executor.Execute (agentcompose/cli.go), the Gate and *)
(* the end of Service.process turn what a child process did into the final *)
(* status of a run, while a cancellation, the deadline and the stop of the *)
(* service may come at any time, and any artifact may fail to be stored,   *)
(* the evidence of the run to be listed.                                   *)
(*                                                                         *)
(* What the child leaves is one record, and beside it what the provider    *)
(* said, a document of module OutputContract.  The writes of the run       *)
(* itself do not fail here (module RunService has their failures).         *)
(***************************************************************************)
EXTENDS OutputContract

CONSTANTS Said,   \* the agents and the documents their providers may leave
          Plain   \* bound: those left by a child that is not Fine

ASSUME SaidAssumption == Plain \subseteq Said /\ Said \subseteq Agents \X Documents

Contexts == {"live", "canceled", "expired"}

\* err: what cmd.Run returned.  result: result_json has no final text, one from
\* the transcript, or one from a pinned provider.  clean: exit_code is 0 and
\* error is empty.  output: there is a transcript.
Children ==
  [err : {"none", "exit", "unavailable", "other"}, truncated : BOOLEAN, stderr : BOOLEAN,
   stdout : {"empty", "garbage", "envelope"}, output : BOOLEAN,
   status : {"success", "partial", "cancelled", "failed", "unknown", "blank"}, clean : BOOLEAN,
   result : {"none", "fallback", "provider"}]

\* Where there is nothing to say a field has a fixed value.
Possible(c) ==
  c.stdout # "envelope" => c.status = "unknown" /\ c.clean /\ ~c.output /\ c.result = "none"

\* The artifacts, in the order they are stored.
Envelope == 1
Transcript == 2
Stderr == 3
Final == 4

VARIABLES
  pc,        \* where the worker is
  ctx,       \* the execution's context
  asked,     \* run.cancel_requested is among the run's events
  stopped,   \* the service's context is cancelled
  agent,     \* the run's agent
  child,     \* what the child left
  text,      \* what the provider said
  snapshot,  \* commandContextErr
  stored,    \* artifacts stored
  exec,      \* what Execute returned: error, status and error code
  listed,    \* history: the run's evidence could be listed
  run        \* the run: status, error code and what its result holds

left   == <<agent, child, text>>
worker == <<left, snapshot, stored, exec, listed>>
vars   == <<pc, ctx, asked, stopped, worker, run>>

Steps == {"child", "ended", "store", "classify", "gate", "evidence", "finish", "done"}

-------------------------------------------------------------------------------
(* What the output says. *)

Decoded(c) == c.stdout = "envelope"
Parsed(c)  == Decoded(c) /\ c.status # "blank" /\ c.result # "none"

RuntimeStatus(c) ==
  IF c.status = "cancelled" THEN "cancelled"
  ELSE IF c.clean /\ c.status = "success" THEN "succeeded"
  ELSE IF c.clean /\ c.status = "partial" THEN "partial"
  ELSE "failed"

RuntimeFailure(c) == c.status \in {"partial", "cancelled", "failed"} \/ ~c.clean

\* Mutation: the transcript will do.
BusinessOutputOfAny(c) == ~c.truncated /\ Parsed(c)

BusinessOutput(c) == ~c.truncated /\ Parsed(c) /\ c.result = "provider"

\* A child that leaves nothing to tell but its document.
Fine(c) == c.err = "none" /\ ~c.stderr /\ c.output /\ c.clean /\ c.status \in {"success", "partial"}

NoText == [json |-> "empty", conforms |-> FALSE, status |-> "none", evidence |-> <<>>,
           cites |-> {}, findings |-> {}, claims |-> {}]

Texts(c) ==
  IF ~BusinessOutput(c) THEN {<<"event-triage", NoText>>}
  ELSE IF Fine(c) THEN Said
  ELSE Plain

\* An envelope without a status says nothing of its run.
ExecutionProvenance(c) == c.status # "blank"

Provenance(c) ==
  ~c.truncated /\ Decoded(c) /\ (Parsed(c) \/ RuntimeFailure(c)) /\ ExecutionProvenance(c)

Wanted(c) ==
  {a \in {Envelope, Transcript, Stderr, Final} :
     \/ a = Envelope /\ c.stdout # "empty"
     \/ a = Transcript /\ ~c.truncated /\ c.output
     \/ a = Stderr /\ c.stderr
     \/ a = Final /\ BusinessOutput(c)}

-------------------------------------------------------------------------------
(* The surroundings. *)

End(reason) == ctx' = IF ctx = "live" THEN reason ELSE ctx

\* CancelRun, which finds the run registered until it has ended.
Cancel ==
  /\ pc # "done" /\ ~asked
  /\ asked' = TRUE /\ End("canceled")
  /\ UNCHANGED <<pc, stopped, worker, run>>

Expire ==
  /\ pc # "done" /\ ctx = "live"
  /\ End("expired")
  /\ UNCHANGED <<pc, asked, stopped, worker, run>>

Stop ==
  /\ pc # "done" /\ ~stopped
  /\ stopped' = TRUE /\ End("canceled")
  /\ UNCHANGED <<pc, asked, worker, run>>

-------------------------------------------------------------------------------
(* Executor.Execute. *)

At(step, next) == pc = step /\ pc' = next

Leave ==
  \E c \in Children : Possible(c) /\ child' = c /\ \E t \in Texts(c) : agent' = t[1] /\ text' = t[2]

\* Mutation: the child is not interrupted.
ChildEndsByItself ==
  /\ At("child", "ended") /\ ctx = "live"
  /\ Leave
  /\ UNCHANGED <<ctx, asked, stopped, snapshot, stored, exec, listed, run>>

\* An interrupted child may leave anything, a clean exit included.
ChildEnds ==
  /\ At("child", "ended")
  /\ Leave
  /\ UNCHANGED <<ctx, asked, stopped, snapshot, stored, exec, listed, run>>

TakeSnapshot ==
  /\ At("ended", "store")
  /\ snapshot' = ctx
  /\ UNCHANGED <<ctx, asked, stopped, left, stored, exec, listed, run>>

Due(a) == a \in Wanted(child) \ stored /\ \A b \in Wanted(child) \ stored : a <= b

Store(a) ==
  /\ At("store", "store") /\ Due(a)
  /\ stored' = stored \cup {a}
  /\ UNCHANGED <<ctx, asked, stopped, left, snapshot, exec, listed, run>>

\* Mutation: the artifacts are published before they are stored.
AllPublished ==
  /\ At("store", "classify")
  /\ run' = [run EXCEPT !.raw = BusinessOutput(child), !.provenance = Provenance(child),
                        !.artifacts = Wanted(child)]
  /\ UNCHANGED <<ctx, asked, stopped, worker>>

AllStored ==
  /\ At("store", "classify") /\ stored = Wanted(child)
  /\ run' = [run EXCEPT !.raw = BusinessOutput(child), !.provenance = Provenance(child),
                        !.artifacts = stored]
  /\ UNCHANGED <<ctx, asked, stopped, worker>>

Return(next, err, status, code) ==
  /\ pc' = next /\ exec' = [err |-> err, status |-> status, code |-> code]
  /\ UNCHANGED <<ctx, asked, stopped, left, snapshot, stored>>

Answer(status, code) == Return("gate", "none", status, code) /\ UNCHANGED <<listed, run>>

\* The error of Put is returned in place of everything known so far.
StoreFails ==
  /\ pc = "store" /\ \E a \in Wanted(child) : Due(a)
  /\ Return("finish", "other", "failed", "") /\ UNCHANGED <<listed, run>>

\* Mutation: the context is read when the artifacts have been stored.
ContextErrLate == ctx

ContextErr == snapshot

ContextEnded ==
  /\ pc = "classify" /\ ContextErr # "live"
  /\ Return("finish", ContextErr, "failed", "") /\ UNCHANGED <<listed, run>>

\* Before everything else: the runtime says it was cancelled.
Cancelled(c) == c.err # "none" /\ ~c.truncated /\ Decoded(c) /\ RuntimeStatus(c) = "cancelled"

DaemonCancelled ==
  /\ pc = "classify" /\ ContextErr = "live" /\ Cancelled(child)
  /\ Answer("cancelled", "agent_compose_cancelled")

Truncated ==
  /\ pc = "classify" /\ ContextErr = "live" /\ child.truncated
  /\ Answer("failed", "agent_compose_output_truncated")

Exited ==
  /\ pc = "classify" /\ ContextErr = "live" /\ ~Cancelled(child) /\ ~child.truncated
  /\ \/ child.err = "exit" /\ Answer("failed", "agent_compose_exit")
     \/ child.err = "unavailable" /\ Answer("failed", "agent_compose_unavailable")

\* What is known of the output is dropped.
NotStarted ==
  /\ pc = "classify" /\ ContextErr = "live" /\ ~Cancelled(child) /\ ~child.truncated
  /\ child.err = "other"
  /\ Return("finish", "other", "failed", "")
  /\ run' = [run EXCEPT !.raw = FALSE, !.provenance = FALSE, !.artifacts = {}]
  /\ UNCHANGED listed

\* Output that cannot be decoded is left to the Gate.
Verdict(c) == IF Decoded(c) THEN RuntimeStatus(c) ELSE "succeeded"

CodeOf(status) ==
  CASE status = "failed" -> "agent_compose_runtime"
    [] status = "cancelled" -> "agent_compose_cancelled"
    [] OTHER -> ""

Completed ==
  /\ pc = "classify" /\ ContextErr = "live" /\ child.err = "none" /\ ~child.truncated
  /\ Answer(Verdict(child), CodeOf(Verdict(child)))

Execute ==
  \/ ChildEnds \/ TakeSnapshot \/ (\E a \in 1..4 : Store(a)) \/ StoreFails \/ AllStored
  \/ ContextEnded \/ DaemonCancelled \/ Truncated \/ Exited \/ NotStarted \/ Completed

-------------------------------------------------------------------------------
(* The Gate, the evidence check and the end of Service.process. *)

StatusFor(status) ==
  CASE status = "completed" -> "succeeded"
    [] status = "blocked_by_policy" -> "failed"
    [] OTHER -> "partial"

\* Mutation: what the payload says of itself is the last word.
ConstrainedByPayload(raw, payload) == payload

Constrained(raw, payload) ==
  IF "failed" \in {raw, payload} THEN "failed"
  ELSE IF "partial" \in {raw, payload} THEN "partial"
  ELSE "succeeded"

\* No executor vouches for evidence of its own: the Gate refuses a document
\* that rests on any.
Vouched == {}

Output == IF run.raw THEN text ELSE NoText

Judge(status, code) == Return("evidence", "none", status, code) /\ UNCHANGED <<listed, run>>

Claims == exec.status \in {"succeeded", "partial"}

Gate ==
  /\ pc = "gate"
  /\ LET code == GateCode(Output, agent, Vouched) IN
     \/ ~Claims /\ Judge(exec.status, exec.code)
     \/ Claims /\ code # "" /\ Judge("failed", code)
     \/ Claims /\ code = "" /\ Judge(Constrained(exec.status, StatusFor(text.status)), exec.code)

\* Evidence is listed on the service's context, after a look at the run, which
\* syncs the directory of the runs: the listing may fail at any time, and does
\* after a stop.
ListingFails ==
  /\ pc = "evidence" /\ exec.status # "failed"
  /\ Return("finish", "none", "failed", "agent_output_evidence_invalid")
  /\ UNCHANGED <<listed, run>>

\* The findings are those of output that passed the Gate.
EvidenceInvalid(evidence) == Claims /\ ResultInvalid(text, evidence)

\* A manual run's input is evidence, and anyone may have added some.
CheckEvidence ==
  /\ pc = "evidence"
  /\ \/ exec.status = "failed" /\ Return("finish", "none", "failed", exec.code) /\ UNCHANGED listed
     \/ /\ exec.status # "failed" /\ ~stopped /\ listed' = TRUE
        /\ \E evidence \in SUBSET Ids :
             IF EvidenceInvalid(evidence)
             THEN Return("finish", "none", "failed", "agent_output_evidence_invalid")
             ELSE Return("finish", "none", exec.status, exec.code)
  /\ UNCHANGED run

\* Mutation: a context that was cancelled is a run that was.
CancelledStatusAlways == "cancelled"

CancelledStatus == IF asked THEN "cancelled" ELSE "failed"

Finish ==
  /\ At("finish", "done")
  /\ run' = [run EXCEPT
       !.status = IF exec.err = "canceled" THEN CancelledStatus ELSE exec.status,
       !.code = CASE exec.err = "none" -> exec.code
                  [] exec.err = "other" -> "executor_error"
                  [] exec.err = "expired" -> "executor_timeout"
                  [] exec.err = "canceled" -> "executor_cancelled"]
  /\ UNCHANGED <<ctx, asked, stopped, worker>>

-------------------------------------------------------------------------------
Init ==
  /\ pc = "child" /\ ctx = "live" /\ asked = FALSE /\ stopped = FALSE
  /\ child = [err |-> "none", truncated |-> FALSE, stderr |-> FALSE, stdout |-> "empty", output |-> FALSE,
              status |-> "unknown", clean |-> TRUE, result |-> "none"]
  /\ agent = "event-triage" /\ text = NoText
  /\ snapshot = "live" /\ stored = {}
  /\ exec = [err |-> "none", status |-> "running", code |-> ""] /\ listed = FALSE
  /\ run = [status |-> "running", code |-> "", raw |-> FALSE, provenance |-> FALSE, artifacts |-> {}]

Worker == Execute \/ Gate \/ ListingFails \/ CheckEvidence \/ Finish

Next == Cancel \/ Expire \/ Stop \/ Worker

\* The deadline comes; a child whose context has ended is interrupted, and its
\* output closed five seconds later (WaitDelay); nothing else waits.
Fairness ==
  /\ WF_vars(Expire)
  /\ WF_vars(ctx # "live" /\ ChildEnds)
  /\ WF_vars(pc # "child" /\ Worker)

Spec == Init /\ [][Next]_vars /\ Fairness

-------------------------------------------------------------------------------
(* Properties. *)

Done == pc = "done"

TypeOK ==
  /\ pc \in Steps /\ ctx \in Contexts /\ asked \in BOOLEAN /\ stopped \in BOOLEAN
  /\ child \in Children /\ snapshot \in Contexts
  /\ agent \in Agents /\ text \in {s[2] : s \in Said} \cup {NoText}
  /\ stored \subseteq Wanted(child)
  /\ exec.err \in {"none", "other", "canceled", "expired"} /\ listed \in BOOLEAN
  /\ run.artifacts \subseteq stored
  /\ run.status \in {"running", "succeeded", "partial", "failed", "cancelled"}
  /\ Done => run.status # "running"

\* A child that did everything right.
Perfect(c) ==
  /\ c.err = "none" /\ ~c.truncated /\ Parsed(c) /\ RuntimeStatus(c) = "succeeded"
  /\ c.result = "provider"
  /\ Fits(text, agent) /\ Backed(text, Vouched) /\ text.status = "completed"

\* No way through the executor, the Gate and the evidence check ends a run
\* succeeded that was cut short, truncated, not trusted, not complete by the
\* runtime's or its own account, or whose artifacts are not all stored.
SucceededIsEarned ==
  run.status = "succeeded" => Perfect(child) /\ snapshot = "live" /\ run.artifacts = Wanted(child)

\* A perfect child that ended within its context, with everything it left stored.
Whole == Perfect(child) /\ snapshot = "live" /\ stored = Wanted(child)

\* Once such a child has ended, neither a cancellation nor the deadline nor a stop
\* can reclassify the run, however long its artifacts take to store; only a
\* listing of the run's evidence that fails can, and it is told as that.
CompletedIsKept ==
  Done /\ Whole =>
    IF listed THEN run.status = "succeeded"
    ELSE run.status = "failed" /\ run.code = "agent_output_evidence_invalid"

\* A cancelled run was either asked to be, and its context cancelled (by that
\* request, or by a stop of the service) before its child had ended; or it was
\* cancelled by the runtime, in a context that had not ended.
CancelledIsCaused ==
  run.status = "cancelled" =>
    \/ asked /\ snapshot = "canceled" /\ run.code = "executor_cancelled"
    \/ snapshot = "live" /\ Decoded(child) /\ child.status = "cancelled"
       /\ run.code = "agent_compose_cancelled"

\* What is published as business output, in the run or as the final artifact,
\* is the text of a pinned provider from output that was captured whole; in the
\* run it stands beside the artifact it was stored as and its provenance.
BusinessOutputIsTrusted ==
  /\ run.raw \/ Final \in stored => child.result = "provider" /\ ~child.truncated
  /\ run.raw => Final \in run.artifacts /\ run.provenance

\* An agent's conclusion is accepted only if it is what its contract says, and
\* rests on nothing that no executor vouches for, in whatever field of whatever
\* contract, and the run's evidence could be listed to compare it with; and then
\* `sasctl validate-output' accepts it too.
AcceptedOutputIsBacked ==
  Done /\ run.status \in {"succeeded", "partial"} =>
    run.raw /\ listed /\ Fits(text, agent) /\ Backed(text, Vouched) /\ ParseCode(text, agent) = ""

\* Every execution ends.
ExecutionEnds == <>Done

\* The failure table: a run whose context ended before its child did is told as
\* that, cancelled by a request or failed by a timeout.
ContextEndIsTold ==
  Done =>
    /\ snapshot = "expired" => run.status = "failed" /\ run.code = "executor_timeout"
    /\ snapshot = "canceled" /\ asked => run.status = "cancelled" /\ run.code = "executor_cancelled"

-------------------------------------------------------------------------------
(* What is known at each step: the facts that make the invariants inductive. *)

Codes ==
  {"", "agent_compose_cancelled", "agent_compose_output_truncated", "agent_compose_exit",
   "agent_compose_unavailable", "agent_compose_runtime", "agent_output_empty",
   "agent_output_malformed", "agent_output_contract_invalid", "agent_output_untrusted_claims",
   "agent_output_evidence_invalid", "executor_error", "executor_timeout", "executor_cancelled"}

Records ==
  /\ run \in [status : {"running", "succeeded", "partial", "failed", "cancelled"},
              code : Codes, raw : BOOLEAN, provenance : BOOLEAN, artifacts : SUBSET (1..4)]
  /\ exec \in [err : {"none", "other", "canceled", "expired"},
               status : {"running", "succeeded", "partial", "failed", "cancelled"}, code : Codes]

\* Execute has returned something.
Executed == pc \in {"gate", "evidence", "finish"}

\* The run's result is empty, or all of what was stored.
Published ==
  /\ pc \in {"child", "ended"} => stored = {}
  /\ pc \in {"child", "ended", "store"} => ~run.raw /\ run.artifacts = {}
  /\ pc = "classify" => stored = Wanted(child) /\ run.artifacts = stored
                         /\ run.raw = BusinessOutput(child) /\ run.provenance = Provenance(child)
  /\ run.raw => BusinessOutput(child) /\ run.provenance /\ run.artifacts = stored /\ stored = Wanted(child)
  /\ pc # "done" => run.status = "running"

\* Execute answers without an error only in a live context, with everything stored.
Answered ==
  Executed =>
    /\ exec.status # "running"
    /\ exec.err # "none" => exec.status = "failed" /\ pc = "finish"
    /\ exec.err = "canceled" => snapshot = "canceled"
    /\ exec.err = "none" => snapshot = "live" /\ run.artifacts = Wanted(child) /\ stored = Wanted(child)
                            /\ run.raw = BusinessOutput(child)
    /\ exec.status = "cancelled" => Decoded(child) /\ child.status = "cancelled"
                                    /\ exec.code = "agent_compose_cancelled"

Accepted == run.raw /\ Fits(text, agent) /\ Backed(text, Vouched) /\ ParseCode(text, agent) = ""

\* A claim comes from a child that ended well, and passes the Gate if it is accepted.
Claimed ==
  /\ pc = "gate" /\ exec.status = "succeeded" =>
       child.err = "none" /\ ~child.truncated /\ (Decoded(child) => RuntimeStatus(child) = "succeeded")
  /\ pc \in {"evidence", "finish"} /\ Claims => Accepted
  /\ pc = "finish" /\ Claims => listed
  /\ pc \in {"evidence", "finish"} /\ exec.status = "succeeded" => Perfect(child)

\* Evidence is listed once, after the Gate.
Unlisted == pc \in {"child", "ended", "store", "classify", "gate", "evidence"} => ~listed

\* Nothing stands between such a child and a succeeded run but the listing.
Kept ==
  /\ pc = "classify" => stored = Wanted(child)
  /\ Executed /\ Whole => exec.err = "none"
  /\ pc \in {"gate", "evidence"} /\ Whole => exec.status = "succeeded"
  /\ pc = "finish" /\ Whole =>
       IF listed THEN exec.status = "succeeded"
       ELSE exec.status = "failed" /\ exec.code = "agent_output_evidence_invalid"

IInv ==
  /\ TypeOK /\ Records /\ Published /\ Answered /\ Claimed /\ Unlisted /\ Kept
  /\ SucceededIsEarned /\ CompletedIsKept /\ CancelledIsCaused
  /\ BusinessOutputIsTrusted /\ AcceptedOutputIsBacked
================================================================================
