----------------------------- MODULE OutcomeProofs -----------------------------
(***************************************************************************)
(* What the Gate accepts, for any documents, and what an execution ends as,*)
(* for anything its child and its provider may leave.  The execution is a  *)
(* pipeline: IInv says what is known at each of its steps, and every       *)
(* invariant of Outcome is what it leaves at the last one.                 *)
(***************************************************************************)
EXTENDS Outcome, TLAPS

\* Every field that a contract takes for references is one the walks know.
LEMMA ReferencesAreWalked ==
  ASSUME NEW a, NEW at, NEW key, <<a, at, key>> \in ReferenceFields
  PROVE  key \in ReferenceKeys
BY DEF ReferenceFields, ReferenceKeys

\* What the Gate accepts is what the agent's contract says and rests only on
\* evidence that was vouched for, in whatever field: no contract has a field
\* for references that validateTrustedClaims does not follow.
THEOREM GateAcceptsOnlyBacked ==
  ASSUME NEW d \in Documents, NEW a, NEW trusted, GateCode(d, a, trusted) = ""
  PROVE  Fits(d, a) /\ Backed(d, trusted) /\ d.json \notin {"empty", "malformed"}
<1>1. Fits(d, a) /\ ~Untrusted(d, trusted) /\ ~Broken(d, trusted) /\ d.json \notin {"empty", "malformed"}
  BY DEF GateCode, Code
<1>2. Listed(d) \subseteq trusted /\ Referred(d) \subseteq trusted /\ d.claims = {}
  BY <1>1 DEF Untrusted
<1>3. ASSUME NEW c \in d.cites PROVE c.id \in trusted
  <2>1. c.key \in ReferenceKeys
    BY <1>1, ReferencesAreWalked DEF Fits
  <2> QED  BY <1>2, <2>1 DEF Referred
<1>4. ASSUME NEW f \in d.findings PROVE f.refs \subseteq trusted /\ (f.severe => f.refs # {})
  <2>1. f.refs \subseteq Referred(d)
    BY DEF Referred
  <2> QED  BY <1>1, <1>2, <2>1 DEF Broken, Unsupported
<1> QED  BY <1>1, <1>2, <1>3, <1>4 DEF Backed

\* The Gate refuses nothing else: a document that fits its contract and rests
\* on vouched evidence alone is accepted, unless it lists an id twice.
THEOREM BackedIsAccepted ==
  ASSUME NEW d \in Documents, NEW a, NEW trusted, Fits(d, a), Backed(d, trusted),
         \A i, j \in DOMAIN d.evidence : i < j => d.evidence[i] # d.evidence[j]
  PROVE  GateCode(d, a, trusted) = ""
<1>1. d.json = "object"
  BY DEF Fits
<1>2. Referred(d) \subseteq trusted
  BY DEF Referred, Backed
<1>3. ~Untrusted(d, trusted)
  BY <1>2 DEF Untrusted, Backed
<1>4. ~Broken(d, trusted)
  BY <1>2 DEF Broken, Unsupported, Backed
<1> QED  BY <1>1, <1>3, <1>4 DEF GateCode, Code

\* `sasctl validate-output' accepts what the Gate accepts of an executor that
\* vouches for nothing.
THEOREM GateImpliesParse ==
  ASSUME NEW d \in Documents, NEW a, GateCode(d, a, {}) = ""
  PROVE  ParseCode(d, a) = ""
BY DEF GateCode, ParseCode, Code

\* Nothing is left to refuse when a document rests on nothing.
LEMMA NothingListed ==
  ASSUME NEW d \in Documents, NEW a, Fits(d, a), Backed(d, Vouched)
  PROVE  /\ GateCode(d, a, Vouched) = ""
         /\ \A evidence : ~ResultInvalid(d, evidence)
<1>1. \A i, j \in DOMAIN d.evidence : i < j => d.evidence[i] # d.evidence[j]
  BY DEF Backed, Listed, Vouched
<1>2. GateCode(d, a, Vouched) = ""
  BY <1>1, BackedIsAccepted
<1>3. ASSUME NEW evidence PROVE ~ResultInvalid(d, evidence)
  BY DEF Backed, ResultInvalid, Unsupported, Vouched
<1> QED  BY <1>2, <1>3

LEMMA NoTextIsADocument == NoText \in Documents /\ NoText.json = "empty"
<1>1. <<>> \in Seq(Ids)
  OBVIOUS
<1> QED  BY <1>1 DEF NoText, Documents

LEMMA TextIsADocument == TypeOK => text \in Documents
BY SaidAssumption, NoTextIsADocument DEF TypeOK

LEMMA WantedTyped == ASSUME NEW c PROVE Wanted(c) \subseteq 1..4
BY DEF Wanted, Envelope, Transcript, Stderr, Final

\* The claims and the text stand once the Gate has passed them.
LEMMA GatePasses ==
  ASSUME TypeOK, GateCode(Output, agent, Vouched) = ""
  PROVE  Accepted
<1>1. Output \in Documents
  BY TextIsADocument, NoTextIsADocument DEF Output
<1>2. Fits(Output, agent) /\ Backed(Output, Vouched) /\ Output.json # "empty"
  BY <1>1, GateAcceptsOnlyBacked
<1>3. run.raw /\ Output = text
  BY <1>2, NoTextIsADocument DEF Output
<1>4. ParseCode(text, agent) = ""
  BY <1>1, <1>3, GateImpliesParse DEF Vouched
<1> QED  BY <1>2, <1>3, <1>4 DEF Accepted

-------------------------------------------------------------------------------
(* The invariant, step by step. *)

Promises ==
  /\ SucceededIsEarned /\ CompletedIsKept /\ CancelledIsCaused
  /\ BusinessOutputIsTrusted /\ AcceptedOutputIsBacked

\* What is known of a child and its text stays known while they do.
LEMMA LeftIsKept ==
  ASSUME UNCHANGED left
  PROVE  /\ Wanted(child)' = Wanted(child) /\ BusinessOutput(child)' = BusinessOutput(child)
         /\ Provenance(child)' = Provenance(child) /\ Perfect(child)' = Perfect(child)
         /\ RuntimeStatus(child)' = RuntimeStatus(child) /\ Decoded(child)' = Decoded(child)
BY DEF left, Perfect, Parsed, RuntimeStatus, Fits, Backed, Listed

LEMMA TrustedChild ==
  ASSUME NEW c
  PROVE  /\ BusinessOutput(c) => c.result = "provider" /\ ~c.truncated /\ Final \in Wanted(c) /\ Provenance(c)
         /\ Final \in Wanted(c) => BusinessOutput(c)
BY DEF BusinessOutput, Wanted, Provenance, Parsed, ExecutionProvenance, Envelope, Transcript, Stderr, Final

LEMMA InitInvariant == Init => IInv
<1>1. ASSUME Init PROVE IInv
  <2>1. TypeOK
    BY <1>1 DEF Init, TypeOK, Steps, Contexts, Children, Agents, Done
  <2>2. Records
    BY <1>1 DEF Init, Records, Codes
  <2> QED  BY <1>1, <2>1, <2>2 DEF Init, IInv, Published, Answered, Claimed, Kept, Unlisted, Executed, Whole,
             SucceededIsEarned, CompletedIsKept, CancelledIsCaused, BusinessOutputIsTrusted,
             AcceptedOutputIsBacked, Done, Final
<1> QED  BY <1>1

\* The surroundings change nothing that is known.
LEMMA SurroundingsKeep ==
  ASSUME IInv, Cancel \/ Expire \/ Stop PROVE IInv'
<1>1. /\ UNCHANGED <<pc, worker, run>> /\ UNCHANGED left /\ ctx' \in Contexts
      /\ asked' \in BOOLEAN /\ stopped' \in BOOLEAN
      /\ (asked => asked') /\ (~stopped' => ~stopped) /\ pc # "done"
  BY DEF Cancel, Expire, Stop, End, worker, IInv, TypeOK, Contexts
<1>2. TypeOK' /\ Records'
  BY <1>1, LeftIsKept DEF IInv, TypeOK, Records, worker, left, Done
<1>3. Published' /\ Answered' /\ Kept' /\ Unlisted'
  BY <1>1, LeftIsKept DEF IInv, Published, Answered, Kept, Unlisted, Executed, Whole, worker, left
<1>4. Accepted' = Accepted
  BY <1>1 DEF worker, left, Accepted, Fits, Backed, Listed, ParseCode, Code, Broken, Referred, Unsupported
<1>5. Claimed'
  BY <1>1, <1>4, LeftIsKept DEF IInv, Claimed, Claims, worker, left
<1>6. Promises'
  BY <1>1, <1>4, LeftIsKept DEF IInv, Promises, Published, SucceededIsEarned, CompletedIsKept, Whole,
       CancelledIsCaused,
       BusinessOutputIsTrusted, AcceptedOutputIsBacked, Accepted, Done, worker, left
<1> QED  BY <1>2, <1>3, <1>5, <1>6 DEF IInv, Promises

\* A step of the worker from one of these steps leaves the run unfinished and
\* its claims unmade.
LEMMA ChildEndsKeeps == ASSUME IInv, ChildEnds PROVE IInv'
<1>1. /\ pc = "child" /\ pc' = "ended"
      /\ UNCHANGED <<ctx, asked, stopped, snapshot, stored, exec, listed, run>>
  BY DEF ChildEnds, At
<1>2. PICK c \in Children : Possible(c) /\ child' = c /\ \E t \in Texts(c) : agent' = t[1] /\ text' = t[2]
  BY DEF ChildEnds, Leave
<1>3. agent' \in Agents /\ text' \in {s[2] : s \in Said} \cup {NoText}
  BY <1>2, SaidAssumption DEF Texts, Agents
<1>4. stored = {} /\ ~run.raw /\ run.artifacts = {} /\ run.status = "running"
  BY <1>1 DEF IInv, Published
<1>5. TypeOK' /\ Records'
  BY <1>1, <1>2, <1>3, <1>4 DEF IInv, TypeOK, Records, Steps, Done
<1>6. Published' /\ Answered' /\ Claimed' /\ Kept' /\ Unlisted'
  BY <1>1, <1>4 DEF IInv, Published, Answered, Claimed, Kept, Unlisted, Executed, Whole
<1>7. Promises'
  BY <1>1, <1>4 DEF Promises, SucceededIsEarned, CompletedIsKept, Whole, CancelledIsCaused,
       BusinessOutputIsTrusted, AcceptedOutputIsBacked, Done
<1> QED  BY <1>5, <1>6, <1>7 DEF IInv, Promises

LEMMA TakeSnapshotKeeps == ASSUME IInv, TakeSnapshot PROVE IInv'
<1>1. /\ pc = "ended" /\ pc' = "store" /\ snapshot' = ctx
      /\ UNCHANGED <<ctx, asked, stopped, stored, exec, listed, run>> /\ UNCHANGED left
  BY DEF TakeSnapshot, At
<1>2. stored = {} /\ ~run.raw /\ run.artifacts = {} /\ run.status = "running"
  BY <1>1 DEF IInv, Published
<1>3. TypeOK' /\ Records'
  BY <1>1, <1>2 DEF IInv, TypeOK, Records, Steps, Done, left
<1>4. Published' /\ Answered' /\ Claimed' /\ Kept' /\ Unlisted'
  BY <1>1, <1>2 DEF IInv, Published, Answered, Claimed, Kept, Unlisted, Executed, Whole
<1>5. Promises'
  BY <1>1, <1>2 DEF Promises, SucceededIsEarned, CompletedIsKept, Whole, CancelledIsCaused,
       BusinessOutputIsTrusted, AcceptedOutputIsBacked, Done
<1> QED  BY <1>3, <1>4, <1>5 DEF IInv, Promises

LEMMA StoreKeeps == ASSUME IInv, NEW a \in 1..4, Store(a) PROVE IInv'
<1>1. /\ pc = "store" /\ pc' = "store" /\ stored' = stored \cup {a} /\ a \in Wanted(child)
      /\ UNCHANGED <<ctx, asked, stopped, snapshot, exec, listed, run>> /\ UNCHANGED left
  BY DEF Store, At, Due
<1>2. ~run.raw /\ run.artifacts = {} /\ run.status = "running"
  BY <1>1 DEF IInv, Published
<1>3. stored' \subseteq Wanted(child)'
  BY <1>1, LeftIsKept DEF IInv, TypeOK
<1>4. TypeOK' /\ Records'
  BY <1>1, <1>2, <1>3 DEF IInv, TypeOK, Records, Done, left
<1>5. Published' /\ Answered' /\ Claimed' /\ Kept' /\ Unlisted'
  BY <1>1, <1>2 DEF IInv, Published, Answered, Claimed, Kept, Unlisted, Executed, Whole
<1>6. Final \in stored' => child'.result = "provider" /\ ~child'.truncated
  BY <1>1, <1>3, TrustedChild, LeftIsKept DEF left
<1>7. Promises'
  BY <1>1, <1>2, <1>6 DEF Promises, SucceededIsEarned, CompletedIsKept, Whole, CancelledIsCaused,
       BusinessOutputIsTrusted, AcceptedOutputIsBacked, Done
<1> QED  BY <1>4, <1>5, <1>7 DEF IInv, Promises

LEMMA AllStoredKeeps == ASSUME IInv, AllStored PROVE IInv'
<1>1. /\ pc = "store" /\ pc' = "classify" /\ stored = Wanted(child)
      /\ run' = [run EXCEPT !.raw = BusinessOutput(child), !.provenance = Provenance(child),
                            !.artifacts = stored]
      /\ UNCHANGED <<ctx, asked, stopped, snapshot, stored, exec, listed>> /\ UNCHANGED left
  BY DEF AllStored, At, worker, left
<1>2. run.status = "running" /\ BusinessOutput(child) \in BOOLEAN /\ Provenance(child) \in BOOLEAN
  BY <1>1 DEF IInv, Published, BusinessOutput, Provenance
<1>3. /\ run'.status = "running" /\ run'.raw = BusinessOutput(child) /\ run'.artifacts = stored
      /\ run'.provenance = Provenance(child) /\ run'.code = run.code
  BY <1>1, <1>2 DEF IInv, Records
<1>4. Records'
  <2>1. stored \in SUBSET (1..4)
    BY <1>1, WantedTyped
  <2> QED  BY <1>1, <1>2, <2>1 DEF IInv, Records
<1>5. TypeOK'
  BY <1>1, <1>3, LeftIsKept DEF IInv, TypeOK, Steps, Done, left
<1>6. Published' /\ Answered' /\ Claimed' /\ Kept' /\ Unlisted'
  BY <1>1, <1>3, LeftIsKept, TrustedChild DEF IInv, Published, Answered, Claimed, Kept, Unlisted,
       Executed, Whole
<1>7. Promises'
  BY <1>1, <1>3, TrustedChild DEF Promises, SucceededIsEarned, CompletedIsKept, Whole, CancelledIsCaused,
       BusinessOutputIsTrusted, AcceptedOutputIsBacked, Done, left
<1> QED  BY <1>4, <1>5, <1>6, <1>7 DEF IInv, Promises

\* Execute returns an error: whatever is known of the child, the run will fail,
\* or be cancelled with its context.
LEMMA ErrorKeeps ==
  ASSUME IInv, NEW err \in {"other", "canceled", "expired"},
         pc \in {"store", "classify"}, Return("finish", err, "failed", ""), listed' = listed,
         run' \in {run, [run EXCEPT !.raw = FALSE, !.provenance = FALSE, !.artifacts = {}]},
         err = "canceled" => snapshot = "canceled",
         Perfect(child) /\ snapshot = "live" => stored # Wanted(child)
  PROVE  IInv'
<1>1. /\ pc' = "finish" /\ exec'.err = err /\ exec'.status = "failed" /\ exec'.code = ""
      /\ UNCHANGED <<ctx, asked, stopped, snapshot, stored, listed>> /\ UNCHANGED left
  BY DEF Return, left
<1>2. /\ run'.status = "running" /\ run'.code = run.code
      /\ run'.raw => run' = run
      /\ run'.artifacts \in {run.artifacts, {}}
  <2>1. run.status = "running"
    BY DEF IInv, Published
  <2>2. run \in [status : {"running", "succeeded", "partial", "failed", "cancelled"},
                 code : Codes, raw : BOOLEAN, provenance : BOOLEAN, artifacts : SUBSET (1..4)]
    BY DEF IInv, Records
  <2>3. CASE run' = run
    BY <2>1, <2>3
  <2>4. CASE run' = [run EXCEPT !.raw = FALSE, !.provenance = FALSE, !.artifacts = {}]
    BY <2>1, <2>2, <2>4
  <2> QED  BY <2>3, <2>4
<1>3. Records'
  BY <1>1, <1>2 DEF IInv, Records, Return, Codes
<1>4. TypeOK'
  BY <1>1, <1>2, LeftIsKept DEF IInv, TypeOK, Steps, Done, left
<1>5. Published' /\ Answered' /\ Claimed' /\ Kept' /\ Unlisted'
  BY <1>1, <1>2, LeftIsKept DEF IInv, Published, Answered, Claimed, Claims, Kept, Unlisted, Executed, Whole
<1>6. Promises'
  BY <1>1, <1>2, LeftIsKept DEF IInv, Promises, SucceededIsEarned, CompletedIsKept, Whole,
       CancelledIsCaused,
       BusinessOutputIsTrusted, AcceptedOutputIsBacked, Done, left
<1> QED  BY <1>3, <1>4, <1>5, <1>6 DEF IInv, Promises

LEMMA StoreFailsKeeps == ASSUME IInv, StoreFails PROVE IInv'
<1>1. pc = "store" /\ Return("finish", "other", "failed", "") /\ listed' = listed /\ run' = run
  BY DEF StoreFails
<1>2. stored # Wanted(child)
  BY DEF StoreFails, Due
<1> QED  BY <1>1, <1>2, ErrorKeeps

LEMMA ContextEndedKeeps == ASSUME IInv, ContextEnded PROVE IInv'
<1>1. pc = "classify" /\ snapshot \in {"canceled", "expired"} /\ run' = run
      /\ Return("finish", snapshot, "failed", "") /\ listed' = listed
  BY DEF ContextEnded, ContextErr, IInv, TypeOK, Contexts
<1> QED  BY <1>1, ErrorKeeps

LEMMA NotStartedKeeps == ASSUME IInv, NotStarted PROVE IInv'
<1>1. pc = "classify" /\ child.err = "other" /\ Return("finish", "other", "failed", "")
      /\ listed' = listed /\ run' = [run EXCEPT !.raw = FALSE, !.provenance = FALSE, !.artifacts = {}]
  BY DEF NotStarted
<1>2. ~Perfect(child)
  BY <1>1 DEF Perfect
<1> QED  BY <1>1, <1>2, ErrorKeeps

\* Execute answers, in a live context: a cancelled answer is the runtime's, and
\* a succeeded one that of a child that ended well.
LEMMA AnswerKeeps ==
  ASSUME IInv, NEW status \in {"succeeded", "partial", "failed", "cancelled"}, NEW code \in Codes,
         pc = "classify", snapshot = "live", Answer(status, code),
         status = "cancelled" => Decoded(child) /\ child.status = "cancelled"
                                 /\ code = "agent_compose_cancelled",
         status = "succeeded" => child.err = "none" /\ ~child.truncated
                                 /\ (Decoded(child) => RuntimeStatus(child) = "succeeded"),
         Perfect(child) => status = "succeeded"
  PROVE  IInv'
<1>1. /\ pc' = "gate" /\ exec' = [err |-> "none", status |-> status, code |-> code]
      /\ UNCHANGED <<ctx, asked, stopped, snapshot, stored, listed, run>> /\ UNCHANGED left
  BY DEF Answer, Return, left
<1>2. /\ stored = Wanted(child) /\ run.artifacts = stored /\ run.raw = BusinessOutput(child)
      /\ run.status = "running"
  BY DEF IInv, Published
<1>3. TypeOK' /\ Records'
  BY <1>1, <1>2, LeftIsKept DEF IInv, TypeOK, Records, Steps, Done, left
<1>4. Published' /\ Answered' /\ Kept' /\ Unlisted'
  BY <1>1, <1>2, LeftIsKept DEF IInv, Published, Answered, Kept, Unlisted, Executed, Whole, left
<1>5. Claimed'
  BY <1>1, LeftIsKept DEF Claimed, left
<1>6. Promises'
  BY <1>1, <1>2, LeftIsKept DEF IInv, Promises, SucceededIsEarned, CompletedIsKept, Whole,
       CancelledIsCaused,
       BusinessOutputIsTrusted, AcceptedOutputIsBacked, Done, left
<1> QED  BY <1>3, <1>4, <1>5, <1>6 DEF IInv, Promises

LEMMA ClassifyKeeps ==
  ASSUME IInv, DaemonCancelled \/ Truncated \/ Exited \/ Completed PROVE IInv'
<1> USE DEF ContextErr
<1>1. CASE DaemonCancelled
  <2>1. /\ pc = "classify" /\ snapshot = "live" /\ Answer("cancelled", "agent_compose_cancelled")
        /\ Decoded(child) /\ child.status = "cancelled" /\ child.err # "none"
    BY <1>1 DEF DaemonCancelled, Cancelled, RuntimeStatus
  <2> QED  BY <2>1, AnswerKeeps DEF Codes, Perfect
<1>2. CASE Truncated
  <2>1. /\ pc = "classify" /\ snapshot = "live" /\ child.truncated
        /\ Answer("failed", "agent_compose_output_truncated")
    BY <1>2 DEF Truncated
  <2> QED  BY <2>1, AnswerKeeps DEF Codes, Perfect
<1>3. CASE Exited
  <2>1. PICK code \in Codes : pc = "classify" /\ snapshot = "live" /\ child.err # "none" /\ Answer("failed", code)
    BY <1>3 DEF Exited, Codes
  <2> QED  BY <2>1, AnswerKeeps DEF Perfect
<1>4. CASE Completed
  <2>1. /\ pc = "classify" /\ snapshot = "live" /\ child.err = "none" /\ ~child.truncated
        /\ Answer(Verdict(child), CodeOf(Verdict(child)))
    BY <1>4 DEF Completed
  <2>2. /\ Verdict(child) \in {"succeeded", "partial", "failed", "cancelled"}
        /\ Verdict(child) = "cancelled" => Decoded(child) /\ child.status = "cancelled"
        /\ Decoded(child) => RuntimeStatus(child) = Verdict(child)
    BY DEF Verdict, RuntimeStatus
  <2>3. CodeOf(Verdict(child)) \in Codes /\ CodeOf("cancelled") = "agent_compose_cancelled"
    BY <2>2 DEF CodeOf, Codes
  <2>4. Perfect(child) => Verdict(child) = "succeeded"
    BY DEF Perfect, Parsed, Verdict
  <2> QED  BY <2>1, <2>2, <2>3, <2>4, AnswerKeeps
<1> QED  BY <1>1, <1>2, <1>3, <1>4

\* Gate and evidence check pass a result on: lowered to failed, or as it is, or
\* as a claim that was accepted.
LEMMA PassOnKeeps ==
  ASSUME IInv, pc \in {"gate", "evidence"}, exec.err = "none",
         NEW next \in {"evidence", "finish"}, NEW status \in {"succeeded", "partial", "failed", "cancelled"},
         NEW code \in Codes, Return(next, "none", status, code), run' = run,
         status = "cancelled" => exec.status = "cancelled" /\ code = exec.code,
         status \in {"succeeded", "partial"} => Accepted,
         status = "succeeded" => Perfect(child),
         listed' \in BOOLEAN, next = "evidence" => listed' = listed,
         next = "finish" /\ status \in {"succeeded", "partial"} => listed',
         Perfect(child) =>
           IF next = "evidence" \/ listed' THEN status = "succeeded"
           ELSE status = "failed" /\ code = "agent_output_evidence_invalid"
  PROVE  IInv'
<1>1. /\ pc' = next /\ exec' = [err |-> "none", status |-> status, code |-> code]
      /\ UNCHANGED <<ctx, asked, stopped, snapshot, stored, run>> /\ UNCHANGED left
  BY DEF Return, left
<1>2. /\ snapshot = "live" /\ stored = Wanted(child) /\ run.artifacts = stored
      /\ run.raw = BusinessOutput(child) /\ run.status = "running"
  BY DEF IInv, Published, Answered, Executed
<1>3. Accepted' = Accepted
  BY <1>1 DEF left, Accepted, Fits, Backed, Listed, ParseCode, Code, Broken, Referred, Unsupported
<1>4. TypeOK' /\ Records'
  BY <1>1, <1>2, LeftIsKept DEF IInv, TypeOK, Records, Steps, Done, left
<1>5. Published' /\ Kept' /\ Unlisted'
  BY <1>1, <1>2, LeftIsKept DEF IInv, Published, Kept, Unlisted, Executed, Whole
<1>6. Answered'
  BY <1>1, <1>2, LeftIsKept DEF IInv, Answered, Executed, left
<1>7. Claimed'
  BY <1>1, <1>3, LeftIsKept DEF Claimed, Claims
<1>8. Promises'
  BY <1>1, <1>2, LeftIsKept DEF IInv, Promises, SucceededIsEarned, CompletedIsKept, Whole,
       CancelledIsCaused,
       BusinessOutputIsTrusted, AcceptedOutputIsBacked, Done, left
<1> QED  BY <1>4, <1>5, <1>6, <1>7, <1>8 DEF IInv, Promises

\* At the Gate and the evidence check a perfect child is whole.
LEMMA PerfectIsWhole ==
  ASSUME IInv, pc \in {"gate", "evidence"}
  PROVE  Perfect(child) => Whole
BY DEF IInv, Answered, Executed, Whole

LEMMA GateCodeTyped == ASSUME NEW d, NEW a, NEW trusted PROVE GateCode(d, a, trusted) \in Codes
BY DEF GateCode, Code, Codes

LEMMA GateKeeps == ASSUME IInv, Gate PROVE IInv'
<1> DEFINE code == GateCode(Output, agent, Vouched)
<1>1. pc = "gate" /\ exec.err = "none" /\ exec.code \in Codes
      /\ exec.status \in {"running", "succeeded", "partial", "failed", "cancelled"}
      /\ listed \in BOOLEAN
  BY DEF Gate, IInv, TypeOK, Answered, Executed, Records
<1>2. run.raw = BusinessOutput(child)
  BY <1>1 DEF IInv, Answered, Executed
<1>3. Perfect(child) => exec.status = "succeeded"
  BY <1>1, PerfectIsWhole DEF IInv, Kept
<1>4. Perfect(child) => Output = text /\ code = "" /\ text.status = "completed"
  <2>1. Perfect(child) => run.raw /\ Fits(text, agent) /\ Backed(text, Vouched) /\ text.status = "completed"
    BY <1>2 DEF Perfect, BusinessOutput
  <2> QED  BY <2>1, NothingListed, TextIsADocument DEF IInv, Output
<1>5. CASE ~Claims /\ Judge(exec.status, exec.code) /\ exec.status # "running"
  <2>1. /\ exec.status \in {"failed", "cancelled"} /\ run' = run /\ listed' = listed
        /\ Return("evidence", "none", exec.status, exec.code)
    BY <1>1, <1>5 DEF Claims, Judge
  <2> QED  BY <1>1, <1>3, <2>1, PassOnKeeps
<1>6. CASE Claims /\ code # "" /\ Judge("failed", code)
  <2>1. Return("evidence", "none", "failed", code) /\ run' = run /\ listed' = listed /\ code \in Codes
    BY <1>6, GateCodeTyped DEF Judge
  <2> QED  BY <1>1, <1>4, <1>6, <2>1, PassOnKeeps
<1>7. CASE Claims /\ code = "" /\ Judge(Constrained(exec.status, StatusFor(text.status)), exec.code)
  <2> DEFINE status == Constrained(exec.status, StatusFor(text.status))
  <2>1. Accepted
    BY <1>7, GatePasses DEF IInv
  <2>2. Return("evidence", "none", status, exec.code) /\ run' = run /\ listed' = listed
    BY <1>7 DEF Judge
  <2>3. /\ status \in {"succeeded", "partial", "failed"}
        /\ status = "succeeded" => exec.status = "succeeded" /\ text.status = "completed"
        /\ exec.status = "succeeded" /\ text.status = "completed" => status = "succeeded"
    BY <1>7 DEF Claims, Constrained, StatusFor
  <2>4. status = "succeeded" => Perfect(child)
    <3>1. exec.status = "succeeded" => child.err = "none" /\ ~child.truncated
            /\ (Decoded(child) => RuntimeStatus(child) = "succeeded")
      BY <1>1 DEF IInv, Claimed
    <3>2. run.raw => Parsed(child) /\ Decoded(child) /\ child.result = "provider"
      BY <1>2 DEF BusinessOutput, Parsed
    <3> QED  BY <2>1, <2>3, <3>1, <3>2 DEF Accepted, Perfect
  <2>5. Perfect(child) => status = "succeeded"
    BY <1>3, <1>4, <2>3
  <2> HIDE DEF status
  <2> QED  BY <1>1, <2>1, <2>2, <2>3, <2>4, <2>5, PassOnKeeps
<1>8. exec.status # "running"
  BY <1>1 DEF IInv, Answered, Executed
<1> QED  BY <1>5, <1>6, <1>7, <1>8 DEF Gate

\* The listing fails: every claim is lowered, and told as what it was lowered for.
LEMMA ListingFailsKeeps == ASSUME IInv, ListingFails PROVE IInv'
<1>1. /\ pc = "evidence" /\ exec.err = "none" /\ run' = run /\ listed' = listed /\ listed \in BOOLEAN
      /\ Return("finish", "none", "failed", "agent_output_evidence_invalid")
  BY DEF ListingFails, IInv, TypeOK, Answered, Executed
<1>2. ~listed
  BY <1>1 DEF IInv, Unlisted
<1> QED  BY <1>1, <1>2, PassOnKeeps DEF Codes

LEMMA CheckEvidenceKeeps == ASSUME IInv, CheckEvidence PROVE IInv'
<1>1. pc = "evidence" /\ exec.err = "none" /\ exec.code \in Codes /\ run' = run /\ listed \in BOOLEAN
      /\ exec.status \in {"succeeded", "partial", "failed", "cancelled"}
  BY DEF CheckEvidence, IInv, TypeOK, Answered, Executed, Records
<1>2. Perfect(child) => exec.status = "succeeded"
  BY <1>1, PerfectIsWhole DEF IInv, Kept
<1>3. /\ exec.status \in {"succeeded", "partial"} => Accepted
      /\ exec.status = "succeeded" => Perfect(child)
  BY <1>1 DEF IInv, Claimed, Claims
<1>4. CASE exec.status = "failed" /\ Return("finish", "none", "failed", exec.code) /\ listed' = listed
  BY <1>1, <1>2, <1>4, PassOnKeeps
<1>5. ASSUME NEW evidence \in SUBSET Ids, listed' = TRUE,
             IF EvidenceInvalid(evidence)
             THEN Return("finish", "none", "failed", "agent_output_evidence_invalid")
             ELSE Return("finish", "none", exec.status, exec.code)
      PROVE  IInv'
  <2>1. Perfect(child) => ~EvidenceInvalid(evidence)
    BY NothingListed, TextIsADocument DEF IInv, Perfect, EvidenceInvalid
  <2>2. CASE EvidenceInvalid(evidence)
    BY <1>1, <1>5, <2>1, <2>2, PassOnKeeps DEF Codes
  <2>3. CASE ~EvidenceInvalid(evidence)
    BY <1>1, <1>2, <1>3, <1>5, <2>3, PassOnKeeps
  <2> QED  BY <2>2, <2>3
<1> QED  BY <1>4, <1>5 DEF CheckEvidence

LEMMA FinishKeeps == ASSUME IInv, Finish PROVE IInv'
<1>1. /\ pc = "finish" /\ pc' = "done" /\ UNCHANGED <<ctx, asked, stopped, snapshot, stored, exec, listed>>
      /\ UNCHANGED left
  BY DEF Finish, At, worker, left
<1>2. /\ exec.err \in {"none", "other", "canceled", "expired"}
      /\ exec.status \in {"succeeded", "partial", "failed", "cancelled"} /\ exec.code \in Codes
      /\ run.status = "running"
  BY <1>1 DEF IInv, Records, Published, Answered, Executed
<1>3. /\ run'.raw = run.raw /\ run'.provenance = run.provenance /\ run'.artifacts = run.artifacts
      /\ run'.status = IF exec.err = "canceled" THEN CancelledStatus ELSE exec.status
      /\ exec.err = "none" => run'.code = exec.code
      /\ exec.err = "canceled" => run'.code = "executor_cancelled"
      /\ run'.code \in Codes
      /\ run' = [run EXCEPT !.status = run'.status, !.code = run'.code]
  <2> DEFINE status == IF exec.err = "canceled" THEN CancelledStatus ELSE exec.status
             code == CASE exec.err = "none" -> exec.code
                       [] exec.err = "other" -> "executor_error"
                       [] exec.err = "expired" -> "executor_timeout"
                       [] exec.err = "canceled" -> "executor_cancelled"
  <2>1. run' = [run EXCEPT !.status = status, !.code = code]
    BY DEF Finish
  <2>2. /\ exec.err = "none" => code = exec.code
        /\ exec.err = "canceled" => code = "executor_cancelled"
        /\ code \in Codes
    <3>1. CASE exec.err = "none"
      BY <3>1, <1>2
    <3>2. CASE exec.err = "other"
      BY <3>2 DEF Codes
    <3>3. CASE exec.err = "expired"
      BY <3>3 DEF Codes
    <3>4. CASE exec.err = "canceled"
      BY <3>4 DEF Codes
    <3> QED  BY <1>2, <3>1, <3>2, <3>3, <3>4
  <2>3. run \in [status : {"running", "succeeded", "partial", "failed", "cancelled"},
                 code : Codes, raw : BOOLEAN, provenance : BOOLEAN, artifacts : SUBSET (1..4)]
    BY DEF IInv, Records
  <2> HIDE DEF status, code
  <2>4. /\ run'.raw = run.raw /\ run'.provenance = run.provenance /\ run'.artifacts = run.artifacts
        /\ run'.status = status /\ run'.code = code
    BY <2>1, <2>3
  <2>5. run' = [run EXCEPT !.status = run'.status, !.code = run'.code]
    BY <2>1, <2>4
  <2> QED  BY <2>2, <2>4, <2>5 DEF status
<1>4. CancelledStatus \in {"cancelled", "failed"} /\ (CancelledStatus = "cancelled" => asked)
  BY DEF CancelledStatus
<1>5. Records'
  <2>1. run \in [status : {"running", "succeeded", "partial", "failed", "cancelled"},
                 code : Codes, raw : BOOLEAN, provenance : BOOLEAN, artifacts : SUBSET (1..4)]
    BY DEF IInv, Records
  <2>2. run'.status \in {"running", "succeeded", "partial", "failed", "cancelled"} /\ run'.code \in Codes
    BY <1>2, <1>3, <1>4
  <2>3. run' \in [status : {"running", "succeeded", "partial", "failed", "cancelled"},
                  code : Codes, raw : BOOLEAN, provenance : BOOLEAN, artifacts : SUBSET (1..4)]
    BY <1>3, <2>1, <2>2
  <2> QED  BY <1>1, <2>3 DEF IInv, Records
<1>6. TypeOK'
  BY <1>1, <1>2, <1>3, <1>4, LeftIsKept DEF IInv, TypeOK, Steps, Done, left
<1>7. Published' /\ Answered' /\ Claimed' /\ Kept' /\ Unlisted'
  BY <1>1, <1>3, LeftIsKept DEF IInv, Published, Answered, Claimed, Kept, Unlisted, Executed, Whole
<1>8. Accepted' = Accepted
  BY <1>1, <1>3 DEF left, Accepted, Fits, Backed, Listed, ParseCode, Code, Broken, Referred, Unsupported
<1>9. exec.err # "none" => exec.status = "failed"
  BY <1>1 DEF IInv, Answered, Executed
<1>10. SucceededIsEarned' /\ CompletedIsKept'
  BY <1>1, <1>2, <1>3, <1>4, <1>9, LeftIsKept DEF IInv, SucceededIsEarned, CompletedIsKept, Claimed,
       Answered, Kept, Executed, Whole
<1>11. CancelledIsCaused'
  BY <1>1, <1>2, <1>3, <1>4, <1>9, LeftIsKept DEF IInv, CancelledIsCaused, Answered, Executed, left
<1>12. BusinessOutputIsTrusted'
  BY <1>1, <1>3 DEF IInv, BusinessOutputIsTrusted, left
<1>13. AcceptedOutputIsBacked'
  BY <1>1, <1>2, <1>3, <1>4, <1>8, <1>9 DEF IInv, AcceptedOutputIsBacked, Accepted, Claimed, Claims
<1> QED  BY <1>5, <1>6, <1>7, <1>10, <1>11, <1>12, <1>13 DEF IInv

LEMMA StepKeeps == IInv /\ [Next]_vars => IInv'
<1> SUFFICES ASSUME IInv, [Next]_vars PROVE IInv'
  OBVIOUS
<1>1. CASE Cancel \/ Expire \/ Stop
  BY <1>1, SurroundingsKeep
<1>2. CASE Execute
  BY <1>2, ChildEndsKeeps, TakeSnapshotKeeps, StoreKeeps, AllStoredKeeps, StoreFailsKeeps,
     ContextEndedKeeps, NotStartedKeeps, ClassifyKeeps DEF Execute
<1>3. CASE Gate \/ ListingFails \/ CheckEvidence \/ Finish
  BY <1>3, GateKeeps, ListingFailsKeeps, CheckEvidenceKeeps, FinishKeeps
<1>4. CASE UNCHANGED vars
  <2>1. UNCHANGED <<pc, ctx, asked, stopped, worker, run>> /\ UNCHANGED left
    BY <1>4 DEF vars, worker
  <2>2. Accepted' = Accepted
    BY <2>1 DEF left, Accepted, Fits, Backed, Listed, ParseCode, Code, Broken, Referred, Unsupported
  <2>3. TypeOK' /\ Records'
    BY <2>1, LeftIsKept DEF IInv, TypeOK, Records, Done, worker, left
  <2>4. Published' /\ Answered' /\ Kept' /\ Unlisted'
    BY <2>1, LeftIsKept DEF IInv, Published, Answered, Kept, Unlisted, Executed, Whole, worker, left
  <2>5. Claimed'
    BY <2>1, <2>2, LeftIsKept DEF IInv, Claimed, Claims, worker, left
  <2>6. Promises'
    BY <2>1, <2>2, LeftIsKept DEF IInv, Promises, SucceededIsEarned, CompletedIsKept, Whole,
         CancelledIsCaused,
       BusinessOutputIsTrusted, AcceptedOutputIsBacked, Accepted, Done, worker, left
  <2> QED  BY <2>3, <2>4, <2>5, <2>6 DEF IInv, Promises
<1> QED  BY <1>1, <1>2, <1>3, <1>4 DEF Next, Worker

LEMMA Invariant == Spec => []IInv
BY InitInvariant, StepKeeps, PTL DEF Spec

\* An execution is well typed, and a run that is done has ended.
THEOREM OutcomeTypeCorrect == Spec => []TypeOK
BY Invariant, PTL DEF IInv

\* No run succeeds whose child was cut short, truncated or not trusted, whose
\* output says less, or whose artifacts are not all stored: for any documents.
THEOREM SuccessIsEarned == Spec => []SucceededIsEarned
BY Invariant, PTL DEF IInv

\* A completed run whose artifacts are stored is not reclassified after its child
\* has ended by anything but a listing of its evidence that fails, and then it is
\* told as that.
THEOREM CompletionIsKept == Spec => []CompletedIsKept
BY Invariant, PTL DEF IInv

\* A cancelled run has its cause: a request and a context cancelled in time, or
\* the runtime.
THEOREM CancellationIsCaused == Spec => []CancelledIsCaused
BY Invariant, PTL DEF IInv

\* Only a pinned provider's whole text is published as business output.
THEOREM OnlyTrustedOutput == Spec => []BusinessOutputIsTrusted
BY Invariant, PTL DEF IInv

\* Every accepted conclusion is its contract's and rests on nothing unvouched.
THEOREM AcceptedIsBacked == Spec => []AcceptedOutputIsBacked
BY Invariant, PTL DEF IInv
================================================================================
