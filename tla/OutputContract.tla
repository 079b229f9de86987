---------------------------- MODULE OutputContract ----------------------------
(***************************************************************************)
(* validation.Parse and the contracts of the five agents: what a provider's*)
(* final text must be to be accepted, by the Gate and by `sasctl           *)
(* validate-output'.  Of a document only the status and what it says of    *)
(* evidence are kept; whether its other fields have the types, bounds and  *)
(* values of its contract is one bit.                                      *)
(***************************************************************************)
EXTENDS Naturals, Sequences

CONSTANT Ids  \* evidence identifiers

Agents == {"traffic-analysis", "security-report", "compliance-query",
           "event-triage", "attack-path-validation"}

\* The contracts: the statuses, the agents that list evidence and findings,
\* and the fields that refer to evidence or state facts of their own.
Statuses ==
  (Agents \X {"completed", "partial"}) \cup
  {<<"traffic-analysis", "insufficient_evidence">>, <<"security-report", "insufficient_data">>,
   <<"compliance-query", "insufficient_basis">>, <<"event-triage", "insufficient_evidence">>,
   <<"attack-path-validation", "insufficient_evidence">>,
   <<"attack-path-validation", "blocked_by_policy">>}

Evidential == {"traffic-analysis", "event-triage", "attack-path-validation"}

ReferenceFields ==
  {<<"traffic-analysis", "timeline", "evidence_refs">>,
   <<"traffic-analysis", "attack_path", "evidence_refs">>,
   <<"security-report", "metrics", "source_refs">>,
   <<"security-report", "trends", "source_refs">>,
   <<"security-report", "key_events", "source_refs">>,
   <<"compliance-query", "control_gaps", "customer_evidence_refs">>,
   <<"event-triage", "hypotheses", "supporting_evidence">>,
   <<"event-triage", "hypotheses", "contradicting_evidence">>,
   <<"attack-path-validation", "validations", "evidence_refs">>,
   <<"attack-path-validation", "attack_paths.edges", "evidence_refs">>}

ClaimFields == {<<"security-report", "metrics">>, <<"compliance-query", "citations">>}

\* conforms: everything about the document that is not in the other fields, an
\* unknown field or status among it.
Documents ==
  [json : {"empty", "malformed", "other", "object"}, conforms : BOOLEAN,
   status : {s[2] : s \in Statuses} \cup {"none"}, evidence : Seq(Ids),
   cites : SUBSET [at : {f[2] : f \in ReferenceFields}, key : {f[3] : f \in ReferenceFields}, id : Ids],
   findings : SUBSET [severe : BOOLEAN, refs : SUBSET Ids],
   claims : SUBSET {"metrics", "citations"}]

Fits(d, agent) ==
  /\ d.json = "object" /\ d.conforms
  /\ <<agent, d.status>> \in Statuses
  /\ d.evidence # <<>> \/ d.findings # {} => agent \in Evidential
  /\ \A c \in d.cites : <<agent, c.at, c.key>> \in ReferenceFields
  /\ \A f \in d.claims : <<agent, f>> \in ClaimFields

\* Mutation: a key that was not added when its contract was.
ReferenceKeysOfFindings == {"evidence_refs", "supporting_evidence", "contradicting_evidence",
                            "source_refs"}

\* isEvidenceReferenceKey: both walks know a reference by its key, wherever
\* it is; a finding's are under evidence_refs.
ReferenceKeys == {"evidence_refs", "supporting_evidence", "contradicting_evidence",
                  "source_refs", "customer_evidence_refs"}

Listed(d) == {d.evidence[i] : i \in DOMAIN d.evidence}

Referred(d) ==
  {c.id : c \in {c \in d.cites : c.key \in ReferenceKeys}} \cup UNION {f.refs : f \in d.findings}

\* validateTrustedClaims: evidence that no executor vouches for, and facts for
\* which there is no evidence at all.
Untrusted(d, trusted) == ~(Listed(d) \cup Referred(d) \subseteq trusted) \/ d.claims # {}

Unsupported(d) == \E f \in d.findings : f.severe /\ f.refs = {}

\* validateEvidenceIntegrityWithTrusted.
Broken(d, trusted) ==
  \/ \E i, j \in DOMAIN d.evidence : i < j /\ d.evidence[i] = d.evidence[j]
  \/ ~(Referred(d) \subseteq Listed(d) \cup trusted)
  \/ Unsupported(d)

\* parseWithTrusted; Parse alone does not ask who vouches for the evidence.
Code(d, agent, gated, trusted) ==
  IF d.json = "empty" THEN "agent_output_empty"
  ELSE IF d.json = "malformed" THEN "agent_output_malformed"
  ELSE IF ~Fits(d, agent) THEN "agent_output_contract_invalid"
  ELSE IF gated /\ Untrusted(d, trusted) THEN "agent_output_untrusted_claims"
  ELSE IF Broken(d, trusted) THEN "agent_output_evidence_invalid"
  ELSE ""

GateCode(d, agent, trusted) == Code(d, agent, TRUE, trusted)

ParseCode(d, agent) == Code(d, agent, FALSE, {})

\* ValidateResultEvidence: the findings against the evidence stored of the run.
ResultInvalid(d, stored) == Unsupported(d) \/ \E f \in d.findings : ~(f.refs \subseteq stored)

\* What a document rests on has been vouched for, wherever it refers to it.
Backed(d, trusted) ==
  /\ Listed(d) \subseteq trusted
  /\ \A c \in d.cites : c.id \in trusted
  /\ \A f \in d.findings : f.refs \subseteq trusted /\ (f.severe => f.refs # {})
  /\ d.claims = {}
===============================================================================
