------------------------------- MODULE MCOutcome -------------------------------
(* Every child, every moment of a cancellation, a deadline and a stop, and    *)
(* documents that rest on evidence in every way a contract has, or has not.   *)
EXTENDS Outcome, TLC

CONSTANT e  \* an evidence id

Clean == [json |-> "object", conforms |-> TRUE, status |-> "completed", evidence |-> <<>>,
          cites |-> {}, findings |-> {}, claims |-> {}]

Unread == {[Clean EXCEPT !.json = j] : j \in {"malformed", "other"}} \cup {[Clean EXCEPT !.conforms = FALSE]}

Lists == {<<>>, <<e>>, <<e, e>>}

\* Bound: one reference, finding or claim, beside any evidence listed; a metric
\* that refers to evidence is a metric.
Citing ==
  {[Clean EXCEPT !.evidence = l, !.cites = {[at |-> f[2], key |-> f[3], id |-> e]},
                 !.claims = IF f[2] = "metrics" THEN {"metrics"} ELSE {}] :
    l \in Lists, f \in ReferenceFields}

Finding ==
  {[Clean EXCEPT !.evidence = l, !.findings = fs] :
    l \in Lists, fs \in {{}} \cup {{[severe |-> s, refs |-> r]} : s \in BOOLEAN, r \in SUBSET {e}}}

SmallDocuments ==
  Unread \cup Citing \cup Finding
  \cup {[Clean EXCEPT !.claims = {c}] : c \in {"metrics", "citations"}}
  \cup {[Clean EXCEPT !.status = s[2]] : s \in Statuses}

SmallSaid  == Agents \X SmallDocuments
SmallPlain == {"event-triage"} \X {Clean, [Clean EXCEPT !.json = "malformed"]}
================================================================================
