------------------------------ MODULE RunCreation ------------------------------
(***************************************************************************)
(* Service.CreateRun over the file store: concurrent and repeated calls    *)
(* with the same request id, manual ones and automatic ones, some of them  *)
(* for another agent or with another input, failing writes, crashes and    *)
(* power losses.                                                           *)
(*                                                                         *)
(* Every call mints a fresh run identifier, so a call and the run it would *)
(* create have one name; a client's retry is another call.                 *)
(***************************************************************************)
EXTENDS FileStore

CONSTANTS AgentOf,  \* the agent each call names
          InputOf,  \* ... and the input, with all else that a caller decides
          Manual    \* the calls with execution_mode manual

ASSUME ManualAssumption == Manual \subseteq Runs

VARIABLES call,   \* where each call is
          reply   \* the run it was answered with, None for an error

callVars == <<call, reply>>
allVars  == <<vars, callVars>>

CallStates == {"new", "create", "writing", "find again", "returned"}

Return(c, r) ==
  /\ call' = [call EXCEPT ![c] = "returned"]
  /\ reply' = [reply EXCEPT ![c] = r]

Continue(c, at) == call' = [call EXCEPT ![c] = at] /\ UNCHANGED reply

\* A digest of the agent and the input.
CreationFingerprint(c) == <<AgentOf[c], InputOf[c]>>

\* Mutation: manual calls are not compared either.
CompatibleByMode(c, r) == c \in Manual <=> r \in Manual

\* compareCreation, which compares nothing of two automatic calls.
Compatible(c, r) ==
  c \in Manual \/ r \in Manual =>
    c \in Manual /\ r \in Manual /\ CreationFingerprint(c) = CreationFingerprint(r)

\* A store operation that fails before it has an effect.
StoreFails == open /\ Fail /\ UNCHANGED <<open, memory, byRequest, busy, step, files, audit, told, crashes>>

-------------------------------------------------------------------------------
FindFirst(c) ==
  LET r == byRequest[KeyOf[c]] IN
  /\ call[c] = "new"
  /\ FindByRequestID(KeyOf[c])
  /\ \/ r = None /\ Continue(c, "create")
     \/ /\ r # None
        /\ Return(c, IF Compatible(c, r) /\ AgentOf[r] = AgentOf[c] THEN r ELSE None)

CreateFresh(c) ==
  /\ call[c] = "create"
  /\ \/ Create(c) /\ Continue(c, "writing")
     \/ Free /\ Exists(c) /\ Continue(c, "find again") /\ UNCHANGED vars

\* Another call has published a run under the key since FindFirst.
FindAgain(c) ==
  LET r == byRequest[KeyOf[c]] IN
  /\ call[c] = "find again"
  /\ FindByRequestID(KeyOf[c])
  /\ Return(c, IF r # None /\ Compatible(c, r) THEN r ELSE None)

\* Any of the three store calls may fail without an effect.
CallFails(c) ==
  /\ call[c] \in {"new", "create", "find again"}
  /\ StoreFails
  /\ Return(c, None)

\* The store goes on with a write: of this call's run, or a later update.
WriteGoesOn ==
  /\ Writer
  /\ IF step' = "idle" /\ call[busy] = "writing"
     THEN Return(busy, IF Audited THEN busy ELSE None)
     ELSE UNCHANGED callVars

\* The other operations of the service on a run that exists.
Elsewhere == (List \/ \E r \in Runs : Update(r) \/ Get(r)) /\ UNCHANGED callVars

\* The process ends: the calls under way are cut off without an answer.
Restarts ==
  /\ Process
  /\ call' = [c \in Runs |-> IF call[c] = "new" \/ open' THEN call[c] ELSE "returned"]
  /\ UNCHANGED reply

InitCreation ==
  /\ Init
  /\ call = [c \in Runs |-> "new"]
  /\ reply = [c \in Runs |-> None]

CreateRun(c) == FindFirst(c) \/ CreateFresh(c) \/ FindAgain(c) \/ CallFails(c)

NextCreation == (\E c \in Runs : CreateRun(c)) \/ WriteGoesOn \/ Elsewhere \/ Restarts

SpecCreation == InitCreation /\ [][NextCreation]_allVars

-------------------------------------------------------------------------------
CreationTypeOK ==
  /\ TypeOK
  /\ call \in [Runs -> CallStates]
  /\ reply \in [Runs -> Runs \cup {None}]

\* All answers to one request id name one run, over lost answers, failed writes,
\* retries and restarts: a run that is there after any restart, that is manual if
\* and only if the caller asked for that, and that has the agent and the input of
\* every manual caller.  (Nothing compares the inputs of automatic callers: one
\* that reuses a request id is answered with the run that has it.)
OneAnswer ==
  \A c \in Runs : reply[c] # None =>
    /\ durable[reply[c]] > 0
    /\ c \in Manual <=> reply[c] \in Manual
    /\ c \in Manual => AgentOf[reply[c]] = AgentOf[c] /\ InputOf[reply[c]] = InputOf[c]
    /\ \A d \in Runs : KeyOf[c] = KeyOf[d] /\ reply[d] # None => reply[c] = reply[d]

\* The data model: different agents cannot share a request id.
AnswerHasAgent == \A c \in Runs : reply[c] # None => AgentOf[reply[c]] = AgentOf[c]
==============================================================================
