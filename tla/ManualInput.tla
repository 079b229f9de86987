------------------------------ MODULE ManualInput ------------------------------
(***************************************************************************)
(* The input of manual runs (internal/app/input.go) over the evidence      *)
(* store, the artifact store, the input journals and the run files.  A     *)
(* submission writes four files in turn: it validates the artifact, links  *)
(* the journal that reserves the candidate and its evidence id, appends    *)
(* the evidence, and queues the run; any of the steps may fail, and the    *)
(* process may end between any two.  inputMu is held from the first to the *)
(* last, and by uploads, cancellations and public appends.                 *)
(*                                                                         *)
(* All uploads to a run match its manifest, so they have the same bytes;   *)
(* an artifact whose bytes are refused is one more failing step.  A        *)
(* journal stands for itself, the submission it holds and the input it     *)
(* freezes, which are computed from the same three values.                 *)
(***************************************************************************)
EXTENDS EvidenceStore

CONSTANTS Manual,     \* runs whose execution_mode is manual
          InputBody   \* what the evidence of an artifact says

ASSUME ManualAssumption == Manual \subseteq Runs
ASSUME InputAssumption ==
  InputBody \in [Artifacts -> Bodies] /\ \A a \in Artifacts : Cited[InputBody[a]] = {a}

Requests == [run : Manual, artifact : Artifacts]
Journals == [run : Manual, artifact : Artifacts, id : Ids]
Statuses == {"preparing", "queued", "validating", "cancelled", "failed"}
Versions == [status : Statuses, submission : SUBSET Journals]

VARIABLES
  run,          \* the published version of each manual run
  possible,     \* the versions of it a power loss may leave
  journal,      \* the input journals
  keptJournal,  \* those a power loss cannot take back
  claimed,      \* runs a worker has claimed and has yet to check
  at,           \* what the holder of inputMu does next
  target,       \* the submission it works on, if any
  using,        \* the journal it goes by, if any
  accepted,     \* history: submissions answered with the run
  refused       \* the submission just answered with a conflict, if any

runs     == <<run, possible>>
journals == <<journal, keptJournal>>
handler  == <<at, target, using>>
answers  == <<accepted, refused>>
inputVars == <<vars, runs, journals, claimed, handler, answers>>

Points == {"idle", "uploading", "appending", "journal", "artifact", "mint", "linked",
           "register", "registering", "publish"}

\* The evidence a journal reserves.
Record(j) == [run |-> j.run, id |-> j.id, body |-> InputBody[j.artifact]]

JournalsOf(m) == {j \in journal : j.run = m}

-------------------------------------------------------------------------------
(* The run files (module FileStore): a read syncs them, a write either     *)
(* succeeds or is torn; one that fails before its rename has no effect.    *)

SyncRuns == possible' = [m \in Manual |-> {run[m]}]

Write(m, version) ==
  /\ run' = [run EXCEPT ![m] = version]
  /\ \/ possible' = [n \in Manual |-> {run'[n]}] /\ UNCHANGED faults
     \/ possible' = [possible EXCEPT ![m] = @ \cup {version}] /\ Fail

WithStatus(m, s) == [status |-> s, submission |-> run[m].submission]

-------------------------------------------------------------------------------
(* UploadInput, AppendEvidence and CancelRun. *)

Unlock == at' = "idle" /\ target' = {} /\ using' = {}

\* What a handler that is not a submission leaves alone.
NoSubmission == UNCHANGED <<target, using, accepted, journal, claimed>> /\ refused' = {}

UploadInput(a) ==
  /\ at = "idle" /\ RunOf[a] \in Manual
  /\ run[RunOf[a]].status = "preparing" /\ run[RunOf[a]].submission = {}
  /\ PutPublished(a) /\ SyncRuns
  /\ at' = "uploading"
  /\ NoSubmission /\ UNCHANGED <<run, keptJournal>>

UploadEnds ==
  /\ at = "uploading"
  /\ \E a \in Artifacts : PutSynced(a) \/ PutSyncFailed(a)
  /\ at' = "idle"
  /\ NoSubmission /\ UNCHANGED <<runs, keptJournal>>

\* Mutation: the journal of the run itself is the only one looked at.
ReservedInRun(e) == \E j \in journal : j.run = e.run /\ j.id = e.id

\* The scan of AppendEvidence, which syncs the journals it reads.
Reserved(e) == \E j \in journal : j.id = e.id

AppendEvidence(e) ==
  /\ at = "idle" /\ ~Reserved(e)
  /\ Link(e) /\ SyncRuns /\ keptJournal' = journal
  /\ at' = "appending"
  /\ NoSubmission /\ UNCHANGED run

AppendEnds ==
  /\ at = "appending"
  /\ Appended \/ AppendSyncFailed
  /\ at' = "idle"
  /\ NoSubmission /\ UNCHANGED <<runs, keptJournal>>

\* GET of a run's evidence: the run is read first.  No lock is held.
ReadEvidence(e) ==
  /\ SyncRuns /\ Get(e)
  /\ NoSubmission /\ UNCHANGED <<run, keptJournal, at>>

\* Before the executor is invoked (afterwards the input is out of the picture).
CancelRun(m) ==
  /\ open /\ at = "idle"
  /\ run[m].status \in {"preparing", "queued", "validating"}
  /\ Write(m, WithStatus(m, "cancelled"))
  /\ NoSubmission /\ UNCHANGED <<at, keptJournal, open, evidence, artifact, told, crashes>>

-------------------------------------------------------------------------------
(* SubmitRun, step by step. *)

Accept(t)   == Unlock /\ accepted' = accepted \cup {t} /\ refused' = {}
Conflict(t) == Unlock /\ refused' = {t} /\ UNCHANGED accepted
Error       == Unlock /\ refused' = {} /\ UNCHANGED accepted

GoTo(point) == at' = point /\ UNCHANGED <<target, answers>>

\* Mutation: a run that was submitted answers any submission.
AnySubmission(t) == run[t.run].submission # {}

\* The submission of the run is this one.
Replays(t) == \E j \in run[t.run].submission : j.artifact = t.artifact

\* GetRun, and the answer when the run was submitted before or has ended.
SubmitRun(t) ==
  /\ open /\ at = "idle" /\ linked = {}
  /\ SyncRuns
  /\ \/ Replays(t) /\ Accept(t)
     \/ /\ run[t.run].submission # {} \/ run[t.run].status # "preparing"
        /\ ~Replays(t) /\ Conflict(t)
     \/ /\ run[t.run].submission = {} /\ run[t.run].status = "preparing"
        /\ at' = "journal" /\ target' = {t} /\ using' = {} /\ refused' = {} /\ UNCHANGED accepted
  /\ UNCHANGED <<vars, run, journals, claimed>>

\* Any step may fail without an effect: a read, a sync before it, an artifact
\* that is not registered or whose bytes are refused, a write before it is
\* published.
SubmitFails ==
  /\ at \in {"journal", "artifact", "mint", "register", "publish"}
  /\ Error
  /\ UNCHANGED <<vars, runs, journals, claimed>>

\* GetInputJournal syncs what it finds.
ReadJournal ==
  /\ at = "journal"
  /\ \E t \in target :
       \/ /\ JournalsOf(t.run) = {}
          /\ GoTo("artifact") /\ UNCHANGED <<using, journals>>
       \/ \E j \in JournalsOf(t.run) :
            /\ keptJournal' = journal /\ UNCHANGED journal
            /\ \/ j.artifact = t.artifact /\ GoTo("artifact") /\ using' = {j}
               \/ j.artifact # t.artifact /\ Conflict(t)
  /\ UNCHANGED <<vars, runs, claimed>>

\* Mutation: ReadInput does not sync what it reads.
SyncedMetaUnsynced(m) == keptMeta

\* ReadInput syncs the run's directories before it trusts the bytes.
SyncedMeta(m) == keptMeta \cup {a \in metadata : RunOf[a] = m}

ValidateArtifact ==
  /\ at = "artifact"
  /\ \E t \in target :
       /\ t.artifact \in metadata /\ RunOf[t.artifact] = t.run
       /\ keptMeta' = SyncedMeta(t.run)
  /\ GoTo(IF using = {} THEN "mint" ELSE "register") /\ UNCHANGED using
  /\ UNCHANGED <<open, evidence, metadata, putting, told, budget, runs, journals, claimed>>

\* The minted id is nobody's.
Unused(i) == (\A e \in files : e.id # i) /\ (\A j \in journal : j.id # i)

\* Mutation: the journal is only kept in memory.
WriteNoJournal(j) == UNCHANGED journal

WriteJournal(j) == journal' = journal \cup {j}

CreateJournal ==
  /\ at = "mint"
  /\ \E t \in target, i \in Ids :
       /\ Unused(i)
       /\ LET j == [run |-> t.run, artifact |-> t.artifact, id |-> i] IN
            using' = {j} /\ WriteJournal(j)
  /\ GoTo("linked")
  /\ UNCHANGED <<vars, runs, keptJournal, claimed>>

JournalSynced ==
  /\ at = "linked"
  /\ keptJournal' = journal
  /\ GoTo("register")
  /\ UNCHANGED <<vars, runs, journal, using, claimed>>

\* Mutation: the error of the sync is ignored.
JournalSyncIgnored ==
  /\ at = "linked" /\ Fail
  /\ GoTo("register")
  /\ UNCHANGED <<open, evidence, artifact, told, crashes, runs, journals, using, claimed>>

JournalSyncFailed ==
  /\ at = "linked" /\ Fail
  /\ Error
  /\ UNCHANGED <<open, evidence, artifact, told, crashes, runs, journals, claimed>>

\* The record memory has under the run and the id of the journal, if any.
Registered(j) == {e \in known : e.run = j.run /\ e.id = j.id}

Register ==
  /\ at = "register"
  /\ \E j \in using, t \in target :
       \/ Registered(j) = {Record(j)} /\ GoTo("publish") /\ UNCHANGED <<using, vars>>
       \/ Registered(j) = {} /\ Link(Record(j)) /\ GoTo("registering") /\ UNCHANGED using
       \/ /\ \/ Registered(j) \notin {{}, {Record(j)}}
             \/ Registered(j) = {} /\ ~(Fresh(Record(j)) /\ SameBytes(Record(j)))
          /\ Conflict(t) /\ UNCHANGED vars
  /\ UNCHANGED <<runs, journals, claimed>>

RegisterEnds ==
  /\ at = "registering"
  /\ \/ Appended /\ GoTo("publish") /\ UNCHANGED using
     \/ AppendSyncFailed /\ Error
  /\ UNCHANGED <<runs, journals, claimed>>

\* The queued run is its own notification (module RunService).
Publish ==
  /\ at = "publish"
  /\ \E t \in target :
       /\ run[t.run].status = "preparing" /\ run[t.run].submission = {}
       /\ Write(t.run, [status |-> "queued", submission |-> using])
       /\ IF faults' = faults THEN Accept(t) ELSE Error
  /\ UNCHANGED <<open, evidence, artifact, told, crashes, journals, claimed>>

-------------------------------------------------------------------------------
(* The worker: the claim and the check of the frozen input. *)

Claim(m) ==
  /\ open /\ run[m].status = "queued"
  /\ Write(m, WithStatus(m, "validating"))
  /\ claimed' = IF faults' = faults THEN claimed \cup {m} ELSE claimed
  /\ UNCHANGED <<open, evidence, artifact, told, crashes, journals, handler, answers>>

\* checkFrozen of version v, over the records and the artifacts that are there.
Frozen(v, m, records, registered) ==
  \E j \in JournalsOf(m) :
    v.submission = {j} /\ Record(j) \in records /\ j.artifact \in registered /\ RunOf[j.artifact] = m

CheckPasses(m) ==
  /\ m \in claimed /\ Frozen(run[m], m, known, metadata)
  /\ claimed' = claimed \ {m}
  /\ keptJournal' = journal /\ keptMeta' = SyncedMeta(m)
  /\ UNCHANGED <<open, evidence, metadata, putting, told, budget, runs, journal, handler, answers>>

\* It also fails when a read does; a run that was cancelled stays cancelled.
CheckFails(m) ==
  /\ m \in claimed
  /\ claimed' = claimed \ {m}
  /\ IF run[m].status = "validating" THEN Write(m, WithStatus(m, "failed"))
                                     ELSE UNCHANGED <<runs, faults>>
  /\ UNCHANGED <<open, evidence, artifact, told, crashes, journals, handler, answers>>

-------------------------------------------------------------------------------
(* The process. *)

Pending(m) == run[m].status = "queued"

\* Start refuses to serve over a queued run whose input is not as frozen.  (It
\* syncs what it reads, which FrozenInputIsWhole says is durable already.)
Restart ==
  /\ Load
  /\ \A m \in Manual : Pending(m) => Frozen(run[m], m, files, metadata)
  /\ UNCHANGED <<run, journals, claimed, handler, answers>>
  /\ SyncRuns

Dies == claimed' = {} /\ Unlock /\ refused' = {} /\ UNCHANGED accepted

Crash == ProcessCrash /\ Dies /\ UNCHANGED <<runs, journals>>

LosePower ==
  /\ PowerLoss /\ Dies
  /\ run' \in [Manual -> UNION {possible[m] : m \in Manual}]
  /\ \A m \in Manual : run'[m] \in possible[m]
  /\ possible' = [m \in Manual |-> {run'[m]}]
  /\ \E lost \in SUBSET (journal \ keptJournal) : journal' = journal \ lost
  /\ keptJournal' = journal'

-------------------------------------------------------------------------------
InitInput ==
  /\ Init
  /\ run = [m \in Manual |-> [status |-> "preparing", submission |-> {}]]
  /\ possible = [m \in Manual |-> {run[m]}]
  /\ journal = {} /\ keptJournal = {} /\ claimed = {}
  /\ at = "idle" /\ target = {} /\ using = {}
  /\ accepted = {} /\ refused = {}

Submission ==
  \/ \E t \in Requests : SubmitRun(t)
  \/ ReadJournal \/ ValidateArtifact \/ CreateJournal \/ JournalSynced \/ JournalSyncFailed
  \/ Register \/ RegisterEnds \/ Publish \/ SubmitFails

NextInput ==
  \/ \E a \in Artifacts : UploadInput(a)
  \/ \E e \in Records : AppendEvidence(e) \/ ReadEvidence(e)
  \/ UploadEnds \/ AppendEnds
  \/ Submission
  \/ \E m \in Manual : CancelRun(m) \/ Claim(m) \/ CheckPasses(m) \/ CheckFails(m)
  \/ Restart \/ Crash \/ LosePower

SpecInput == InitInput /\ [][NextInput]_inputVars

-------------------------------------------------------------------------------
(* Properties. *)

InputTypeOK ==
  /\ TypeOK
  /\ run \in [Manual -> Versions]
  /\ possible \in [Manual -> SUBSET Versions]
  /\ journal \in SUBSET Journals /\ keptJournal \in SUBSET journal
  /\ claimed \in SUBSET Manual
  /\ at \in Points /\ target \in SUBSET Requests /\ using \in SUBSET journal
  /\ accepted \in SUBSET Requests /\ refused \in SUBSET Requests

\* A run that is queued, or that a power loss may leave queued, has its whole
\* frozen input on disk for good: the journal it was submitted by, the evidence
\* the journal reserves and the artifact's metadata.  So a start never refuses
\* it, and a check only fails when a read does.
FrozenInputIsWhole ==
  \A m \in Manual : \A v \in possible[m] : v.status \in {"queued", "validating"} =>
    Frozen(v, m, durable, keptMeta) /\ v.submission \subseteq keptJournal

\* Nobody else's record has an id that a journal reserves, from any run.
ReservedIdsAreKept == \A j \in journal, e \in files : e.id = j.id => e = Record(j)

\* Whatever failed before, a submission of the journal's candidate is never
\* answered with a conflict while the run is preparing: it resumes.
CandidateResumes ==
  \A t \in refused : run[t.run].status = "preparing" =>
    \A j \in JournalsOf(t.run) : j.artifact # t.artifact

\* All submissions of a run that were accepted name one artifact, which every
\* version of the run that may survive names too.
OneSubmission ==
  \A t \in accepted : \A v \in possible[t.run] :
    v.submission # {} /\ \A j \in v.submission : j.artifact = t.artifact

-------------------------------------------------------------------------------
(* What makes FrozenInputIsWhole and ReservedIdsAreKept inductive. *)

\* A run has one journal, and an id is reserved by one.
JournalsAreUnique ==
  \A j, k \in journal : (j.run = k.run \/ j.id = k.id) => j = k

\* What was published may survive, and memory knows durable records only.
StoresAreSound ==
  /\ \A m \in Manual : run[m] \in possible[m]
  /\ known \subseteq durable

\* A submission past ValidateArtifact has a durable artifact of the run, past
\* JournalSynced a durable journal, and past RegisterEnds a durable record.
HandlerIsSound ==
  /\ \A t, u \in target : t = u
  /\ \A t \in target, j \in using : j.run = t.run /\ j.artifact = t.artifact
  /\ (at \in {"artifact", "mint"} /\ using = {}) =>
       \A t \in target : JournalsOf(t.run) = {}
  /\ at \in {"journal", "mint"} => using = {}
  /\ at \in {"artifact", "register", "registering", "publish"} => using \subseteq keptJournal
  /\ at \in {"mint", "linked", "register", "registering", "publish"} =>
       \A t \in target : t.artifact \in keptMeta /\ RunOf[t.artifact] = t.run
  /\ at \in {"linked", "register", "registering", "publish"} => target # {} /\ using # {}
  /\ at = "registering" => \A j \in using : linked = {Record(j)}
  /\ at = "publish" => \A j \in using : Record(j) \in durable

InputIInv ==
  /\ InputTypeOK /\ JournalsAreUnique /\ StoresAreSound /\ HandlerIsSound
  /\ FrozenInputIsWhole /\ ReservedIdsAreKept
===============================================================================
