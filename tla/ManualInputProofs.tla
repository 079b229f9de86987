--------------------------- MODULE ManualInputProofs ---------------------------
(***************************************************************************)
(* The frozen input of a queued run is whole and durable, and the ids the  *)
(* journals reserve are kept, for any runs, artifacts, ids, faults and     *)
(* ends of the process.                                                    *)
(*                                                                         *)
(* The evidence store steps under the handlers: StoreStep says what any of *)
(* its steps keeps.  FrozenKept is the heart of the argument: what makes   *)
(* an input whole is durable, and what is durable only grows; so only the  *)
(* step that queues a run, Publish, has to be looked at.                   *)
(***************************************************************************)
EXTENDS ManualInput, EvidenceStoreProofs

USE DEF evidence, artifact, budget, runs, journals, handler, answers

StoreOK == TypeOK /\ known \subseteq durable

\* What no step of the evidence store, and no end of the process, takes back.
Kept == durable \subseteq durable' /\ keptMeta \subseteq keptMeta'

\* Every step of the evidence store keeps it well typed and memory durable, and
\* takes back nothing that was durable.
LEMMA StoreStep == StoreOK /\ [Next]_vars => StoreOK' /\ Kept
  <1> SUFFICES ASSUME StoreOK, [Next]_vars PROVE StoreOK' /\ Kept
    OBVIOUS
  <1> USE BoundsAssumption DEF StoreOK, TypeOK, Kept
  <1>1. ASSUME NEW a \in Artifacts, PutPublished(a) \/ PutSynced(a) \/ PutSyncFailed(a) PROVE StoreOK' /\ Kept
    BY <1>1 DEF PutPublished, PutSynced, PutSyncFailed, Fail
  <1>2. ASSUME NEW e \in Records, Link(e) PROVE StoreOK' /\ Kept
    BY <1>2 DEF Link, WriteImmutable
  <1>3. CASE Appended
    <2>1. PICK e \in linked :
            /\ durable' = durable \cup InDir(files, e.run)
            /\ known' = known \cup {e} /\ told' = told \cup {e} /\ linked' = {}
            /\ UNCHANGED <<open, files, artifact, budget>>
      BY <1>3 DEF Appended
    <2>2. e \in files /\ e \in Records /\ e \in durable' /\ durable \subseteq durable' /\ durable' \subseteq files
      BY <2>1 DEF InDir
    <2> QED  BY <2>1, <2>2
  <1>4. CASE AppendSyncFailed
    BY <1>4 DEF AppendSyncFailed, Fail
  <1>5. ASSUME NEW e \in Records, Get(e) PROVE StoreOK' /\ Kept
    BY <1>5 DEF Get
  <1>6. CASE Load
    <2>1. /\ linked' = linked /\ open' = TRUE /\ known' = files /\ durable' = files
          /\ files' = files /\ told' = told /\ UNCHANGED <<artifact, budget>>
      BY <1>6 DEF Load
    <2> QED  BY <2>1
  <1>7. CASE ProcessCrash
    <2>1. /\ open' = FALSE /\ known' = {} /\ linked' = {} /\ putting' = {} /\ crashes' \in 0..MaxCrashes
          /\ UNCHANGED <<files, durable, metadata, keptMeta, told, faults>>
      BY <1>7 DEF ProcessCrash, End
    <2> QED  BY <2>1
  <1>8. CASE PowerLoss
    <2>1. /\ open' = FALSE /\ known' = {} /\ linked' = {} /\ putting' = {} /\ crashes' \in 0..MaxCrashes
          /\ UNCHANGED <<told, faults>>
      BY <1>8 DEF PowerLoss, End
    <2>2. /\ files' \subseteq files /\ durable' = files' /\ durable \subseteq files'
          /\ metadata' \subseteq metadata /\ keptMeta' = metadata' /\ keptMeta \subseteq metadata'
      BY <1>8 DEF PowerLoss
    <2> QED  BY <2>1, <2>2
  <1>9. CASE UNCHANGED vars
    BY <1>9 DEF vars
  <1> QED
    BY <1>1, <1>2, <1>3, <1>4, <1>5, <1>6, <1>7, <1>8, <1>9 DEF Next

-------------------------------------------------------------------------------
RunsOK == run \in [Manual -> Versions] /\ possible \in [Manual -> SUBSET Versions]
          /\ \A m \in Manual : run[m] \in possible[m]

\* Only the status changes.
LEMMA WithStatusIs ==
  ASSUME RunsOK, NEW m \in Manual, NEW s \in Statuses
  PROVE  WithStatus(m, s) \in Versions /\ WithStatus(m, s).status = s
         /\ WithStatus(m, s).submission = run[m].submission
  BY DEF RunsOK, WithStatus, Versions

\* A write leaves at most one version more to survive.
LEMMA WriteIs ==
  ASSUME RunsOK, NEW m \in Manual, NEW v \in Versions, Write(m, v), faults \in 0..MaxFaults
  PROVE  /\ RunsOK' /\ faults' \in 0..MaxFaults
         /\ \A n \in Manual : possible'[n] \subseteq possible[n] \cup (IF n = m THEN {v} ELSE {})
  <1>1. run' = [run EXCEPT ![m] = v] /\ run' \in [Manual -> Versions]
    BY DEF Write, RunsOK
  <1>2. \A n \in Manual : run'[n] = IF n = m THEN v ELSE run[n]
    BY <1>1 DEF RunsOK
  <1>3. CASE possible' = [n \in Manual |-> {run'[n]}] /\ UNCHANGED faults
    <2>1. possible' \in [Manual -> SUBSET Versions]
      BY <1>1, <1>3
    <2>2. \A n \in Manual : possible'[n] = {run'[n]}
      BY <1>3
    <2> QED  BY <1>1, <1>2, <1>3, <2>1, <2>2 DEF RunsOK
  <1>4. CASE possible' = [possible EXCEPT ![m] = @ \cup {v}] /\ Fail
    <2>1. possible' \in [Manual -> SUBSET Versions]
      BY <1>4 DEF RunsOK
    <2>2. \A n \in Manual : possible'[n] = IF n = m THEN possible[n] \cup {v} ELSE possible[n]
      BY <1>4 DEF RunsOK
    <2>3. faults' \in 0..MaxFaults
      BY <1>4, BoundsAssumption DEF Fail
    <2> QED  BY <1>1, <1>2, <2>1, <2>2, <2>3 DEF RunsOK
  <1> QED  BY <1>3, <1>4 DEF Write

\* A read leaves one.
LEMMA SyncRunsIs ==
  ASSUME RunsOK, SyncRuns, UNCHANGED run
  PROVE  RunsOK' /\ \A n \in Manual : possible'[n] \subseteq possible[n]
  BY DEF RunsOK, SyncRuns

Scheduled == {"queued", "validating"}

\* No scheduled version may survive that was not submitted like one before.
NothingNewScheduled ==
  \A m \in Manual : \A w \in possible'[m] : w.status \in Scheduled =>
    \E v \in possible[m] : v.status \in Scheduled /\ v.submission = w.submission

\* Inputs stay whole as long as what is durable stays and no run is queued.
LEMMA FrozenKept ==
  ASSUME FrozenInputIsWhole, keptJournal \subseteq journal' /\ keptJournal \subseteq keptJournal',
         Kept, NothingNewScheduled
  PROVE  FrozenInputIsWhole'
  <1> SUFFICES ASSUME NEW m \in Manual, NEW w \in possible'[m], w.status \in Scheduled
               PROVE  /\ \E j \in JournalsOf(m)' :
                           /\ w.submission = {j} /\ Record(j) \in durable'
                           /\ j.artifact \in keptMeta' /\ RunOf[j.artifact] = m
                      /\ w.submission \subseteq keptJournal'
    BY DEF FrozenInputIsWhole, Scheduled, Frozen, Record
  <1>1. PICK v \in possible[m] : v.status \in Scheduled /\ v.submission = w.submission
    BY DEF NothingNewScheduled
  <1>2. Frozen(v, m, durable, keptMeta) /\ v.submission \subseteq keptJournal
    BY <1>1 DEF FrozenInputIsWhole, Scheduled
  <1>3. PICK j \in JournalsOf(m) : v.submission = {j} /\ Record(j) \in durable
                                   /\ j.artifact \in keptMeta /\ RunOf[j.artifact] = m
    BY <1>2 DEF Frozen
  <1>4. j \in keptJournal
    BY <1>2, <1>3
  <1>5. j \in JournalsOf(m)'
    BY <1>3, <1>4 DEF JournalsOf
  <1> QED  BY <1>1, <1>2, <1>3, <1>5 DEF Kept

-------------------------------------------------------------------------------
\* Nobody's record gets an id that is reserved, or the record is the journal's.
RecordsKept ==
  \A e \in files' : e \in files \/ \A j \in journal' : e.id = j.id => e = Record(j)

\* What a step other than CreateJournal keeps of the journals and the records.
LEMMA JournalsKept ==
  ASSUME JournalsAreUnique, ReservedIdsAreKept, journal' \subseteq journal, RecordsKept
  PROVE  JournalsAreUnique' /\ ReservedIdsAreKept'
  BY DEF JournalsAreUnique, ReservedIdsAreKept, RecordsKept, Record

\* What the end of the process leaves of the handlers.
LEMMA IdleIsSound ==
  ASSUME at' = "idle", target' = {}, using' = {}
  PROVE  HandlerIsSound'
  BY DEF HandlerIsSound

\* The step of the stores, common to all handlers that take one of theirs.
LEMMA StoreIs == InputIInv /\ [Next]_vars => StoreOK' /\ Kept
  BY StoreStep DEF InputIInv, InputTypeOK, StoresAreSound, StoreOK

\* The typing of runs, store and fault budget that the steps below use.
LEMMA RunsAre == InputIInv => RunsOK /\ StoreOK /\ faults \in 0..MaxFaults
  BY DEF InputIInv, InputTypeOK, StoresAreSound, RunsOK, StoreOK, TypeOK

\* Writing a status that is not scheduled, or one that is over one that was.
LEMMA StatusWritten ==
  ASSUME InputIInv, NEW m \in Manual, NEW s \in Statuses, Write(m, WithStatus(m, s)),
         s \in Scheduled => run[m].status \in Scheduled
  PROVE  RunsOK' /\ faults' \in 0..MaxFaults /\ NothingNewScheduled
  <1>1. RunsOK /\ faults \in 0..MaxFaults
    BY RunsAre
  <1>2. WithStatus(m, s) \in Versions /\ WithStatus(m, s).status = s
        /\ WithStatus(m, s).submission = run[m].submission
    BY <1>1, WithStatusIs
  <1>3. /\ RunsOK' /\ faults' \in 0..MaxFaults
        /\ \A n \in Manual : possible'[n] \subseteq possible[n] \cup (IF n = m THEN {WithStatus(m, s)} ELSE {})
    BY <1>1, <1>2, WriteIs
  <1>4. run[m] \in possible[m]
    BY <1>1 DEF RunsOK
  <1>5. ASSUME NEW n \in Manual, NEW w \in possible'[n], w.status \in Scheduled
        PROVE  \E v \in possible[n] : v.status \in Scheduled /\ v.submission = w.submission
    <2>1. CASE w \in possible[n]
      BY <2>1, <1>5
    <2>2. CASE n = m /\ w = WithStatus(m, s)
      BY <2>2, <1>2, <1>4, <1>5
    <2> QED  BY <2>1, <2>2, <1>3
  <1> QED  BY <1>3, <1>5 DEF NothingNewScheduled

\* Versions that were possible before are no news.
LEMMA NoNews ==
  ASSUME \A n \in Manual : possible'[n] \subseteq possible[n]
  PROVE  NothingNewScheduled
  BY DEF NothingNewScheduled

\* The durable parts of the stores after a step that only adds to what is kept.
LEMMA MetaSynced ==
  ASSUME StoreOK, NEW m \in Manual, keptMeta' = SyncedMeta(m),
         UNCHANGED <<open, evidence, metadata, putting, told, budget>>
  PROVE  StoreOK' /\ Kept
  BY DEF StoreOK, TypeOK, SyncedMeta, Kept

\* A step that leaves the evidence store alone but for the fault budget.
LEMMA OnlyFaults ==
  ASSUME StoreOK, faults' \in 0..MaxFaults,
         UNCHANGED <<open, evidence, artifact, told, crashes>>
  PROVE  StoreOK' /\ Kept
  BY DEF StoreOK, TypeOK, Kept

-------------------------------------------------------------------------------
HandlerTypes ==
  /\ claimed \in SUBSET Manual
  /\ at \in Points /\ target \in SUBSET Requests /\ using \in SUBSET journal
  /\ accepted \in SUBSET Requests /\ refused \in SUBSET Requests

JournalSteps == keptJournal \subseteq keptJournal' /\ keptJournal' \subseteq journal' /\ journal' \subseteq journal

\* What has to be shown of a step that mints no journal and queues no run.
LEMMA Preserved ==
  ASSUME InputIInv, StoreOK', Kept, RunsOK', NothingNewScheduled,
         JournalSteps, RecordsKept, HandlerTypes', HandlerIsSound'
  PROVE  InputIInv'
  <1>1. FrozenInputIsWhole'
    BY FrozenKept DEF InputIInv, JournalSteps
  <1>2. JournalsAreUnique' /\ ReservedIdsAreKept'
    BY JournalsKept DEF InputIInv, JournalSteps
  <1>3. InputTypeOK'
    BY DEF InputIInv, InputTypeOK, StoreOK, RunsOK, JournalSteps, HandlerTypes
  <1>4. StoresAreSound'
    BY DEF StoresAreSound, StoreOK, RunsOK
  <1> QED  BY <1>1, <1>2, <1>3, <1>4 DEF InputIInv

\* A handler that stands still is still sound when more is durable.
LEMMA HandlerKept ==
  ASSUME HandlerIsSound, UNCHANGED <<handler, journal, linked>>, Kept, keptJournal \subseteq keptJournal'
  PROVE  HandlerIsSound'
  BY DEF HandlerIsSound, Kept, JournalsOf, Record

\* Outside of SubmitRun little is asked of a handler.
LEMMA HandlerElsewhere ==
  ASSUME HandlerIsSound, at' \in {"idle", "uploading", "appending"},
         target' = target, using' = using
  PROVE  HandlerIsSound'
  BY DEF HandlerIsSound

\* The parts of the invariant, for citing them one by one.
LEMMA Parts ==
  ASSUME InputIInv
  PROVE  /\ HandlerTypes /\ HandlerIsSound /\ RunsOK /\ StoreOK
         /\ keptJournal \subseteq journal /\ journal \subseteq Journals
         /\ FrozenInputIsWhole /\ JournalsAreUnique /\ ReservedIdsAreKept
  BY RunsAre DEF InputIInv, InputTypeOK, HandlerTypes

\* UploadInput and CancelRun.
LEMMA UploadKeeps ==
  ASSUME InputIInv, NEW a \in Artifacts, UploadInput(a) PROVE InputIInv'
  <1>1. PutPublished(a) /\ SyncRuns /\ at' = "uploading" /\ refused' = {} /\ keptJournal' = keptJournal
        /\ UNCHANGED <<target, using, accepted, journal, claimed, run>>
    BY DEF UploadInput, NoSubmission
  <1>2. StoreOK' /\ Kept /\ files' = files
    BY <1>1, StoreIs DEF Next, PutPublished
  <1>3. RunsOK' /\ NothingNewScheduled
    BY <1>1, Parts, SyncRunsIs, NoNews
  <1>4. HandlerIsSound' /\ HandlerTypes'
    BY <1>1, Parts, HandlerElsewhere DEF HandlerTypes, Points
  <1> QED  BY <1>1, <1>2, <1>3, <1>4, Parts, Preserved DEF JournalSteps, RecordsKept

\* The end of UploadInput: the metadata is synced, or is not.
LEMMA UploadEndKeeps ==
  ASSUME InputIInv, UploadEnds PROVE InputIInv'
  <1>1. at' = "idle" /\ refused' = {} /\ keptJournal' = keptJournal
        /\ UNCHANGED <<target, using, accepted, journal, claimed, run, possible>>
    BY DEF UploadEnds, NoSubmission
  <1>2. PICK a \in Artifacts : PutSynced(a) \/ PutSyncFailed(a)
    BY DEF UploadEnds
  <1>3. StoreOK' /\ Kept /\ files' = files
    BY <1>2, StoreIs DEF Next, PutSynced, PutSyncFailed
  <1>4. RunsOK' /\ NothingNewScheduled
    BY <1>1, Parts, NoNews DEF RunsOK
  <1>5. HandlerIsSound' /\ HandlerTypes'
    BY <1>1, Parts, HandlerElsewhere DEF HandlerTypes, Points
  <1> QED  BY <1>1, <1>3, <1>4, <1>5, Parts, Preserved DEF JournalSteps, RecordsKept

\* CancelRun ends a run that no worker has claimed.
LEMMA CancelKeeps ==
  ASSUME InputIInv, NEW m \in Manual, CancelRun(m) PROVE InputIInv'
  <1>1. Write(m, WithStatus(m, "cancelled")) /\ refused' = {}
        /\ UNCHANGED <<target, using, accepted, journal, claimed, at, keptJournal, open, evidence, artifact, told, crashes>>
    BY DEF CancelRun, NoSubmission
  <1>2. RunsOK' /\ faults' \in 0..MaxFaults /\ NothingNewScheduled
    BY <1>1, StatusWritten DEF Statuses, Scheduled
  <1>3. StoreOK' /\ Kept
    BY <1>1, <1>2, Parts, OnlyFaults
  <1>4. HandlerIsSound' /\ HandlerTypes'
    BY <1>1, <1>3, Parts, HandlerKept DEF HandlerTypes
  <1> QED  BY <1>1, <1>2, <1>3, <1>4, Parts, Preserved DEF JournalSteps, RecordsKept

\* AppendEvidence.
LEMMA AppendKeeps ==
  ASSUME InputIInv, NEW e \in Records, AppendEvidence(e) PROVE InputIInv'
  <1>1. ~Reserved(e) /\ Link(e) /\ SyncRuns /\ keptJournal' = journal /\ at' = "appending" /\ refused' = {}
        /\ UNCHANGED <<target, using, accepted, journal, claimed, run>>
    BY DEF AppendEvidence, NoSubmission
  <1>2. StoreOK' /\ Kept
    BY <1>1, StoreIs DEF Next
  <1>3. RecordsKept
    BY <1>1 DEF RecordsKept, Reserved, Link, WriteImmutable
  <1>4. RunsOK' /\ NothingNewScheduled
    BY <1>1, Parts, SyncRunsIs, NoNews
  <1>5. HandlerIsSound' /\ HandlerTypes'
    BY <1>1, Parts, HandlerElsewhere DEF HandlerTypes, Points
  <1> QED  BY <1>1, <1>2, <1>3, <1>4, <1>5, Parts, Preserved DEF JournalSteps

\* The end of a public AppendEvidence.
LEMMA AppendEndKeeps ==
  ASSUME InputIInv, AppendEnds PROVE InputIInv'
  <1>1. (Appended \/ AppendSyncFailed) /\ at' = "idle" /\ refused' = {} /\ keptJournal' = keptJournal
        /\ UNCHANGED <<target, using, accepted, journal, claimed, run, possible>>
    BY DEF AppendEnds, NoSubmission
  <1>2. StoreOK' /\ Kept /\ files' = files
    BY <1>1, StoreIs DEF Next, Appended, AppendSyncFailed
  <1>3. RunsOK' /\ NothingNewScheduled
    BY <1>1, Parts, NoNews DEF RunsOK
  <1>4. HandlerIsSound' /\ HandlerTypes'
    BY <1>1, Parts, HandlerElsewhere DEF HandlerTypes, Points
  <1> QED  BY <1>1, <1>2, <1>3, <1>4, Parts, Preserved DEF JournalSteps, RecordsKept

\* Reading evidence tells of a record, and syncs the runs.
LEMMA ReadEvidenceKeeps ==
  ASSUME InputIInv, NEW e \in Records, ReadEvidence(e) PROVE InputIInv'
  <1>1. Get(e) /\ SyncRuns /\ refused' = {}
        /\ UNCHANGED <<target, using, accepted, journal, claimed, at, keptJournal, run>>
    BY DEF ReadEvidence, NoSubmission
  <1>2. StoreOK' /\ Kept /\ files' = files /\ linked' = linked
    BY <1>1, StoreIs DEF Next, Get, evidence
  <1>3. RunsOK' /\ NothingNewScheduled
    BY <1>1, Parts, SyncRunsIs, NoNews
  <1>4. HandlerIsSound' /\ HandlerTypes'
    BY <1>1, <1>2, Parts, HandlerKept DEF HandlerTypes
  <1> QED  BY <1>1, <1>2, <1>3, <1>4, Parts, Preserved DEF JournalSteps, RecordsKept

-------------------------------------------------------------------------------
(* SubmitRun, step by step. *)

\* What a step of SubmitRun keeps that touches neither the stores nor the runs.
Quiet == UNCHANGED <<vars, runs, claimed>>

\* Steps that change neither run, journal nor evidence.
LEMMA QuietKeeps ==
  ASSUME InputIInv, Quiet, JournalSteps, HandlerIsSound',
         at' \in Points, target' \in SUBSET Requests, using' \in SUBSET journal',
         accepted' \in SUBSET Requests, refused' \in SUBSET Requests
  PROVE  InputIInv'
  <1>1. StoreOK' /\ Kept /\ RecordsKept
    BY StoreIs DEF Quiet, RecordsKept, vars
  <1>2. RunsOK' /\ NothingNewScheduled
    BY Parts, NoNews DEF Quiet, RunsOK
  <1>3. HandlerTypes'
    BY Parts DEF Quiet, HandlerTypes
  <1> QED  BY <1>1, <1>2, <1>3, Preserved

\* The ways a submission ends.
LEMMA EndIsSound ==
  ASSUME InputIInv, NEW t \in Requests, Accept(t) \/ Conflict(t) \/ Error
  PROVE  /\ HandlerIsSound'
         /\ at' \in Points /\ target' \in SUBSET Requests /\ using' \in SUBSET journal'
         /\ accepted' \in SUBSET Requests /\ refused' \in SUBSET Requests
  <1>1. at' = "idle" /\ target' = {} /\ using' = {}
    BY DEF Accept, Conflict, Error, Unlock
  <1>2. accepted' \in SUBSET Requests /\ refused' \in SUBSET Requests
    BY Parts DEF Accept, Conflict, Error, HandlerTypes
  <1> QED  BY <1>1, <1>2, IdleIsSound DEF Points

\* SubmitRun up to the choice between a new journal and a replay.
LEMMA SubmitKeeps ==
  ASSUME InputIInv, NEW t \in Requests, SubmitRun(t) PROVE InputIInv'
  <1>1. SyncRuns /\ UNCHANGED <<vars, run, journals, claimed>>
    BY DEF SubmitRun
  <1>2. RunsOK' /\ NothingNewScheduled
    BY <1>1, Parts, SyncRunsIs, NoNews
  <1>3. StoreOK' /\ Kept /\ RecordsKept /\ JournalSteps
    BY <1>1, StoreIs, Parts DEF RecordsKept, JournalSteps, vars
  <1>4. CASE Accept(t) \/ Conflict(t)
    <2>1. HandlerIsSound' /\ HandlerTypes'
      BY <1>1, <1>4, EndIsSound, Parts DEF HandlerTypes
    <2> QED  BY <1>2, <1>3, <2>1, Preserved
  <1>5. CASE at' = "journal" /\ target' = {t} /\ using' = {} /\ refused' = {} /\ UNCHANGED accepted
    <2>1. HandlerIsSound'
      BY <1>5 DEF HandlerIsSound
    <2>2. HandlerTypes'
      BY <1>1, <1>5, Parts DEF HandlerTypes, Points
    <2> QED  BY <1>2, <1>3, <2>1, <2>2, Preserved
  <1> QED  BY <1>4, <1>5 DEF SubmitRun

\* SubmitRun gives up, at whatever step.
LEMMA FailKeeps ==
  ASSUME InputIInv, SubmitFails PROVE InputIInv'
  <1>1. Error /\ UNCHANGED <<vars, runs, journals, claimed>>
    BY DEF SubmitFails
  <1>2. /\ HandlerIsSound'
        /\ at' \in Points /\ target' \in SUBSET Requests /\ using' \in SUBSET journal'
        /\ accepted' \in SUBSET Requests /\ refused' \in SUBSET Requests
    BY <1>1, Parts, IdleIsSound DEF Error, Unlock, HandlerTypes, Points
  <1> QED  BY <1>1, <1>2, Parts, QuietKeeps DEF Quiet, JournalSteps

\* SubmitRun finds a journal and syncs it, or finds none.
LEMMA ReadKeeps ==
  ASSUME InputIInv, ReadJournal PROVE InputIInv'
  <1>1. at = "journal" /\ using = {} /\ Quiet
    BY Parts DEF ReadJournal, Quiet, HandlerIsSound
  <1>2. PICK t \in target :
          \/ JournalsOf(t.run) = {} /\ GoTo("artifact") /\ UNCHANGED <<using, journals>>
          \/ \E j \in JournalsOf(t.run) :
               /\ keptJournal' = journal /\ UNCHANGED journal
               /\ \/ j.artifact = t.artifact /\ GoTo("artifact") /\ using' = {j}
                  \/ j.artifact # t.artifact /\ Conflict(t)
    BY DEF ReadJournal
  <1>3. t \in Requests /\ \A u \in target : u = t
    BY Parts DEF HandlerTypes, HandlerIsSound
  <1>4. JournalSteps
    BY <1>2, Parts DEF JournalSteps
  <1>5. CASE JournalsOf(t.run) = {} /\ GoTo("artifact") /\ UNCHANGED <<using, journals>>
    <2>1. HandlerIsSound'
      BY <1>1, <1>3, <1>5 DEF HandlerIsSound, GoTo, JournalsOf
    <2> QED  BY <1>1, <1>4, <1>5, <2>1, Parts, QuietKeeps DEF GoTo, HandlerTypes, Points
  <1>6. ASSUME NEW j \in JournalsOf(t.run), keptJournal' = journal, UNCHANGED journal,
               j.artifact = t.artifact, GoTo("artifact"), using' = {j}
        PROVE  InputIInv'
    <2>1. HandlerIsSound'
      BY <1>3, <1>6 DEF HandlerIsSound, GoTo, JournalsOf
    <2> QED  BY <1>1, <1>4, <1>6, <2>1, Parts, QuietKeeps DEF GoTo, HandlerTypes, Points, JournalsOf
  <1>7. CASE Conflict(t)
    BY <1>1, <1>3, <1>4, <1>7, EndIsSound, QuietKeeps
  <1> QED  BY <1>2, <1>5, <1>6, <1>7

\* validateArtifact leaves the metadata of the submitted artifact durable.
LEMMA ValidateKeeps ==
  ASSUME InputIInv, ValidateArtifact PROVE InputIInv'
  <1>1. at = "artifact" /\ GoTo(IF using = {} THEN "mint" ELSE "register") /\ UNCHANGED using
        /\ UNCHANGED <<open, evidence, metadata, putting, told, budget, runs, journals, claimed>>
    BY DEF ValidateArtifact
  <1>2. PICK t \in target : t.artifact \in metadata /\ RunOf[t.artifact] = t.run /\ keptMeta' = SyncedMeta(t.run)
    BY DEF ValidateArtifact
  <1>3. t \in Requests /\ \A u \in target : u = t
    BY Parts DEF HandlerTypes, HandlerIsSound
  <1>4. StoreOK' /\ Kept
    BY <1>1, <1>2, Parts DEF StoreOK, TypeOK, SyncedMeta, Kept
  <1>5. RunsOK' /\ NothingNewScheduled /\ JournalSteps /\ RecordsKept
    BY <1>1, Parts, NoNews DEF RunsOK, JournalSteps, RecordsKept
  <1>6. HandlerIsSound'
    <2>1. t.artifact \in keptMeta'
      BY <1>2 DEF SyncedMeta
    <2>2. at' = (IF using = {} THEN "mint" ELSE "register") /\ UNCHANGED <<target, using, journal, keptJournal>>
      BY <1>1 DEF GoTo
    <2>3. \A u \in target : u.artifact \in keptMeta' /\ RunOf[u.artifact] = u.run
      BY <1>2, <1>3, <2>1
    <2> QED  BY <1>1, <1>2, <1>3, <2>2, <2>3, Parts DEF HandlerIsSound, JournalsOf
  <1>7. HandlerTypes'
    BY <1>1, Parts DEF HandlerTypes, GoTo, Points
  <1> QED  BY <1>4, <1>5, <1>6, <1>7, Preserved

\* CreateInputJournal publishes a journal under a fresh evidence id.
LEMMA CreateKeeps ==
  ASSUME InputIInv, CreateJournal PROVE InputIInv'
  <1>1. at = "mint" /\ using = {} /\ Quiet /\ keptJournal' = keptJournal /\ GoTo("linked")
    BY Parts DEF CreateJournal, Quiet, HandlerIsSound
  <1>2. PICK t \in target, i \in Ids :
          /\ Unused(i)
          /\ LET j == [run |-> t.run, artifact |-> t.artifact, id |-> i] IN
               using' = {j} /\ WriteJournal(j)
    BY DEF CreateJournal
  <1> DEFINE j == [run |-> t.run, artifact |-> t.artifact, id |-> i]
  <1>3. j \in Journals /\ journal' = journal \cup {j} /\ using' = {j}
    BY <1>2, Parts DEF HandlerTypes, Requests, Journals, WriteJournal
  <1>4. JournalsOf(t.run) = {} /\ t.artifact \in keptMeta /\ \A u \in target : u = t
    BY <1>1, Parts DEF HandlerIsSound
  <1>5. (\A e \in files : e.id # j.id) /\ (\A k \in journal : k.id # j.id /\ k.run # j.run)
    BY <1>2, <1>4 DEF Unused, JournalsOf
  <1>6. StoreOK' /\ Kept /\ files' = files
    BY <1>1, StoreIs DEF Quiet, vars
  <1>7. RunsOK' /\ NothingNewScheduled
    BY <1>1, Parts, NoNews DEF Quiet, RunsOK
  <1>8. FrozenInputIsWhole'
    BY <1>1, <1>3, <1>6, <1>7, Parts, FrozenKept
  <1>9. JournalsAreUnique' /\ ReservedIdsAreKept'
    BY <1>3, <1>5, <1>6, Parts DEF JournalsAreUnique, ReservedIdsAreKept, Record
  <1>10. HandlerIsSound'
    BY <1>1, <1>3, <1>4, <1>6, Parts DEF HandlerIsSound, GoTo, Kept
  <1>11. InputTypeOK'
    BY <1>1, <1>3, <1>6, <1>7, Parts DEF InputTypeOK, StoreOK, RunsOK, HandlerTypes, GoTo, Quiet, Points
  <1>12. StoresAreSound'
    BY <1>6, <1>7 DEF StoresAreSound, StoreOK, RunsOK
  <1> QED  BY <1>8, <1>9, <1>10, <1>11, <1>12 DEF InputIInv

\* The journal's directory is synced, or is not.
LEMMA JournalSyncKeeps ==
  ASSUME InputIInv, JournalSynced \/ JournalSyncFailed PROVE InputIInv'
  <1>1. CASE JournalSynced
    <2>1. at = "linked" /\ keptJournal' = journal /\ GoTo("register") /\ Quiet /\ UNCHANGED <<journal, using>>
      BY <1>1 DEF JournalSynced, Quiet
    <2>2. at' = "register" /\ keptMeta' = keptMeta /\ UNCHANGED <<target, using, journal>>
      BY <2>1 DEF GoTo, Quiet, vars
    <2>3. HandlerIsSound'
      BY <2>1, <2>2, Parts DEF HandlerIsSound, HandlerTypes
    <2> QED  BY <2>1, <2>3, Parts, QuietKeeps DEF JournalSteps, GoTo, HandlerTypes, Points
  <1>2. CASE JournalSyncFailed
    <2>1. Error /\ faults' \in 0..MaxFaults
          /\ UNCHANGED <<open, evidence, artifact, told, crashes, runs, journals, claimed>>
      BY <1>2, RunsAre, BoundsAssumption DEF JournalSyncFailed, Fail
    <2>2. StoreOK' /\ Kept /\ RunsOK' /\ NothingNewScheduled /\ JournalSteps /\ RecordsKept
      BY <2>1, Parts, OnlyFaults, NoNews DEF RunsOK, JournalSteps, RecordsKept
    <2>3. HandlerIsSound' /\ HandlerTypes'
      BY <2>1, Parts, IdleIsSound DEF Error, Unlock, HandlerTypes, Points
    <2> QED  BY <2>2, <2>3, Preserved
  <1> QED  BY <1>1, <1>2

\* The journal's record is written to the evidence store.
LEMMA RegisterKeeps ==
  ASSUME InputIInv, Register PROVE InputIInv'
  <1>1. at = "register" /\ UNCHANGED <<runs, journals, claimed>>
    BY DEF Register
  <1>2. PICK j \in using, t \in target :
          \/ Registered(j) = {Record(j)} /\ GoTo("publish") /\ UNCHANGED <<using, vars>>
          \/ Link(Record(j)) /\ GoTo("registering") /\ UNCHANGED using
          \/ Conflict(t) /\ UNCHANGED vars
    BY DEF Register
  <1>3. /\ j \in journal /\ j \in Journals /\ t \in Requests
        /\ \A k \in using : k = j
        /\ \A u \in target : u = t
    BY Parts DEF HandlerTypes, HandlerIsSound, JournalsAreUnique
  <1>4. JournalSteps /\ RunsOK' /\ NothingNewScheduled
    BY <1>1, Parts, NoNews DEF JournalSteps, RunsOK
  <1>5. CASE Registered(j) = {Record(j)} /\ GoTo("publish") /\ UNCHANGED <<using, vars>>
    <2>1. Record(j) \in durable
      BY <1>5, Parts DEF Registered, StoreOK
    <2>2. /\ at' = "publish" /\ durable' = durable /\ keptMeta' = keptMeta
          /\ UNCHANGED <<target, using, journal, keptJournal>>
      BY <1>1, <1>5 DEF GoTo, vars
    <2>3. \A k \in using' : Record(k)' \in durable'
      BY <1>3, <2>1, <2>2 DEF Record
    <2>4. HandlerIsSound'
      BY <1>1, <2>2, <2>3, Parts DEF HandlerIsSound
    <2> QED  BY <1>1, <1>4, <1>5, <2>4, Parts, QuietKeeps DEF Quiet, GoTo, HandlerTypes, Points
  <1>6. CASE Link(Record(j)) /\ GoTo("registering") /\ UNCHANGED using
    <2>1. Record(j) \in Records
      BY <1>3, ManualAssumption, InputAssumption DEF Record, Records, Journals
    <2>2. StoreOK' /\ Kept
      BY <1>6, <2>1, StoreIs DEF Next
    <2>3. RecordsKept
      <3>1. files' = files \cup {Record(j)}
        BY <1>6 DEF Link, WriteImmutable
      <3>2. \A k \in journal : k.id = j.id => k = j
        BY <1>3, Parts DEF JournalsAreUnique
      <3> QED  BY <1>1, <3>1, <3>2 DEF RecordsKept, Record
    <2>4. HandlerIsSound'
      <3>1. linked' = {Record(j)} /\ keptMeta' = keptMeta
        BY <1>6 DEF Link
      <3>2. at' = "registering" /\ UNCHANGED <<target, using, journal, keptJournal>>
        BY <1>1, <1>6 DEF GoTo
      <3>3. \A k \in using' : linked' = {Record(k)'}
        BY <1>3, <3>1, <3>2 DEF Record
      <3> QED  BY <1>1, <3>1, <3>2, <3>3, Parts DEF HandlerIsSound
    <2>5. HandlerTypes'
      BY <1>1, <1>6, Parts DEF HandlerTypes, GoTo, Points
    <2> QED  BY <1>4, <2>2, <2>3, <2>4, <2>5, Preserved
  <1>7. CASE Conflict(t) /\ UNCHANGED vars
    BY <1>1, <1>3, <1>4, <1>7, EndIsSound, QuietKeeps DEF Quiet
  <1> QED  BY <1>2, <1>5, <1>6, <1>7

\* The record's directory is synced, or is not.
LEMMA RegisterEndKeeps ==
  ASSUME InputIInv, RegisterEnds PROVE InputIInv'
  <1>1. at = "registering" /\ UNCHANGED <<runs, journals, claimed>>
    BY DEF RegisterEnds
  <1>2. StoreOK' /\ Kept /\ files' = files
    BY StoreIs DEF Next, RegisterEnds, Appended, AppendSyncFailed
  <1>3. JournalSteps /\ RunsOK' /\ NothingNewScheduled /\ RecordsKept
    BY <1>1, <1>2, Parts, NoNews DEF JournalSteps, RunsOK, RecordsKept
  <1>4. CASE Appended /\ GoTo("publish") /\ UNCHANGED using
    <2>1. PICK e \in linked : durable' = durable \cup InDir(files, e.run)
      BY <1>4 DEF Appended
    <2>2. e \in durable'
      BY <2>1, Parts DEF StoreOK, TypeOK, InDir
    <2>3. \A j \in using : e = Record(j)
      BY <1>1, <2>1, Parts DEF HandlerIsSound
    <2>4. at' = "publish" /\ UNCHANGED <<target, using, journal, keptJournal>>
      BY <1>1, <1>4 DEF GoTo
    <2>5. \A j \in using' : Record(j)' \in durable'
      BY <2>2, <2>3, <2>4 DEF Record
    <2>6. HandlerIsSound'
      BY <1>1, <1>2, <2>4, <2>5, Parts DEF HandlerIsSound, Kept
    <2>7. HandlerTypes'
      BY <1>1, <1>4, Parts DEF HandlerTypes, GoTo, Points
    <2> QED  BY <1>2, <1>3, <2>6, <2>7, Preserved
  <1>5. CASE Error
    <2>1. HandlerIsSound' /\ HandlerTypes'
      BY <1>1, <1>5, Parts, IdleIsSound DEF Error, Unlock, HandlerTypes, Points
    <2> QED  BY <1>2, <1>3, <2>1, Preserved
  <1> QED  BY <1>4, <1>5 DEF RegisterEnds

\* The one step that queues a run: all of its input is durable by now.
LEMMA PublishKeeps ==
  ASSUME InputIInv, Publish PROVE InputIInv'
  <1>1. at = "publish" /\ UNCHANGED <<open, evidence, artifact, told, crashes, journals, claimed>>
    BY DEF Publish
  <1>2. PICK t \in target :
          /\ Write(t.run, [status |-> "queued", submission |-> using])
          /\ IF faults' = faults THEN Accept(t) ELSE Error
    BY DEF Publish
  <1> DEFINE q == [status |-> "queued", submission |-> using]
  <1>3. PICK j \in using : TRUE
    BY <1>1, Parts DEF HandlerIsSound
  <1>4. /\ using = {j} /\ j \in JournalsOf(t.run) /\ j \in keptJournal
        /\ Record(j) \in durable /\ j.artifact \in keptMeta /\ RunOf[j.artifact] = t.run
    BY <1>1, <1>3, Parts DEF HandlerIsSound, HandlerTypes, JournalsAreUnique, JournalsOf
  <1>5. t \in Requests /\ t.run \in Manual /\ q \in Versions
    BY Parts DEF HandlerTypes, Requests, Versions, Statuses
  <1>6. /\ RunsOK' /\ faults' \in 0..MaxFaults
        /\ \A n \in Manual : possible'[n] \subseteq possible[n] \cup (IF n = t.run THEN {q} ELSE {})
    BY <1>2, <1>5, RunsAre, WriteIs
  <1>7. StoreOK' /\ Kept
    BY <1>1, <1>6, Parts, OnlyFaults
  <1>8. FrozenInputIsWhole'
    <2> SUFFICES ASSUME NEW m \in Manual, NEW w \in possible'[m], w.status \in {"queued", "validating"}
                 PROVE  Frozen(w, m, durable, keptMeta) /\ w.submission \subseteq keptJournal
      BY <1>1 DEF FrozenInputIsWhole, Frozen, JournalsOf, Record
    <2>1. CASE w \in possible[m]
      BY <2>1, Parts DEF FrozenInputIsWhole
    <2>2. CASE m = t.run /\ w = q
      BY <2>2, <1>4 DEF Frozen
    <2> QED  BY <2>1, <2>2, <1>6
  <1>9. JournalsAreUnique' /\ ReservedIdsAreKept'
    BY <1>1, Parts, JournalsKept DEF RecordsKept
  <1>10. HandlerIsSound' /\ HandlerTypes'
    BY <1>1, <1>2, <1>5, Parts, IdleIsSound DEF Accept, Error, Unlock, HandlerTypes, Points
  <1>11. InputTypeOK'
    BY <1>1, <1>6, <1>7, <1>10, Parts DEF InputTypeOK, StoreOK, RunsOK, HandlerTypes
  <1>12. StoresAreSound'
    BY <1>6, <1>7 DEF StoresAreSound, StoreOK, RunsOK
  <1> QED  BY <1>8, <1>9, <1>10, <1>11, <1>12 DEF InputIInv

-------------------------------------------------------------------------------
(* The worker, and the ends of the process. *)

\* A worker claims a queued run.
LEMMA ClaimKeeps ==
  ASSUME InputIInv, NEW m \in Manual, Claim(m) PROVE InputIInv'
  <1>1. Write(m, WithStatus(m, "validating")) /\ run[m].status = "queued"
        /\ claimed' \in SUBSET Manual
        /\ UNCHANGED <<open, evidence, artifact, told, crashes, journals, handler, answers>>
    BY Parts DEF Claim, HandlerTypes
  <1>2. RunsOK' /\ faults' \in 0..MaxFaults /\ NothingNewScheduled
    BY <1>1, StatusWritten DEF Statuses, Scheduled
  <1>3. StoreOK' /\ Kept
    BY <1>1, <1>2, Parts, OnlyFaults
  <1>4. HandlerIsSound' /\ HandlerTypes'
    BY <1>1, <1>3, Parts, HandlerKept DEF HandlerTypes
  <1> QED  BY <1>1, <1>2, <1>3, <1>4, Parts, Preserved DEF JournalSteps, RecordsKept

\* checkFrozen passes, or ends the run as input_integrity_failed.
LEMMA CheckKeeps ==
  ASSUME InputIInv, NEW m \in Manual, CheckPasses(m) \/ CheckFails(m) PROVE InputIInv'
  <1>1. CASE CheckPasses(m)
    <2>1. keptJournal' = journal /\ keptMeta' = SyncedMeta(m) /\ claimed' \subseteq claimed
          /\ UNCHANGED <<open, evidence, metadata, putting, told, budget, runs, journal, handler, answers>>
      BY <1>1 DEF CheckPasses
    <2>2. StoreOK' /\ Kept
      BY <2>1, Parts, MetaSynced
    <2>3. RunsOK' /\ NothingNewScheduled
      BY <2>1, Parts, NoNews DEF RunsOK
    <2>4. HandlerIsSound' /\ HandlerTypes'
      BY <2>1, <2>2, Parts, HandlerKept DEF HandlerTypes
    <2> QED  BY <2>1, <2>2, <2>3, <2>4, Parts, Preserved DEF JournalSteps, RecordsKept
  <1>2. CASE CheckFails(m)
    <2>1. claimed' \subseteq claimed
          /\ UNCHANGED <<open, evidence, artifact, told, crashes, journals, handler, answers>>
      BY <1>2 DEF CheckFails
    <2>2. RunsOK' /\ faults' \in 0..MaxFaults /\ NothingNewScheduled
      <3>1. CASE Write(m, WithStatus(m, "failed"))
        BY <3>1, StatusWritten DEF Statuses, Scheduled
      <3>2. CASE UNCHANGED <<runs, faults>>
        BY <3>2, RunsAre, NoNews DEF RunsOK
      <3> QED  BY <1>2, <3>1, <3>2 DEF CheckFails
    <2>3. StoreOK' /\ Kept
      BY <2>1, <2>2, Parts, OnlyFaults
    <2>4. HandlerIsSound' /\ HandlerTypes'
      BY <2>1, <2>3, Parts, HandlerKept DEF HandlerTypes
    <2> QED  BY <2>1, <2>2, <2>3, <2>4, Parts, Preserved DEF JournalSteps, RecordsKept
  <1> QED  BY <1>1, <1>2

\* A new process loads what is on disk.
LEMMA RestartKeeps ==
  ASSUME InputIInv, Restart PROVE InputIInv'
  <1>1. Load /\ SyncRuns /\ UNCHANGED <<run, journals, claimed, handler, answers>>
    BY DEF Restart
  <1>2. StoreOK' /\ Kept /\ files' = files /\ linked' = linked
    BY <1>1, StoreIs DEF Next, Load
  <1>3. RunsOK' /\ NothingNewScheduled
    BY <1>1, Parts, SyncRunsIs, NoNews
  <1>4. HandlerIsSound' /\ HandlerTypes'
    BY <1>1, <1>2, Parts, HandlerKept DEF HandlerTypes
  <1> QED  BY <1>1, <1>2, <1>3, <1>4, Parts, Preserved DEF JournalSteps, RecordsKept

\* The end of the process, with what it was writing kept or lost.
LEMMA EndKeeps ==
  ASSUME InputIInv, Crash \/ LosePower PROVE InputIInv'
  <1>1. Dies
    BY DEF Crash, LosePower
  <1>2. StoreOK' /\ Kept /\ files' \subseteq files
    <2>1. Next
      BY DEF Crash, LosePower, Next
    <2>2. files' \subseteq files
      BY DEF Crash, LosePower, ProcessCrash, PowerLoss
    <2> QED  BY <2>1, <2>2, StoreIs
  <1>3. RunsOK' /\ NothingNewScheduled
    <2>1. CASE UNCHANGED runs
      BY <2>1, Parts, NoNews DEF RunsOK
    <2>2. CASE LosePower
      <3>1. /\ \A m \in Manual : run'[m] \in possible[m]
            /\ possible' = [m \in Manual |-> {run'[m]}]
            /\ run' \in [Manual -> UNION {possible[m] : m \in Manual}]
        BY <2>2 DEF LosePower
      <3>2. run' \in [Manual -> Versions]
        BY <3>1, Parts DEF RunsOK
      <3>3. RunsOK'
        BY <3>1, <3>2 DEF RunsOK
      <3>4. \A m \in Manual : possible'[m] \subseteq possible[m]
        BY <3>1
      <3> QED  BY <3>3, <3>4, NoNews
    <2> QED  BY <2>1, <2>2 DEF Crash
  <1>4. JournalSteps
    BY Parts DEF Crash, LosePower, JournalSteps
  <1>5. HandlerIsSound' /\ HandlerTypes'
    BY <1>1, Parts, IdleIsSound DEF Dies, Unlock, HandlerTypes, Points
  <1> QED  BY <1>2, <1>3, <1>4, <1>5, Preserved DEF RecordsKept

-------------------------------------------------------------------------------
\* Before the first upload nothing is there.
LEMMA InputInit == InitInput => InputIInv
  <1> SUFFICES ASSUME InitInput PROVE InputIInv
    OBVIOUS
  <1>1. StoreOK
    <2>1. 0 \in 0..MaxFaults /\ 0 \in 0..MaxCrashes
      BY BoundsAssumption
    <2> QED  BY <2>1 DEF InitInput, Init, StoreOK, TypeOK
  <1>2. RunsOK
    BY DEF InitInput, RunsOK, Versions, Statuses
  <1>3. \A m \in Manual : \A v \in possible[m] : v.status = "preparing"
    BY DEF InitInput
  <1>4. HandlerTypes /\ HandlerIsSound
    BY DEF InitInput, HandlerTypes, HandlerIsSound, Points
  <1>5. journal = {} /\ keptJournal = {}
    BY DEF InitInput
  <1>6. InputTypeOK
    BY <1>1, <1>2, <1>4, <1>5 DEF InputTypeOK, StoreOK, RunsOK, HandlerTypes
  <1>7. StoresAreSound
    BY <1>1, <1>2 DEF StoresAreSound, StoreOK, RunsOK
  <1> QED
    BY <1>3, <1>4, <1>5, <1>6, <1>7 DEF InputIInv, FrozenInputIsWhole, JournalsAreUnique, ReservedIdsAreKept

\* Every step keeps InputIInv.
LEMMA InputInductive == InputIInv /\ [NextInput]_inputVars => InputIInv'
  <1> SUFFICES ASSUME InputIInv, [NextInput]_inputVars PROVE InputIInv'
    OBVIOUS
  <1>1. CASE \/ \E a \in Artifacts : UploadInput(a)
             \/ \E e \in Records : AppendEvidence(e) \/ ReadEvidence(e)
             \/ UploadEnds \/ AppendEnds
    BY <1>1, UploadKeeps, AppendKeeps, ReadEvidenceKeeps, UploadEndKeeps, AppendEndKeeps
  <1>2. CASE Submission
    BY <1>2, SubmitKeeps, FailKeeps, ReadKeeps, ValidateKeeps, CreateKeeps, JournalSyncKeeps,
       RegisterKeeps, RegisterEndKeeps, PublishKeeps DEF Submission
  <1>3. CASE \E m \in Manual : CancelRun(m) \/ Claim(m) \/ CheckPasses(m) \/ CheckFails(m)
    BY <1>3, CancelKeeps, ClaimKeeps, CheckKeeps
  <1>4. CASE Restart \/ Crash \/ LosePower
    BY <1>4, RestartKeeps, EndKeeps
  <1>5. CASE UNCHANGED inputVars
    <2>1. Quiet /\ UNCHANGED <<journals, handler, answers>>
      BY <1>5 DEF Quiet, inputVars
    <2>2. Kept /\ linked' = linked
      BY <2>1, StoreIs DEF Quiet, vars
    <2>3. HandlerIsSound'
      BY <2>1, <2>2, Parts, HandlerKept
    <2> QED  BY <2>1, <2>3, Parts, QuietKeeps DEF JournalSteps, HandlerTypes
  <1> QED  BY <1>1, <1>2, <1>3, <1>4, <1>5 DEF NextInput

\* Every state of the manual input is well typed.
THEOREM InputTypeCorrect == SpecInput => []InputTypeOK
  <1>1. InputIInv => InputTypeOK
    BY DEF InputIInv
  <1> QED  BY <1>1, InputInit, InputInductive, PTL DEF SpecInput

\* Whatever fails, and whenever the process or the power ends: a run that is
\* queued has its journal, its evidence and its artifact on disk for good.
THEOREM QueuedInputIsWhole == SpecInput => []FrozenInputIsWhole
  <1>1. InputIInv => FrozenInputIsWhole
    BY DEF InputIInv
  <1> QED  BY <1>1, InputInit, InputInductive, PTL DEF SpecInput

\* No record but the journal's own ever has the id that a journal reserves.
THEOREM ReservationsHold == SpecInput => []ReservedIdsAreKept
  <1>1. InputIInv => ReservedIdsAreKept
    BY DEF InputIInv
  <1> QED  BY <1>1, InputInit, InputInductive, PTL DEF SpecInput

(***************************************************************************)
(* What SubmitRun answers.  An answer speaks of versions that are already  *)
(* there: a replay of one that survives anything, a conflict of a run that *)
(* has another candidate or none left to take.                             *)
(***************************************************************************)

\* A version is submitted for one artifact, by the step that queued it.
SubmittedOnce ==
  \A m \in Manual : \A v \in possible[m] :
    /\ v.status = "preparing" => v.submission = {}
    /\ \A j, k \in v.submission : j.artifact = k.artifact

\* A conflict is answered by the handler that found it, before the next one.
AnsweredFirst == at # "idle" => refused = {}

Answers == SubmittedOnce /\ AnsweredFirst /\ CandidateResumes /\ OneSubmission

\* No version may survive that was not submitted, or is not, like one before.
NothingSubmitted ==
  \A m \in Manual : \A w \in possible'[m] : \E v \in possible[m] :
    /\ w.submission = v.submission
    /\ w.status = "preparing" => v.status = "preparing"

\* The answers stay true as long as no run is submitted.
LEMMA AnswersKept ==
  ASSUME Answers, NothingSubmitted, accepted' = accepted, accepted \subseteq Requests,
         refused \subseteq Requests,
         \/ refused' = {}
         \/ /\ refused' = refused /\ at' = at /\ journal' = journal
            /\ \A m \in Manual : run'[m].status = "preparing" => run[m].status = "preparing"
  PROVE  Answers'
  <1>1. SubmittedOnce'
    BY DEF Answers, SubmittedOnce, NothingSubmitted
  <1>2. OneSubmission'
    BY DEF Answers, OneSubmission, NothingSubmitted, Requests
  <1>3. AnsweredFirst' /\ CandidateResumes'
    BY DEF Answers, AnsweredFirst, CandidateResumes, JournalsOf, Requests
  <1> QED  BY <1>1, <1>2, <1>3 DEF Answers

\* A status other than preparing is no submission.
LEMMA StatusSubmitsNothing ==
  ASSUME InputIInv, NEW m \in Manual, NEW s \in Statuses \ {"preparing"}, Write(m, WithStatus(m, s))
  PROVE  /\ NothingSubmitted
         /\ \A n \in Manual : run'[n].status = "preparing" => run[n].status = "preparing"
  <1>1. RunsOK /\ faults \in 0..MaxFaults
    BY RunsAre
  <1>2. WithStatus(m, s) \in Versions /\ WithStatus(m, s).status = s
        /\ WithStatus(m, s).submission = run[m].submission
    BY <1>1, WithStatusIs
  <1>3. \A n \in Manual : possible'[n] \subseteq possible[n] \cup (IF n = m THEN {WithStatus(m, s)} ELSE {})
    BY <1>1, <1>2, WriteIs
  <1>4. run[m] \in possible[m]
    BY <1>1 DEF RunsOK
  <1>5. ASSUME NEW n \in Manual, NEW w \in possible'[n]
        PROVE  \E v \in possible[n] : /\ w.submission = v.submission
                                      /\ w.status = "preparing" => v.status = "preparing"
    <2>1. CASE w \in possible[n]
      BY <2>1
    <2>2. CASE n = m /\ w = WithStatus(m, s)
      BY <2>2, <1>2, <1>4
    <2> QED  BY <2>1, <2>2, <1>3
  <1>6. run' = [run EXCEPT ![m] = WithStatus(m, s)]
    BY DEF Write
  <1> QED  BY <1>1, <1>2, <1>5, <1>6 DEF NothingSubmitted, RunsOK

\* Nor is a sync, or any loss of a version.
LEMMA NothingMore ==
  ASSUME \A n \in Manual : possible'[n] \subseteq possible[n]
  PROVE  NothingSubmitted
  BY DEF NothingSubmitted

\* SubmitRun answers from the version it has read and synced.
LEMMA SubmitAnswers ==
  ASSUME InputIInv, Answers, NEW t \in Requests, SubmitRun(t) PROVE Answers'
  <1>1. /\ SyncRuns /\ UNCHANGED <<run, journal>> /\ t.run \in Manual
        /\ \A m \in Manual : run[m] \in possible[m] /\ possible'[m] = {run[m]}
        /\ accepted \subseteq Requests /\ refused \subseteq Requests
    BY Parts DEF SubmitRun, SyncRuns, RunsOK, Requests, HandlerTypes
  <1>2. NothingSubmitted
    BY <1>1 DEF NothingSubmitted
  <1>3. CASE Replays(t) /\ Accept(t)
    <2>1. SubmittedOnce' /\ AnsweredFirst' /\ CandidateResumes'
      BY <1>1, <1>3 DEF Answers, SubmittedOnce, AnsweredFirst, CandidateResumes, Accept, Unlock
    <2>2. \A v \in possible'[t.run] : v.submission # {} /\ \A j \in v.submission : j.artifact = t.artifact
      BY <1>1, <1>3 DEF Replays, Answers, SubmittedOnce
    <2>3. \A u \in accepted : \A v \in possible'[u.run] : v.submission # {} /\ \A j \in v.submission : j.artifact = u.artifact
      BY <1>1 DEF Answers, OneSubmission, Requests
    <2>4. accepted' = accepted \cup {t}
      BY <1>3 DEF Accept
    <2> QED  BY <2>1, <2>2, <2>3, <2>4 DEF Answers, OneSubmission
  <1>4. CASE (run[t.run].submission # {} \/ run[t.run].status # "preparing") /\ Conflict(t)
    <2>1. run[t.run].status # "preparing"
      BY <1>1, <1>4 DEF Answers, SubmittedOnce
    <2>2. refused' = {t} /\ at' = "idle" /\ accepted' = accepted
      BY <1>4 DEF Conflict, Unlock
    <2>3. CandidateResumes' /\ AnsweredFirst'
      BY <1>1, <2>1, <2>2 DEF CandidateResumes, AnsweredFirst
    <2>4. SubmittedOnce' /\ OneSubmission'
      BY <1>1, <2>2 DEF Answers, SubmittedOnce, OneSubmission, Requests
    <2> QED  BY <2>3, <2>4 DEF Answers
  <1>5. CASE refused' = {} /\ UNCHANGED accepted
    BY <1>1, <1>2, <1>5, AnswersKept
  <1> QED  BY <1>3, <1>4, <1>5 DEF SubmitRun

\* A run has one journal: the one that ReadJournal finds names another artifact,
\* and so does every other.
LEMMA ReadAnswers ==
  ASSUME InputIInv, Answers, ReadJournal PROVE Answers'
  <1>1. at = "journal" /\ UNCHANGED runs /\ JournalsAreUnique /\ refused = {}
    BY Parts DEF ReadJournal, Answers, AnsweredFirst
  <1>2. accepted' = accepted /\ accepted \subseteq Requests /\ NothingSubmitted
    BY <1>1, Parts DEF ReadJournal, GoTo, Conflict, HandlerTypes, NothingSubmitted
  <1>3. PICK t \in target :
          \/ GoTo("artifact")
          \/ \E j \in JournalsOf(t.run) : journal' = journal /\ j.artifact # t.artifact /\ Conflict(t)
    BY DEF ReadJournal
  <1>4. CASE GoTo("artifact")
    BY <1>1, <1>2, <1>4, AnswersKept DEF GoTo
  <1>5. ASSUME NEW j \in JournalsOf(t.run), journal' = journal, j.artifact # t.artifact, Conflict(t)
        PROVE  Answers'
    <2>1. at' = "idle" /\ refused' = {t}
      BY <1>5 DEF Conflict, Unlock
    <2>2. \A k \in JournalsOf(t.run) : k = j
      BY <1>1, <1>5 DEF JournalsOf, JournalsAreUnique
    <2>3. CandidateResumes' /\ AnsweredFirst'
      BY <1>5, <2>1, <2>2 DEF CandidateResumes, AnsweredFirst, JournalsOf
    <2>4. SubmittedOnce' /\ OneSubmission'
      BY <1>1, <1>2 DEF Answers, SubmittedOnce, OneSubmission, Requests
    <2> QED  BY <2>3, <2>4 DEF Answers
  <1> QED  BY <1>3, <1>4, <1>5

\* The evidence of a journal is never in conflict: its id is nobody else's.
LEMMA NoConflictHere ==
  ASSUME InputIInv, NEW j \in journal
  PROVE  /\ Registered(j) \in {{}, {Record(j)}}
         /\ Registered(j) = {} => Fresh(Record(j)) /\ SameBytes(Record(j))
  <1>1. known \subseteq files /\ ReservedIdsAreKept
    BY Parts DEF StoreOK, TypeOK
  <1>2. Record(j).run = j.run /\ Record(j).id = j.id
    BY DEF Record
  <1>3. \A e \in files : e.id = j.id => e = Record(j)
    BY <1>1 DEF ReservedIdsAreKept
  <1> QED  BY <1>1, <1>2, <1>3 DEF Registered, Fresh, SameBytes, SameName

\* The steps from the journal to the evidence answer nothing but errors.
LEMMA StepAnswers ==
  ASSUME InputIInv, Answers,
         \/ ValidateArtifact \/ CreateJournal \/ JournalSynced \/ JournalSyncFailed
         \/ Register \/ RegisterEnds \/ SubmitFails
  PROVE  Answers'
  <1>1. at # "idle" /\ UNCHANGED runs
    BY DEF ValidateArtifact, CreateJournal, JournalSynced, JournalSyncFailed, Register, RegisterEnds,
           SubmitFails
  <1>2. refused = {} /\ accepted \subseteq Requests /\ NothingSubmitted
    BY <1>1, Parts DEF Answers, AnsweredFirst, HandlerTypes, NothingSubmitted
  <1>3. CASE GoTo("mint") \/ GoTo("register") \/ GoTo("linked") \/ GoTo("registering") \/ GoTo("publish") \/ Error
    BY <1>2, <1>3, AnswersKept DEF GoTo, Error
  <1>4. CASE Register
    <2>1. PICK j \in using : \/ GoTo("publish") \/ GoTo("registering")
                             \/ Registered(j) \notin {{}, {Record(j)}}
                             \/ Registered(j) = {} /\ ~(Fresh(Record(j)) /\ SameBytes(Record(j)))
      BY <1>4 DEF Register
    <2>2. j \in journal
      BY Parts DEF HandlerTypes
    <2> QED  BY <1>3, <2>1, <2>2, NoConflictHere
  <1> QED
    BY <1>3, <1>4 DEF ValidateArtifact, CreateJournal, JournalSynced, JournalSyncFailed, RegisterEnds, SubmitFails

\* Publish accepts the first submission of its run: no earlier one was accepted
\* while a version without a submission might survive.
LEMMA PublishAnswers ==
  ASSUME InputIInv, Answers, Publish PROVE Answers'
  <1>1. at = "publish" /\ UNCHANGED journal
    BY DEF Publish
  <1>2. PICK t \in target :
          /\ run[t.run].submission = {}
          /\ Write(t.run, [status |-> "queued", submission |-> using])
          /\ IF faults' = faults THEN Accept(t) ELSE Error
    BY DEF Publish
  <1> DEFINE q == [status |-> "queued", submission |-> using]
  <1>3. /\ t \in Requests /\ t.run \in Manual /\ q \in Versions
        /\ using # {} /\ \A j \in using : j.artifact = t.artifact
        /\ accepted \subseteq Requests
    BY <1>1, Parts DEF HandlerTypes, HandlerIsSound, Requests, Versions, Statuses
  <1>4. /\ \A n \in Manual : possible'[n] \subseteq possible[n] \cup (IF n = t.run THEN {q} ELSE {})
        /\ \A n \in Manual : run[n] \in possible[n]
    BY <1>2, <1>3, RunsAre, WriteIs DEF RunsOK
  <1>5. \A u \in accepted : u.run # t.run
    BY <1>2, <1>3, <1>4 DEF Answers, OneSubmission
  <1>6. SubmittedOnce'
    <2> SUFFICES ASSUME NEW m \in Manual, NEW w \in possible'[m]
                 PROVE  /\ w.status = "preparing" => w.submission = {}
                        /\ \A j, k \in w.submission : j.artifact = k.artifact
      BY DEF SubmittedOnce
    <2>1. CASE w \in possible[m]
      BY <2>1 DEF Answers, SubmittedOnce
    <2>2. CASE w = q
      BY <2>2, <1>3
    <2> QED  BY <1>4, <2>1, <2>2
  <1>7. AnsweredFirst' /\ CandidateResumes' /\ accepted' \subseteq accepted \cup {t}
    BY <1>2 DEF AnsweredFirst, CandidateResumes, Accept, Error, Unlock
  <1>8. OneSubmission'
    <2>1. \A u \in accepted : \A v \in possible'[u.run] : v.submission # {} /\ \A j \in v.submission : j.artifact = u.artifact
      BY <1>3, <1>4, <1>5 DEF Answers, OneSubmission, Requests
    <2>2. CASE faults' = faults
      <3>1. possible' = [n \in Manual |-> {run'[n]}] /\ run' = [run EXCEPT ![t.run] = q]
        BY <1>2, <2>2, RunsAre DEF Write, Fail
      <3>2. possible'[t.run] = {q}
        BY <1>3, <3>1, Parts DEF RunsOK
      <3> QED  BY <1>3, <1>7, <2>1, <3>2 DEF OneSubmission
    <2>3. CASE faults' # faults
      BY <1>2, <2>1, <2>3 DEF OneSubmission, Error
    <2> QED  BY <2>2, <2>3
  <1> QED  BY <1>6, <1>7, <1>8 DEF Answers

\* Every step of the input keeps the answers true.
LEMMA AnswersInductive == InputIInv /\ Answers /\ [NextInput]_inputVars => Answers'
  <1> SUFFICES ASSUME InputIInv, Answers, [NextInput]_inputVars PROVE Answers'
    OBVIOUS
  <1>0. accepted \subseteq Requests /\ refused \subseteq Requests
    BY Parts DEF HandlerTypes
  <1>1. CASE \/ \E a \in Artifacts : UploadInput(a)
             \/ \E e \in Records : AppendEvidence(e) \/ ReadEvidence(e)
             \/ UploadEnds \/ AppendEnds
    <2>1. accepted' = accepted /\ refused' = {} /\ UNCHANGED run /\ (SyncRuns \/ UNCHANGED possible)
      BY <1>1 DEF UploadInput, AppendEvidence, ReadEvidence, UploadEnds, AppendEnds, NoSubmission
    <2>2. NothingSubmitted
      BY <2>1, Parts, SyncRunsIs, NothingMore
    <2> QED  BY <1>0, <2>1, <2>2, AnswersKept
  <1>2. CASE Submission
    BY <1>2, SubmitAnswers, ReadAnswers, StepAnswers, PublishAnswers DEF Submission
  <1>3. ASSUME NEW m \in Manual, CancelRun(m) PROVE Answers'
    <2>1. accepted' = accepted /\ refused' = {} /\ Write(m, WithStatus(m, "cancelled"))
      BY <1>3 DEF CancelRun, NoSubmission
    <2>2. NothingSubmitted
      BY <2>1, StatusSubmitsNothing DEF Statuses
    <2> QED  BY <1>0, <2>1, <2>2, AnswersKept
  <1>4. ASSUME NEW m \in Manual, Claim(m) \/ CheckPasses(m) \/ CheckFails(m) PROVE Answers'
    <2>1. /\ UNCHANGED <<accepted, refused, at, journal>>
          /\ \/ UNCHANGED runs
             \/ \E s \in {"validating", "failed"} : Write(m, WithStatus(m, s))
      BY <1>4 DEF Claim, CheckPasses, CheckFails
    <2>2. /\ NothingSubmitted
          /\ \A n \in Manual : run'[n].status = "preparing" => run[n].status = "preparing"
      <3>1. CASE UNCHANGED runs
        BY <3>1 DEF NothingSubmitted
      <3>2. ASSUME NEW s \in {"validating", "failed"}, Write(m, WithStatus(m, s))
            PROVE  /\ NothingSubmitted
                   /\ \A n \in Manual : run'[n].status = "preparing" => run[n].status = "preparing"
        BY <3>2, StatusSubmitsNothing DEF Statuses
      <3> QED  BY <2>1, <3>1, <3>2
    <2> QED  BY <1>0, <2>1, <2>2, AnswersKept
  <1>5. CASE Restart
    <2>1. UNCHANGED <<accepted, refused, at, journal, run>> /\ NothingSubmitted
      BY <1>5, Parts, SyncRunsIs, NothingMore DEF Restart
    <2> QED  BY <1>0, <2>1, AnswersKept
  <1>6. CASE Crash \/ LosePower
    <2>1. accepted' = accepted /\ refused' = {}
      BY <1>6 DEF Crash, LosePower, Dies
    <2>2. NothingSubmitted
      BY <1>6, NothingMore DEF Crash, LosePower
    <2> QED  BY <1>0, <2>1, <2>2, AnswersKept
  <1>7. CASE UNCHANGED inputVars
    BY <1>0, <1>7, AnswersKept DEF inputVars, NothingSubmitted
  <1> QED  BY <1>1, <1>2, <1>3, <1>4, <1>5, <1>6, <1>7 DEF NextInput

\* Nothing was answered before the first request.
LEMMA AnswersAtFirst == InitInput => Answers
  BY DEF InitInput, Answers, SubmittedOnce, AnsweredFirst, CandidateResumes, OneSubmission, Requests

\* A submission that failed half-way is taken up again by its repetition, which
\* is never told that the run belongs to another candidate.
THEOREM CandidatesResume == SpecInput => []CandidateResumes
  <1>1. Answers => CandidateResumes
    BY DEF Answers
  <1> QED  BY <1>1, InputInit, InputInductive, AnswersAtFirst, AnswersInductive, PTL DEF SpecInput

\* All that was ever accepted for a run is one artifact, in every version that a
\* power loss may leave.
THEOREM SubmissionsAgree == SpecInput => []OneSubmission
  <1>1. Answers => OneSubmission
    BY DEF Answers
  <1> QED  BY <1>1, InputInit, InputInductive, AnswersAtFirst, AnswersInductive, PTL DEF SpecInput

(***************************************************************************)
(* What EvidenceStoreProofs shows of the store, under the handlers.        *)
(***************************************************************************)

\* A step of the input is one of the store, or touches neither its records nor
\* what callers know of them.
LEMMA StoreMoves ==
  InputIInv /\ [NextInput]_inputVars => [Next]_vars \/ UNCHANGED <<open, evidence, told>>
  <1> SUFFICES ASSUME InputIInv, [NextInput]_inputVars
               PROVE  Next \/ UNCHANGED vars \/ UNCHANGED <<open, evidence, told>>
    OBVIOUS
  <1>1. ASSUME NEW a \in Artifacts, UploadInput(a) PROVE Next
    BY <1>1 DEF UploadInput, Next
  <1>2. ASSUME NEW e \in Records, AppendEvidence(e) \/ ReadEvidence(e) PROVE Next
    BY <1>2 DEF AppendEvidence, ReadEvidence, Next
  <1>3. CASE UploadEnds \/ AppendEnds \/ RegisterEnds \/ Restart \/ Crash \/ LosePower
    BY <1>3 DEF UploadEnds, AppendEnds, RegisterEnds, Restart, Crash, LosePower, Next
  <1>4. ASSUME NEW m \in Manual, CancelRun(m) \/ Claim(m) \/ CheckPasses(m) \/ CheckFails(m)
        PROVE  UNCHANGED <<open, evidence, told>>
    BY <1>4 DEF CancelRun, Claim, CheckPasses, CheckFails
  <1>5. CASE \/ \E t \in Requests : SubmitRun(t)
             \/ ReadJournal \/ ValidateArtifact \/ CreateJournal \/ JournalSynced \/ JournalSyncFailed
             \/ Publish \/ SubmitFails
    BY <1>5 DEF SubmitRun, ReadJournal, ValidateArtifact, CreateJournal, JournalSynced, JournalSyncFailed,
                Publish, SubmitFails, vars
  <1>6. CASE Register
    <2>1. \A j \in using : Record(j) \in Records
      BY Parts, ManualAssumption, InputAssumption DEF HandlerTypes, Record, Records, Journals
    <2> QED  BY <1>6, <2>1 DEF Register, Next
  <1>7. CASE UNCHANGED inputVars
    BY <1>7 DEF inputVars
  <1> QED  BY <1>1, <1>2, <1>3, <1>4, <1>5, <1>6, <1>7 DEF NextInput, Submission

\* So the invariant of the store alone holds with the handlers on top of it.
LEMMA StoreInvariant ==
  InputIInv /\ IInv /\ OneRecordPerFile /\ [NextInput]_inputVars =>
    /\ InputIInv' /\ IInv' /\ OneRecordPerFile'
    /\ [/\ durable \subseteq files'
        /\ \A e \in files, f \in files' : SameName(e, f) => e = f]_vars
  <1> SUFFICES ASSUME InputIInv, IInv, OneRecordPerFile, [NextInput]_inputVars
               PROVE  /\ InputIInv' /\ IInv' /\ OneRecordPerFile'
                      /\ [/\ durable \subseteq files'
                          /\ \A e \in files, f \in files' : SameName(e, f) => e = f]_vars
    OBVIOUS
  <1>1. InputIInv'
    BY InputInductive
  <1>2. CASE [Next]_vars
    BY <1>1, <1>2, Inductive, FilesStay
  <1>3. CASE UNCHANGED <<open, evidence, told>>
    <2>1. TypeOK'
      BY <1>1 DEF InputIInv, InputTypeOK
    <2>2. IInv' /\ OneRecordPerFile'
      BY <1>3, <2>1 DEF IInv, Memory, ToldSurvives, OneRecordPerFile, SameName
    <2>3. durable \subseteq files' /\ \A e \in files, f \in files' : SameName(e, f) => e = f
      BY <1>3 DEF IInv, TypeOK, OneRecordPerFile
    <2> QED  BY <1>1, <2>2, <2>3
  <1> QED  BY <1>2, <1>3, StoreMoves

\* The handlers start over an empty store.
LEMMA StoreAtFirst == InitInput => InputIInv /\ IInv /\ OneRecordPerFile
  BY InputInit, InitIsFine DEF InitInput, Init, OneRecordPerFile

\* The evidence that a caller was told of survives whatever submissions write
\* beside it, and no submission gives its id to another record.
THEOREM ToldIsTrueOfInput == SpecInput => []ToldSurvives
  <1>1. IInv => ToldSurvives
    BY DEF IInv
  <1> QED  BY <1>1, StoreAtFirst, StoreInvariant, PTL DEF SpecInput

\* Nor does a handler replace a record file, or remove a durable one.
THEOREM InputReplacesNoRecord == SpecInput => Immutable
  BY StoreAtFirst, StoreInvariant, PTL DEF SpecInput, Immutable
===============================================================================
