----------------------------- MODULE EvidenceStore -----------------------------
(***************************************************************************)
(* store/file.EvidenceStore and the artifacts its records refer to.  An    *)
(* evidence record is a file linked once under its run and never replaced; *)
(* memory holds the record only after the run's directory was synced.      *)
(* Appending checks that the artifacts a record names are registered, by   *)
(* reading their metadata, which artifacts.Store publishes by a rename and *)
(* syncs afterwards.                                                       *)
(*                                                                         *)
(* The runs themselves are in the file store and durable: a record's run   *)
(* is read, hence synced, before the record is written.                    *)
(***************************************************************************)
EXTENDS Naturals

CONSTANTS Runs, Ids,    \* runs, and evidence ids
          Bodies,       \* what a record says
          Artifacts,    \* artifact identifiers, each minted for one Put
          RunOf,        \* the run of an artifact
          Cited,        \* the artifacts a body names
          MaxFaults,    \* bound: failed syncs
          MaxCrashes    \* bound: ends of the process

ASSUME CitedAssumption == Cited \in [Bodies -> SUBSET Artifacts] /\ RunOf \in [Artifacts -> Runs]
ASSUME BoundsAssumption == MaxFaults \in Nat /\ MaxCrashes \in Nat

\* A record file: its run's directory, its name (a digest of the id), its bytes.
Records == [run : Runs, id : Ids, body : Bodies]

VARIABLES
  open,       \* the process runs and has loaded the store
  known,      \* s.records
  linked,     \* the record Append has linked and has yet to sync, if any
  files,      \* the record files
  durable,    \* those a power loss cannot take back
  metadata,   \* artifacts whose metadata file is there
  keptMeta,   \* those a power loss cannot take back
  putting,    \* artifacts whose Put has yet to sync the metadata
  told,       \* history: records a caller was told of
  faults, crashes

evidence == <<known, linked, files, durable>>
artifact == <<metadata, keptMeta, putting>>
budget   == <<faults, crashes>>
vars     == <<open, evidence, artifact, told, budget>>

Fail == faults < MaxFaults /\ faults' = faults + 1

InDir(S, r) == {e \in S : e.run = r}

-------------------------------------------------------------------------------
(* artifacts.Store.putReader, from the rename of the metadata on; before   *)
(* it the bytes are synced and nobody can see them.                        *)

PutPublished(a) ==
  /\ open /\ a \notin metadata
  /\ metadata' = metadata \cup {a} /\ putting' = putting \cup {a}
  /\ UNCHANGED <<open, evidence, keptMeta, told, budget>>

PutSynced(a) ==
  /\ open /\ a \in putting
  /\ putting' = putting \ {a}
  /\ keptMeta' = keptMeta \cup {b \in metadata : RunOf[b] = RunOf[a]}
  /\ UNCHANGED <<open, evidence, metadata, told, budget>>

\* The caller gets an error; bytes and metadata stay.
PutSyncFailed(a) ==
  /\ open /\ a \in putting
  /\ putting' = putting \ {a} /\ Fail
  /\ UNCHANGED <<open, evidence, metadata, keptMeta, told, crashes>>

-------------------------------------------------------------------------------
(* EvidenceStore.Append. *)

\* artifacts.Store.Get reads the metadata files of one run.
ArtifactGet(r, a) == a \in metadata /\ RunOf[a] = r

\* ValidateEvidenceScope: every artifact cited can be got.
InScope(e) == \A a \in Cited[e.body] : ArtifactGet(e.run, a)

\* No record in memory has the id.
Fresh(e) == \A x \in known : x.id # e.id

SameName(e, f) == e.run = f.run /\ e.id = f.id

\* Mutation: a file that is there already is an error.
NoFile(e) == \A x \in files : ~SameName(x, e)

\* Mutation: the file is renamed into place.
WriteOver(e) == files' = {x \in files : ~SameName(x, e)} \cup {e}

\* A file of that name that is there already must be the same record.
SameBytes(e) == \A x \in files : SameName(x, e) => x = e

WriteImmutable(e) == SameBytes(e) /\ files' = files \cup {e}

Link(e) ==
  /\ open /\ linked = {}
  /\ InScope(e) /\ Fresh(e)
  /\ WriteImmutable(e) /\ linked' = {e}
  /\ UNCHANGED <<open, known, durable, artifact, told, budget>>

Appended ==
  \E e \in linked :
    /\ durable' = durable \cup InDir(files, e.run)
    /\ known' = known \cup {e} /\ told' = told \cup {e}
    /\ linked' = {}
    /\ UNCHANGED <<open, files, artifact, budget>>

\* Mutation: memory learns of a record whose sync failed.
AppendPublished ==
  /\ linked # {} /\ linked' = {} /\ Fail
  /\ known' = known \cup linked
  /\ UNCHANGED <<open, files, durable, artifact, told, crashes>>

\* The file stays, but memory does not learn of it.
AppendSyncFailed ==
  /\ linked # {} /\ linked' = {} /\ Fail
  /\ UNCHANGED <<open, known, files, durable, artifact, told, crashes>>

\* Get and List answer from memory, without a sync.
Get(e) ==
  /\ open /\ linked = {} /\ e \in known
  /\ told' = told \cup {e}
  /\ UNCHANGED <<open, evidence, artifact, budget>>

-------------------------------------------------------------------------------
(* The process starts and ends. *)

OneFilePerId == \A e, f \in files : e.id = f.id => e = f
CitesRegistered == \A e \in files : InScope(e)

\* load syncs each run's directory and checks every record again.
Load ==
  /\ ~open /\ OneFilePerId /\ CitesRegistered
  /\ open' = TRUE
  /\ known' = files /\ durable' = files
  /\ UNCHANGED <<linked, files, artifact, told, budget>>

End ==
  /\ crashes < MaxCrashes /\ crashes' = crashes + 1
  /\ open' = FALSE /\ known' = {} /\ linked' = {} /\ putting' = {}
  /\ UNCHANGED <<told, faults>>

ProcessCrash == open /\ End /\ UNCHANGED <<files, durable, metadata, keptMeta>>

\* Whatever was not synced may be gone.
PowerLoss ==
  /\ End
  /\ \E lostFiles \in SUBSET (files \ durable), lostMeta \in SUBSET (metadata \ keptMeta) :
       files' = files \ lostFiles /\ metadata' = metadata \ lostMeta
  /\ durable' = files' /\ keptMeta' = metadata'

-------------------------------------------------------------------------------
Init ==
  /\ open = FALSE
  /\ known = {} /\ linked = {} /\ files = {} /\ durable = {}
  /\ metadata = {} /\ keptMeta = {} /\ putting = {}
  /\ told = {}
  /\ faults = 0 /\ crashes = 0

Next ==
  \/ \E a \in Artifacts : PutPublished(a) \/ PutSynced(a) \/ PutSyncFailed(a)
  \/ \E e \in Records : Link(e) \/ Get(e)
  \/ Appended \/ AppendSyncFailed
  \/ Load \/ ProcessCrash \/ PowerLoss

Spec == Init /\ [][Next]_vars

-------------------------------------------------------------------------------
(* Properties. *)

TypeOK ==
  /\ open \in BOOLEAN
  /\ known \in SUBSET Records /\ files \in SUBSET Records /\ durable \in SUBSET files
  /\ linked \in SUBSET files
  /\ metadata \in SUBSET Artifacts /\ keptMeta \in SUBSET metadata /\ putting \in SUBSET metadata
  /\ told \in SUBSET Records
  /\ faults \in 0..MaxFaults /\ crashes \in 0..MaxCrashes

\* Every record a caller was told of is there after any restart, and callers are
\* never told of two records with one id: not after a failed append under
\* another run or with another body, and not over restarts.
ToldSurvives == /\ told \subseteq durable
                /\ \A e, f \in told : e.id = f.id => e = f

\* A record file is never replaced, and once durable never removed.
Immutable ==
  [][/\ durable \subseteq files'
     /\ \A e \in files, f \in files' : SameName(e, f) => e = f]_vars

\* The data model: evidence ids are globally unique.
IdsAreUnique == OneFilePerId

\* The data model: the artifacts a record cites are registered in its run.
CitedArtifactsExist == CitesRegistered
==============================================================================
