------------------------------- MODULE FileStore -------------------------------
(***************************************************************************)
(* store/file.Store: runs in memory, one JSON file each, and the audit     *)
(* log.  A write is published by a rename, made durable by a sync of the   *)
(* directory, then audited; the store's lock is held throughout.  Reads    *)
(* sync the directory before they trust what memory says.                  *)
(*                                                                         *)
(* A run is its version, the number of updates that led to it; version 0   *)
(* is no run.  The steps before the rename touch a temporary file nobody   *)
(* reads, and are one with it.                                             *)
(***************************************************************************)
EXTENDS Naturals

CONSTANTS Runs,        \* run identifiers, never reused
          Keys,        \* (tenant, request_id) pairs
          KeyOf,       \* the key each run would be created under
          None,        \* no run
          MaxVersion,  \* bound: versions of a run
          MaxFaults,   \* bound: failed syncs and audit appends
          MaxCrashes   \* bound: ends of the process

ASSUME KeyAssumption == KeyOf \in [Runs -> Keys]
ASSUME NoneAssumption == None \notin Runs
ASSUME BoundsAssumption == MaxVersion \in Nat \ {0} /\ MaxFaults \in Nat /\ MaxCrashes \in Nat

VARIABLES
  open,       \* the process runs and has loaded the store
  memory,     \* s.runs
  byRequest,  \* s.byRequest
  busy, step, \* the run the lock's holder writes, and what it does next
  disk,       \* the published files
  durable,    \* the files a power loss cannot take back
  audit,      \* the lines of audit.jsonl
  told,       \* history: the newest version of each run a caller was told of
  faults, crashes

files  == <<disk, durable>>
budget == <<faults, crashes>>
vars   == <<open, memory, byRequest, busy, step, files, audit, told, budget>>

Steps == {"idle", "sync", "audit"}
Free  == open /\ busy = None

Fail == faults < MaxFaults /\ faults' = faults + 1

-------------------------------------------------------------------------------
(* persistLocked, in Create and Update. *)

Rename(r) ==
  /\ memory[r] < MaxVersion
  /\ disk' = [disk EXCEPT ![r] = memory[r] + 1]
  /\ busy' = r /\ step' = "sync"
  /\ UNCHANGED <<open, memory, byRequest, durable, audit, told, budget>>

\* Mutation: Create does not look at the key.
ExistsById(r) == memory[r] > 0

\* ErrAlreadyExists, by id or by key.
Exists(r) == memory[r] > 0 \/ byRequest[KeyOf[r]] # None

Create(r) == Free /\ ~Exists(r) /\ Rename(r)

Update(r) == Free /\ memory[r] > 0 /\ Rename(r)

\* The new version is visible in memory whether or not the sync succeeds.
Publish ==
  /\ memory' = [memory EXCEPT ![busy] = disk[busy]]
  /\ byRequest' = [byRequest EXCEPT ![KeyOf[busy]] = busy]

Release == busy' = None /\ step' = "idle"

\* Mutation: the directory is not synced before the audit append.
NotSynced ==
  /\ open /\ step = "sync"
  /\ Publish
  /\ step' = "audit"
  /\ UNCHANGED <<open, busy, files, audit, told, budget>>

Synced ==
  /\ open /\ step = "sync"
  /\ Publish
  /\ durable' = disk
  /\ step' = "audit"
  /\ UNCHANGED <<open, busy, disk, audit, told, budget>>

\* Mutations: an error keeps the old version in memory; the error is ignored.
SyncFailedUnpublished ==
  /\ open /\ step = "sync"
  /\ Release /\ Fail
  /\ UNCHANGED <<open, memory, byRequest, files, audit, told, crashes>>

SyncFailureIgnored ==
  /\ open /\ step = "sync"
  /\ Publish /\ Fail
  /\ step' = "audit"
  /\ UNCHANGED <<open, busy, files, audit, told, crashes>>

SyncFailed ==
  /\ open /\ step = "sync"
  /\ Publish /\ Release /\ Fail
  /\ UNCHANGED <<open, files, audit, told, crashes>>

\* Mutation: the line is that of the version the update started from.
AuditedStale ==
  /\ open /\ step = "audit"
  /\ audit' = audit \cup {<<busy, memory[busy] - 1>>}
  /\ told' = [told EXCEPT ![busy] = memory[busy]]
  /\ Release
  /\ UNCHANGED <<open, memory, byRequest, files, budget>>

Audited ==
  /\ open /\ step = "audit"
  /\ audit' = audit \cup {<<busy, memory[busy]>>}
  /\ told' = [told EXCEPT ![busy] = memory[busy]]
  /\ Release
  /\ UNCHANGED <<open, memory, byRequest, files, budget>>

AuditFailed ==
  /\ open /\ step = "audit"
  /\ Release /\ Fail
  /\ UNCHANGED <<open, memory, byRequest, files, audit, told, crashes>>

-------------------------------------------------------------------------------
(* Reads.  A failed sync is an error that tells nothing. *)

\* Mutation: reads trust memory as it is.
ReadUnsynced(S) ==
  /\ Free
  /\ told' = [r \in Runs |-> IF r \in S THEN memory[r] ELSE told[r]]
  /\ UNCHANGED <<open, memory, byRequest, busy, step, files, audit, budget>>

ReadRuns(S) ==
  /\ Free
  /\ durable' = disk
  /\ told' = [r \in Runs |-> IF r \in S THEN memory[r] ELSE told[r]]
  /\ UNCHANGED <<open, memory, byRequest, busy, step, disk, audit, budget>>

Get(r) == ReadRuns({r})
FindByRequestID(k) == ReadRuns({byRequest[k]})
List == ReadRuns(Runs)

-------------------------------------------------------------------------------
(* The process starts and ends. *)

SameRequest(r, q) == disk[r] > 0 /\ disk[q] > 0 /\ KeyOf[r] = KeyOf[q]

\* load refuses a directory in which two runs have the same key.
Load ==
  /\ ~open /\ \A r, q \in Runs : SameRequest(r, q) => r = q
  /\ open' = TRUE
  /\ memory' = disk
  /\ byRequest' = [k \in Keys |-> IF \E r \in Runs : disk[r] > 0 /\ KeyOf[r] = k
                                 THEN CHOOSE r \in Runs : disk[r] > 0 /\ KeyOf[r] = k
                                 ELSE None]
  /\ UNCHANGED <<busy, step, files, audit, told, budget>>

\* Memory is lost; the files are kept as they were published.
End ==
  /\ crashes < MaxCrashes
  /\ crashes' = crashes + 1
  /\ open' = FALSE
  /\ memory' = [r \in Runs |-> 0]
  /\ byRequest' = [k \in Keys |-> None]
  /\ Release

ProcessCrash == open /\ End /\ UNCHANGED <<files, audit, told, faults>>

\* Each file reverts to any version published since it was last made durable;
\* the audit log, which is never synced, loses any of its lines.
PowerLoss ==
  /\ End
  /\ disk' \in [Runs -> 0..MaxVersion]
  /\ \A r \in Runs : durable[r] <= disk'[r] /\ disk'[r] <= disk[r]
  /\ durable' = disk'
  /\ audit' \in SUBSET audit
  /\ UNCHANGED <<told, faults>>

-------------------------------------------------------------------------------
Init ==
  /\ open = FALSE
  /\ memory = [r \in Runs |-> 0]
  /\ byRequest = [k \in Keys |-> None]
  /\ busy = None /\ step = "idle"
  /\ disk = [r \in Runs |-> 0] /\ durable = [r \in Runs |-> 0]
  /\ audit = {}
  /\ told = [r \in Runs |-> 0]
  /\ faults = 0 /\ crashes = 0

Writer == Synced \/ SyncFailed \/ Audited \/ AuditFailed
Process == Load \/ ProcessCrash \/ PowerLoss

Next ==
  \/ \E r \in Runs : Create(r) \/ Update(r) \/ Get(r)
  \/ \E k \in Keys : FindByRequestID(k)
  \/ List \/ Writer \/ Process

Spec == Init /\ [][Next]_vars

-------------------------------------------------------------------------------
(* Properties. *)

TypeOK ==
  /\ open \in BOOLEAN
  /\ memory \in [Runs -> 0..MaxVersion]
  /\ byRequest \in [Keys -> Runs \cup {None}]
  /\ busy \in Runs \cup {None} /\ step \in Steps
  /\ disk \in [Runs -> 0..MaxVersion] /\ durable \in [Runs -> 0..MaxVersion]
  /\ audit \in SUBSET (Runs \X (1..MaxVersion))
  /\ told \in [Runs -> 0..MaxVersion]
  /\ faults \in 0..MaxFaults /\ crashes \in 0..MaxCrashes

\* No answer tells of a version that a power loss could still take back: not a
\* successful write, and not a read after a write whose sync failed.
ToldIsDurable == \A r \in Runs : told[r] <= durable[r]

\* Two runs are never published under one request id, whatever syncs failed and
\* whatever a crash left behind; so load never refuses to start.
OneRunPerRequest == \A r, q \in Runs : SameRequest(r, q) => r = q

\* Between two writes memory is what a restart would load: a failed sync or a
\* failed audit append leaves no run in memory or on disk alone.
MemoryIsDisk ==
  Free => /\ memory = disk
          /\ \A r \in Runs : memory[r] > 0 <=> byRequest[KeyOf[r]] = r

\* The audit log never tells of a change that a restart would not find.
AuditIsDurable == \A line \in audit : line[2] <= durable[line[1]]

\* The store keeps its promise; what a restart would find is on the disk.
Promise == INSTANCE DurableRuns WITH value <- disk
KeepsItsPromise == Promise!Spec
==============================================================================
