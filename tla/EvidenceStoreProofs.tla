-------------------------- MODULE EvidenceStoreProofs --------------------------
(***************************************************************************)
(* What a caller was told of an evidence record stays true, for any runs,  *)
(* ids, bodies, artifacts, faults and crashes.  While the process runs,    *)
(* memory stands between the files, of which two may have one id, and the  *)
(* callers: it is durable, has one record per id, and has all that was     *)
(* told.                                                                   *)
(***************************************************************************)
EXTENDS EvidenceStore, TLAPS

USE DEF evidence, artifact, budget

Memory ==
  /\ known \subseteq durable
  /\ \A e, f \in known : e.id = f.id => e = f
  /\ open => told \subseteq known
  /\ \A e \in linked : open /\ \A f \in known : f.id # e.id

IInv == TypeOK /\ Memory /\ ToldSurvives

\* The empty evidence directory satisfies IInv.
LEMMA InitIsFine == Init => IInv
  <1> SUFFICES ASSUME Init PROVE IInv
    OBVIOUS
  <1>1. 0 \in 0..MaxFaults /\ 0 \in 0..MaxCrashes
    BY BoundsAssumption
  <1> QED  BY <1>1 DEF Init, IInv, TypeOK, Memory, ToldSurvives

\* What the end of the process leaves.
Ended ==
  /\ open' = FALSE /\ known' = {} /\ linked' = {} /\ putting' = {}
  /\ crashes' \in 0..MaxCrashes

\* Every step of the store keeps IInv.
LEMMA Inductive == IInv /\ [Next]_vars => IInv'
  <1> SUFFICES ASSUME IInv, [Next]_vars PROVE IInv'
    OBVIOUS
  <1> USE BoundsAssumption DEF IInv, TypeOK, Memory, ToldSurvives
  <1>1. ASSUME NEW a \in Artifacts, PutPublished(a) \/ PutSynced(a) \/ PutSyncFailed(a) PROVE IInv'
    BY <1>1 DEF PutPublished, PutSynced, PutSyncFailed, Fail
  <1>2. ASSUME NEW e \in Records, Link(e) PROVE IInv'
    BY <1>2 DEF Link, Fresh, WriteImmutable
  <1>3. CASE Appended
    <2>1. PICK e \in linked :
            /\ durable' = durable \cup InDir(files, e.run)
            /\ known' = known \cup {e} /\ told' = told \cup {e} /\ linked' = {}
            /\ UNCHANGED <<open, files, artifact, budget>>
      BY <1>3 DEF Appended
    <2>2. e \in files /\ e \in Records /\ e \in durable' /\ durable \subseteq durable' /\ durable' \subseteq files
      BY <2>1 DEF InDir
    <2>3. \A f \in known \cup told : f.id # e.id
      BY <2>1
    <2>4. open /\ open' = open /\ files' = files
      BY <2>1
    <2>5. TypeOK'
      BY <2>1, <2>2, <2>4
    <2>6. Memory'
      BY <2>1, <2>2, <2>3, <2>4
    <2>7. ToldSurvives'
      BY <2>1, <2>2, <2>3
    <2> QED  BY <2>5, <2>6, <2>7
  <1>4. CASE AppendSyncFailed
    BY <1>4 DEF AppendSyncFailed, Fail
  <1>5. ASSUME NEW e \in Records, Get(e) PROVE IInv'
    BY <1>5 DEF Get
  <1>6. CASE Load
    <2>1. /\ linked = {} /\ linked' = {} /\ open' = TRUE /\ known' = files /\ durable' = files
          /\ files' = files /\ told' = told /\ UNCHANGED <<artifact, budget>>
          /\ \A e, f \in files : e.id = f.id => e = f
      BY <1>6 DEF Load, OneFilePerId
    <2>2. TypeOK'
      BY <2>1
    <2>3. Memory'
      BY <2>1
    <2> QED  BY <2>1, <2>2, <2>3
  <1>7. CASE ProcessCrash
    <2>1. Ended /\ UNCHANGED <<files, durable, metadata, keptMeta, told, faults>>
      BY <1>7 DEF ProcessCrash, End, Ended
    <2> QED  BY <2>1 DEF Ended
  <1>8. CASE PowerLoss
    <2>1. Ended /\ UNCHANGED <<told, faults>>
      BY <1>8 DEF PowerLoss, End, Ended
    <2>2. /\ files' \subseteq files /\ durable' = files' /\ durable \subseteq files'
          /\ metadata' \subseteq metadata /\ keptMeta' = metadata'
      BY <1>8 DEF PowerLoss
    <2> QED  BY <2>1, <2>2 DEF Ended
  <1>9. CASE UNCHANGED vars
    BY <1>9 DEF vars
  <1> QED
    BY <1>1, <1>2, <1>3, <1>4, <1>5, <1>6, <1>7, <1>8, <1>9 DEF Next

\* A record's run and id name its file.
OneRecordPerFile == \A e, f \in files : SameName(e, f) => e = f

\* No step replaces a record file, or removes a durable one.
LEMMA FilesStay ==
  IInv /\ OneRecordPerFile /\ [Next]_vars =>
    /\ OneRecordPerFile'
    /\ durable \subseteq files'
    /\ \A e \in files, f \in files' : SameName(e, f) => e = f
  <1> SUFFICES ASSUME IInv, OneRecordPerFile, [Next]_vars
               PROVE  /\ OneRecordPerFile'
                      /\ durable \subseteq files'
                      /\ \A e \in files, f \in files' : SameName(e, f) => e = f
    OBVIOUS
  <1>1. durable \subseteq files
    BY DEF IInv, TypeOK
  <1>2. ASSUME NEW e \in Records, Link(e)
        PROVE  files \subseteq files' /\ \A x \in files' : x \in files \/ (x = e /\ SameBytes(e))
    BY <1>2 DEF Link, WriteImmutable
  <1>3. CASE \E e \in Records : Link(e)
    BY <1>1, <1>2, <1>3 DEF OneRecordPerFile, SameBytes, SameName
  <1>4. CASE durable \subseteq files' /\ files' \subseteq files
    BY <1>4 DEF OneRecordPerFile, SameName
  <1>5. CASE ~\E e \in Records : Link(e)
    <2>1. durable \subseteq files' /\ files' \subseteq files
      BY <1>1, <1>5 DEF Next, vars, PutPublished, PutSynced, PutSyncFailed, Get, Appended, AppendSyncFailed,
                        Load, ProcessCrash, PowerLoss, End
    <2> QED  BY <1>4, <2>1
  <1> QED  BY <1>3, <1>5

\* Every state of the store is well typed.
THEOREM TypeCorrect == Spec => []TypeOK
  <1>1. IInv => TypeOK
    BY DEF IInv
  <1> QED  BY <1>1, InitIsFine, Inductive, PTL DEF Spec

\* A record that a caller was told of survives every crash and power loss, and
\* no caller is told of another record with its id.
THEOREM ToldIsTrue == Spec => []ToldSurvives
  <1>1. IInv => ToldSurvives
    BY DEF IInv
  <1> QED  BY <1>1, InitIsFine, Inductive, PTL DEF Spec

\* A record file is never replaced, and once durable never removed.
THEOREM RecordsAreImmutable == Spec => Immutable
  <1>1. Init => OneRecordPerFile
    BY DEF Init, OneRecordPerFile
  <1>2. IInv /\ OneRecordPerFile /\ [Next]_vars =>
          [/\ durable \subseteq files'
           /\ \A e \in files, f \in files' : SameName(e, f) => e = f]_vars
    BY FilesStay
  <1>3. IInv /\ OneRecordPerFile /\ [Next]_vars => OneRecordPerFile'
    BY FilesStay
  <1> QED  BY <1>1, <1>2, <1>3, InitIsFine, Inductive, PTL DEF Spec, Immutable
==============================================================================
