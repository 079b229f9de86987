---------------------------- MODULE FileStoreProofs ----------------------------
(***************************************************************************)
(* The file store keeps its promise for any runs, request ids, numbers of  *)
(* faults and crashes.  ToldIsDurable is not inductive by itself: that a   *)
(* read may trust memory needs Coherent, which says what memory, the index *)
(* and the lock's holder have to do with the files at each step of a write.*)
(* The same holds under the service's CreateRun, whose answers agree: the  *)
(* calls take only steps of the store (CreationMoves).                     *)
(***************************************************************************)
EXTENDS RunCreation, TLAPS

USE DEF files, budget

\* What is told is durable, what is durable is published.
Backed == \A r \in Runs : durable[r] <= disk[r] /\ told[r] <= durable[r]

\* Only a published version that has yet to be synced is missing from memory,
\* and it may be a run's first only if no other run has its key.
Pending ==
  /\ step = "sync" => /\ disk = [memory EXCEPT ![busy] = @ + 1]
                      /\ memory[busy] > 0 \/ byRequest[KeyOf[busy]] = None
  /\ step # "sync" => memory = disk
  /\ step = "audit" => durable = disk /\ disk[busy] > 0

Coherent ==
  /\ busy = None <=> step = "idle"
  /\ open => Pending /\ \A r \in Runs : memory[r] > 0 <=> byRequest[KeyOf[r]] = r
  /\ ~open => busy = None

IInv == TypeOK /\ Backed /\ Coherent /\ OneRunPerRequest /\ AuditIsDurable

\* The empty data directory satisfies IInv.
LEMMA InitIsFine == Init => IInv
  <1> SUFFICES ASSUME Init PROVE IInv
    OBVIOUS
  <1>1. TypeOK
    <2>1. 0 \in 0..MaxVersion /\ 0 \in 0..MaxFaults /\ 0 \in 0..MaxCrashes
      BY BoundsAssumption
    <2> QED  BY <2>1 DEF Init, TypeOK, Steps
  <1>2. Backed /\ OneRunPerRequest /\ AuditIsDurable
    BY DEF Init, Backed, OneRunPerRequest, SameRequest, AuditIsDurable
  <1>3. Coherent
    BY KeyAssumption, NoneAssumption DEF Init, Coherent, Pending
  <1> QED  BY <1>1, <1>2, <1>3 DEF IInv

\* Coherence of the index gives what a publication needs.
LEMMA Renaming ==
  ASSUME IInv, Free, NEW r \in Runs, Rename(r), memory[r] > 0 \/ ~Exists(r)
  PROVE  IInv'
  <1>1. /\ memory = disk /\ memory[r] \in Nat /\ memory[r] + 1 \in 1..MaxVersion
        /\ disk' = [disk EXCEPT ![r] = disk[r] + 1] /\ busy' = r /\ step' = "sync"
        /\ UNCHANGED <<open, memory, byRequest, durable, audit, told, budget>>
    BY BoundsAssumption DEF IInv, TypeOK, Coherent, Pending, Free, Rename
  <1>2. TypeOK'
    BY <1>1 DEF IInv, TypeOK, Steps
  <1>3. Backed'
    BY <1>1 DEF IInv, TypeOK, Backed
  <1>4. Coherent'
    BY <1>1, NoneAssumption DEF IInv, TypeOK, Coherent, Pending, Free, Exists
  <1>5. OneRunPerRequest'
    BY <1>1, NoneAssumption DEF IInv, TypeOK, Coherent, Pending, Free, Exists, OneRunPerRequest, SameRequest
  <1> QED  BY <1>1, <1>2, <1>3, <1>4, <1>5 DEF IInv, AuditIsDurable

\* Memory catches up with the files when a sync returns, whatever its outcome.
LEMMA Publishing ==
  ASSUME IInv, open, step = "sync", Publish
  PROVE  /\ busy \in Runs /\ memory' = disk /\ memory'[busy] > 0
         /\ byRequest' \in [Keys -> Runs \cup {None}]
         /\ \A r \in Runs : memory'[r] > 0 <=> byRequest'[KeyOf[r]] = r
  <1>1. busy \in Runs /\ disk = [memory EXCEPT ![busy] = @ + 1]
    BY DEF IInv, TypeOK, Coherent, Pending
  <1>2. memory' = disk /\ memory'[busy] > 0
    BY <1>1 DEF Publish, IInv, TypeOK
  <1>3. byRequest' \in [Keys -> Runs \cup {None}]
    BY <1>1, KeyAssumption DEF Publish, IInv, TypeOK
  <1>4. ASSUME NEW r \in Runs PROVE memory'[r] > 0 <=> byRequest'[KeyOf[r]] = r
    <2>1. CASE KeyOf[r] = KeyOf[busy]
      <3>1. byRequest'[KeyOf[r]] = busy
        BY <1>1, <2>1, KeyAssumption DEF Publish, IInv, TypeOK
      <3>2. memory'[r] > 0 => r = busy
        BY <1>1, <1>2, <2>1 DEF IInv, OneRunPerRequest, SameRequest
      <3> QED  BY <3>1, <3>2, <1>2
    <2>2. CASE KeyOf[r] # KeyOf[busy]
      <3>1. byRequest'[KeyOf[r]] = byRequest[KeyOf[r]]
        BY <1>1, <2>2, KeyAssumption DEF Publish, IInv, TypeOK
      <3>2. memory'[r] = memory[r]
        BY <1>1, <2>2 DEF Publish, IInv, TypeOK
      <3> QED  BY <3>1, <3>2 DEF IInv, Coherent
    <2> QED  BY <2>1, <2>2
  <1> QED  BY <1>1, <1>2, <1>3, <1>4

\* A read tells only of what its sync made durable.
LEMMA Reading ==
  ASSUME IInv, NEW S, ReadRuns(S)
  PROVE  IInv'
  <1>1. /\ open /\ busy = None /\ step = "idle" /\ memory = disk /\ durable' = disk
        /\ told' = [r \in Runs |-> IF r \in S THEN memory[r] ELSE told[r]]
        /\ UNCHANGED <<open, memory, byRequest, busy, step, disk, audit, budget>>
    BY DEF IInv, ReadRuns, Free, Coherent, Pending
  <1>2. TypeOK'
    BY <1>1 DEF IInv, TypeOK
  <1>3. Backed'
    BY <1>1 DEF IInv, TypeOK, Backed
  <1>4. Coherent'
    BY <1>1 DEF IInv, Coherent, Pending
  <1>5. AuditIsDurable'
    BY <1>1 DEF IInv, AuditIsDurable, Backed, TypeOK
  <1> QED  BY <1>1, <1>2, <1>3, <1>4, <1>5 DEF IInv, OneRunPerRequest, SameRequest

\* load rebuilds memory and the index from the files.
LEMMA Loading ==
  ASSUME IInv, Load
  PROVE  IInv'
  <1>1. byRequest' \in [Keys -> Runs \cup {None}]
    BY DEF Load
  <1>2. ASSUME NEW r \in Runs PROVE disk[r] > 0 <=> byRequest'[KeyOf[r]] = r
    <2> DEFINE OfKey(q) == disk[q] > 0 /\ KeyOf[q] = KeyOf[r]
    <2>1. KeyOf[r] \in Keys
      BY KeyAssumption
    <2>2. byRequest'[KeyOf[r]] = IF \E q \in Runs : OfKey(q) THEN CHOOSE q \in Runs : OfKey(q) ELSE None
      BY <2>1 DEF Load
    <2>3. \A q \in Runs : OfKey(q) /\ OfKey(r) => q = r
      BY DEF Load, SameRequest
    <2>4. CASE \E q \in Runs : OfKey(q)
      BY <2>2, <2>3, <2>4
    <2>5. CASE ~\E q \in Runs : OfKey(q)
      BY <2>2, <2>5, NoneAssumption
    <2> QED  BY <2>4, <2>5
  <1>3. TypeOK'
    BY <1>1 DEF Load, IInv, TypeOK
  <1>4. Coherent'
    BY <1>2 DEF Load, IInv, Coherent, Pending
  <1> QED  BY <1>3, <1>4 DEF Load, IInv, Backed, OneRunPerRequest, SameRequest, AuditIsDurable

\* What the end of the process leaves of memory and the lock.
LEMMA Ending ==
  ASSUME IInv, End
  PROVE  /\ open' = FALSE /\ busy' = None /\ step' = "idle" /\ Coherent'
         /\ memory' \in [Runs -> 0..MaxVersion] /\ byRequest' \in [Keys -> Runs \cup {None}]
         /\ crashes' \in 0..MaxCrashes
  BY BoundsAssumption DEF End, Release, IInv, TypeOK, Coherent, Pending

\* A power loss takes back only what nobody was told of.
LEMMA LosingPower ==
  ASSUME IInv, PowerLoss
  PROVE  IInv'
  <1>1. /\ disk' \in [Runs -> 0..MaxVersion] /\ durable' = disk' /\ audit' \subseteq audit
        /\ \A r \in Runs : durable[r] <= disk'[r] /\ disk'[r] <= disk[r]
        /\ UNCHANGED <<told, faults>> /\ End
    BY DEF PowerLoss
  <1>2. TypeOK'
    BY <1>1, Ending DEF IInv, TypeOK, Steps
  <1>3. Backed'
    BY <1>1 DEF IInv, Backed, TypeOK
  <1>4. \A r \in Runs : disk'[r] > 0 => disk[r] > 0
    BY <1>1 DEF IInv, TypeOK
  <1>5. OneRunPerRequest'
    BY <1>4 DEF IInv, OneRunPerRequest, SameRequest
  <1>6. AuditIsDurable'
    BY <1>1 DEF IInv, AuditIsDurable, TypeOK
  <1> QED  BY <1>1, <1>2, <1>3, <1>5, <1>6, Ending DEF IInv

\* Every step of the store keeps IInv.
LEMMA Inductive == IInv /\ [Next]_vars => IInv'
  <1> SUFFICES ASSUME IInv, [Next]_vars PROVE IInv'
    OBVIOUS
  <1>1. ASSUME NEW r \in Runs, Create(r) PROVE IInv'
    BY <1>1, Renaming DEF Create
  <1>2. ASSUME NEW r \in Runs, Update(r) PROVE IInv'
    BY <1>2, Renaming DEF Update
  <1>3. CASE Synced
    <2>1. /\ open /\ step = "sync" /\ Publish /\ durable' = disk /\ step' = "audit"
          /\ UNCHANGED <<open, busy, disk, audit, told, budget>>
      BY <1>3 DEF Synced
    <2>2. TypeOK' /\ Coherent'
      BY <2>1, Publishing, NoneAssumption DEF IInv, TypeOK, Steps, Coherent, Pending
    <2>3. Backed' /\ AuditIsDurable'
      BY <2>1 DEF IInv, TypeOK, Backed, AuditIsDurable
    <2> QED  BY <2>1, <2>2, <2>3 DEF IInv, OneRunPerRequest, SameRequest
  <1>4. CASE SyncFailed
    <2>1. /\ open /\ step = "sync" /\ Publish /\ busy' = None /\ step' = "idle"
          /\ faults' \in 0..MaxFaults
          /\ UNCHANGED <<open, disk, durable, audit, told, crashes>>
      BY <1>4, BoundsAssumption DEF SyncFailed, Release, Fail, IInv, TypeOK
    <2>2. TypeOK' /\ Coherent'
      BY <2>1, Publishing DEF IInv, TypeOK, Steps, Coherent, Pending
    <2> QED  BY <2>1, <2>2 DEF IInv, Backed, AuditIsDurable, OneRunPerRequest, SameRequest
  <1>5. CASE Audited
    <2>1. /\ open /\ busy \in Runs /\ memory = disk /\ durable = disk
          /\ audit' = audit \cup {<<busy, disk[busy]>>}
          /\ told' = [told EXCEPT ![busy] = disk[busy]]
          /\ busy' = None /\ step' = "idle"
          /\ UNCHANGED <<open, memory, byRequest, disk, durable, budget>>
      BY <1>5 DEF Audited, Release, IInv, TypeOK, Coherent, Pending
    <2>2. disk[busy] \in 1..MaxVersion
      BY <1>5 DEF Audited, IInv, TypeOK, Coherent, Pending
    <2>3. TypeOK' /\ Coherent'
      BY <2>1, <2>2 DEF IInv, TypeOK, Steps, Coherent, Pending
    <2>4. Backed' /\ AuditIsDurable'
      BY <2>1, <2>2 DEF IInv, TypeOK, Backed, AuditIsDurable
    <2> QED  BY <2>1, <2>3, <2>4 DEF IInv, OneRunPerRequest, SameRequest
  <1>6. CASE AuditFailed
    <2>1. /\ open /\ step = "audit" /\ busy' = None /\ step' = "idle"
          /\ faults' \in 0..MaxFaults
          /\ UNCHANGED <<open, memory, byRequest, disk, durable, audit, told, crashes>>
      BY <1>6, BoundsAssumption DEF AuditFailed, Release, Fail, IInv, TypeOK
    <2> QED  BY <2>1 DEF IInv, TypeOK, Steps, Coherent, Pending, Backed, AuditIsDurable,
                         OneRunPerRequest, SameRequest
  <1>7. ASSUME NEW r \in Runs, Get(r) PROVE IInv'
    BY <1>7, Reading DEF Get
  <1>8. ASSUME NEW k \in Keys, FindByRequestID(k) PROVE IInv'
    BY <1>8, Reading DEF FindByRequestID
  <1>9. CASE List
    BY <1>9, Reading DEF List
  <1>10. CASE Load
    BY <1>10, Loading
  <1>11. CASE ProcessCrash
    <2>1. End /\ UNCHANGED <<disk, durable, audit, told, faults>>
      BY <1>11 DEF ProcessCrash
    <2> QED  BY <2>1, Ending DEF IInv, TypeOK, Steps, Backed, AuditIsDurable, OneRunPerRequest, SameRequest
  <1>12. CASE PowerLoss
    BY <1>12, LosingPower
  <1>13. CASE UNCHANGED vars
    BY <1>13 DEF vars, IInv, TypeOK, Coherent, Pending, Backed, AuditIsDurable, OneRunPerRequest, SameRequest
  <1> QED
    BY <1>1, <1>2, <1>3, <1>4, <1>5, <1>6, <1>7, <1>8, <1>9, <1>10, <1>11, <1>12, <1>13
    DEF Next, Writer, Process

\* Every state of the store is well typed.
THEOREM TypeCorrect == Spec => []TypeOK
  <1>1. IInv => TypeOK
    BY DEF IInv
  <1> QED  BY <1>1, InitIsFine, Inductive, PTL DEF Spec

\* Nothing a caller was told of can be lost, for any number of crashes, power
\* losses and failed syncs.
THEOREM TellsOnlyDurable == Spec => []ToldIsDurable
  <1>1. IInv => ToldIsDurable
    BY DEF IInv, Backed, ToldIsDurable
  <1> QED  BY <1>1, InitIsFine, Inductive, PTL DEF Spec

\* The audit log, written after a run is published and synced, tells of no
\* revision of a run that a power loss could take back.
THEOREM AuditTellsTruth == Spec => []AuditIsDurable
  <1>1. IInv => AuditIsDurable
    BY DEF IInv
  <1> QED  BY <1>1, InitIsFine, Inductive, PTL DEF Spec

\* No two runs are published under one request id, so load never refuses.
THEOREM RequestsAreUnique == Spec => []OneRunPerRequest
  <1>1. IInv => OneRunPerRequest
    BY DEF IInv
  <1> QED  BY <1>1, InitIsFine, Inductive, PTL DEF Spec

\* Memory is what a restart would load whenever the lock is free.
THEOREM MemoryIsTrue == Spec => []MemoryIsDisk
  <1>1. IInv => MemoryIsDisk
    BY DEF IInv, Coherent, Pending, MemoryIsDisk, Free
  <1> QED  BY <1>1, InitIsFine, Inductive, PTL DEF Spec

-------------------------------------------------------------------------------
(* The refinement: a rename advances a run, an answer tells, a power loss  *)
(* loses, and everything else is a stutter.                                *)

\* Every step of the store is a step of its promise or a stutter.
LEMMA StepRefines ==
  ASSUME IInv, IInv', [Next]_vars
  PROVE  [Promise!Next]_<<disk, told>>
  <1> USE DEF Promise!Next
  <1>1. ASSUME NEW r \in Runs, Create(r) \/ Update(r) PROVE Promise!Advance(r)
    BY <1>1 DEF Create, Update, Rename, Free, IInv, TypeOK, Coherent, Pending, Promise!Advance
  <1>2. ASSUME NEW S, ReadRuns(S) PROVE Promise!Tell
    BY <1>2 DEF ReadRuns, Free, IInv, TypeOK, Coherent, Pending, Promise!Tell
  <1>3. CASE Audited
    BY <1>3 DEF Audited, IInv, TypeOK, Coherent, Pending, Promise!Tell
  <1>4. CASE PowerLoss
    BY <1>4 DEF PowerLoss, IInv, TypeOK, Backed, Promise!Lose
  <1>5. CASE Synced \/ SyncFailed \/ AuditFailed \/ Load \/ ProcessCrash \/ UNCHANGED vars
    BY <1>5 DEF Synced, SyncFailed, AuditFailed, Load, ProcessCrash, vars
  <1> QED
    BY <1>1, <1>2, <1>3, <1>4, <1>5 DEF Next, Get, FindByRequestID, List, Writer, Process

\* The file store implements the promise of RunStore.
THEOREM Refinement == Spec => KeepsItsPromise
  <1>1. Init => Promise!Init
    BY DEF Init, Promise!Init
  <1> QED  BY <1>1, InitIsFine, Inductive, StepRefines, PTL DEF Spec, KeepsItsPromise, Promise!Spec

(***************************************************************************)
(* CreateRun over the store: the store keeps what was proved of it, and    *)
(* every call with one request id is answered with the one durable run     *)
(* under it.                                                               *)
(***************************************************************************)

\* The index is kept by the key of the run.
IndexedByKey == open => \A k \in Keys : byRequest[k] # None => KeyOf[byRequest[k]] = k

\* A run that a call was answered with is durable, has its request id and stands
\* the comparison with it.
Answered ==
  \A c \in Runs : reply[c] # None =>
    /\ durable[reply[c]] > 0
    /\ KeyOf[reply[c]] = KeyOf[c]
    /\ Compatible(c, reply[c])

CreationIInv == IInv /\ CreationTypeOK /\ IndexedByKey /\ Answered

\* A step of CreateRun and of what runs beside it is a step of the store, or
\* spends one of its faults.
LEMMA CreationMoves == [NextCreation]_allVars => [Next]_vars \/ StoreFails
  <1> SUFFICES ASSUME [NextCreation]_allVars PROVE Next \/ UNCHANGED vars \/ StoreFails
    OBVIOUS
  <1>1. ASSUME NEW c \in Runs, FindFirst(c) \/ FindAgain(c) PROVE Next
    BY <1>1, KeyAssumption DEF FindFirst, FindAgain, Next
  <1>2. ASSUME NEW c \in Runs, CreateFresh(c) PROVE Next \/ UNCHANGED vars
    BY <1>2 DEF CreateFresh, Next
  <1>3. ASSUME NEW c \in Runs, CallFails(c) PROVE StoreFails
    BY <1>3 DEF CallFails
  <1>4. CASE WriteGoesOn \/ Elsewhere \/ Restarts
    BY <1>4 DEF WriteGoesOn, Elsewhere, Restarts, Next
  <1>5. CASE UNCHANGED allVars
    BY <1>5 DEF allVars
  <1> QED  BY <1>1, <1>2, <1>3, <1>4, <1>5 DEF NextCreation, CreateRun

\* What calls were answered with stays durable, and the index stays in order.
LEMMA StoreKept ==
  ASSUME IInv, IndexedByKey, [Next]_vars \/ StoreFails
  PROVE  /\ IInv' /\ IndexedByKey'
         /\ \A r \in Runs : durable[r] > 0 => durable'[r] > 0
         /\ [Promise!Next]_<<disk, told>>
  <1>1. CASE StoreFails
    <2>1. faults' \in 0..MaxFaults /\ UNCHANGED <<open, memory, byRequest, busy, step, files, audit, told, crashes>>
      BY <1>1, BoundsAssumption DEF StoreFails, Fail, IInv, TypeOK
    <2> QED  BY <2>1 DEF IInv, TypeOK, Backed, Coherent, Pending, OneRunPerRequest, SameRequest, AuditIsDurable,
                         IndexedByKey
  <1>2. CASE [Next]_vars
    <2>1. IInv' /\ [Promise!Next]_<<disk, told>>
      BY <1>2, Inductive, StepRefines
    <2>2. ASSUME NEW r \in Runs PROVE durable[r] <= durable'[r]
      <3>1. CASE UNCHANGED durable
        BY <3>1 DEF IInv, TypeOK
      <3>2. CASE durable' = disk
        BY <3>2 DEF IInv, Backed
      <3>3. CASE PowerLoss
        BY <3>3 DEF PowerLoss
      <3> QED
        BY <1>2, <3>1, <3>2, <3>3 DEF Next, vars, Create, Update, Rename, Get, FindByRequestID, List, ReadRuns,
                                      Writer, Synced, SyncFailed, Audited, AuditFailed, Process, Load, ProcessCrash
    <2>3. IndexedByKey'
      <3>1. CASE UNCHANGED <<open, byRequest>>
        BY <3>1 DEF IndexedByKey
      <3>2. CASE open /\ step = "sync" /\ Publish
        BY <3>2, Publishing DEF IndexedByKey, Publish, IInv, TypeOK
      <3>3. CASE Load
        <4> SUFFICES ASSUME NEW k \in Keys, byRequest'[k] # None PROVE KeyOf[byRequest'[k]] = k
          BY DEF IndexedByKey
        <4>1. byRequest'[k] = IF \E r \in Runs : disk[r] > 0 /\ KeyOf[r] = k
                              THEN CHOOSE r \in Runs : disk[r] > 0 /\ KeyOf[r] = k
                              ELSE None
          BY <3>3 DEF Load
        <4> QED  BY <4>1
      <3>4. CASE open' = FALSE
        BY <3>4 DEF IndexedByKey
      <3> QED
        BY <1>2, <3>1, <3>2, <3>3, <3>4
        DEF Next, vars, Create, Update, Rename, Get, FindByRequestID, List, ReadRuns,
            Writer, Synced, SyncFailed, Audited, AuditFailed, Process, ProcessCrash, PowerLoss, End
    <2>4. \A r \in Runs : durable[r] \in Nat /\ durable'[r] \in Nat
      BY <2>1 DEF IInv, TypeOK
    <2> QED  BY <2>1, <2>2, <2>3, <2>4
  <1> QED  BY <1>1, <1>2

\* A call returns with nothing, or with a durable run that it may be answered with.
LEMMA ReturnKeeps ==
  ASSUME CreationIInv, IInv', \A r \in Runs : durable[r] > 0 => durable'[r] > 0,
         NEW c \in Runs, NEW r \in Runs \cup {None}, Return(c, r),
         r # None => durable'[r] > 0 /\ KeyOf[r] = KeyOf[c] /\ Compatible(c, r)
  PROVE  CreationTypeOK' /\ Answered'
  <1>1. CreationTypeOK'
    BY DEF CreationIInv, CreationTypeOK, Return, CallStates, IInv
  <1>2. \A d \in Runs : reply'[d] = IF d = c THEN r ELSE reply[d]
    BY DEF CreationIInv, CreationTypeOK, Return
  <1>3. \A d \in Runs : reply[d] \in Runs \cup {None}
    BY DEF CreationIInv, CreationTypeOK
  <1> QED  BY <1>1, <1>2, <1>3 DEF CreationIInv, Answered

\* A step that answers nobody.
LEMMA NoReplyKeeps ==
  ASSUME CreationIInv, IInv', \A r \in Runs : durable[r] > 0 => durable'[r] > 0,
         UNCHANGED reply, call' \in [Runs -> CallStates]
  PROVE  CreationTypeOK' /\ Answered'
  <1>1. \A d \in Runs : reply[d] \in Runs \cup {None}
    BY DEF CreationIInv, CreationTypeOK
  <1> QED  BY <1>1 DEF CreationIInv, CreationTypeOK, IInv, Answered

\* The run that FindByRequestID finds has the key, and its read has synced it.
LEMMA FoundIsDurable ==
  ASSUME CreationIInv, NEW c \in Runs, FindByRequestID(KeyOf[c])
  PROVE  LET r == byRequest[KeyOf[c]] IN
           r \in Runs \cup {None} /\ (r # None => durable'[r] > 0 /\ KeyOf[r] = KeyOf[c])
  <1>1. open /\ memory = disk /\ durable' = disk
    BY DEF FindByRequestID, ReadRuns, Free, CreationIInv, IInv, Coherent, Pending
  <1>2. KeyOf[c] \in Keys /\ byRequest[KeyOf[c]] \in Runs \cup {None}
    BY KeyAssumption DEF CreationIInv, IInv, TypeOK
  <1>3. ASSUME NEW r \in Runs, r = byRequest[KeyOf[c]], r # None
        PROVE  KeyOf[r] = KeyOf[c] /\ memory[r] > 0
    BY <1>1, <1>2, <1>3 DEF CreationIInv, IInv, IndexedByKey, Coherent
  <1> QED  BY <1>1, <1>2, <1>3

\* Every step of the calls keeps CreationIInv, and is one of the store's promise.
LEMMA CreationInductive ==
  CreationIInv /\ [NextCreation]_allVars => CreationIInv' /\ [Promise!Next]_<<disk, told>>
  <1> SUFFICES ASSUME CreationIInv, [NextCreation]_allVars
               PROVE  CreationIInv' /\ [Promise!Next]_<<disk, told>>
    OBVIOUS
  <1>1. /\ IInv' /\ IndexedByKey'
        /\ \A r \in Runs : durable[r] > 0 => durable'[r] > 0
        /\ [Promise!Next]_<<disk, told>>
    BY CreationMoves, StoreKept DEF CreationIInv
  <1>t. call \in [Runs -> CallStates]
    BY DEF CreationIInv, CreationTypeOK
  <1>2. ASSUME NEW c \in Runs, FindFirst(c) \/ FindAgain(c) PROVE CreationTypeOK' /\ Answered'
    <2>1. FindByRequestID(KeyOf[c])
      BY <1>2 DEF FindFirst, FindAgain
    <2>2. PICK r \in Runs \cup {None} : /\ r = byRequest[KeyOf[c]]
                                        /\ r # None => durable'[r] > 0 /\ KeyOf[r] = KeyOf[c]
      BY <2>1, FoundIsDurable
    <2>3. CASE Continue(c, "create")
      BY <1>1, <1>t, <2>3, NoReplyKeeps DEF Continue, CallStates
    <2>4. ASSUME NEW q \in {r, None}, Return(c, q), q # None => Compatible(c, q)
          PROVE  CreationTypeOK' /\ Answered'
      BY <1>1, <2>2, <2>4, ReturnKeeps
    <2> QED  BY <1>2, <2>2, <2>3, <2>4 DEF FindFirst, FindAgain
  <1>3. ASSUME NEW c \in Runs, CreateFresh(c) PROVE CreationTypeOK' /\ Answered'
    BY <1>1, <1>3, <1>t, NoReplyKeeps DEF CreateFresh, Continue, CallStates
  <1>4. ASSUME NEW c \in Runs, CallFails(c) PROVE CreationTypeOK' /\ Answered'
    BY <1>1, <1>4, ReturnKeeps DEF CallFails
  <1>5. ASSUME WriteGoesOn PROVE CreationTypeOK' /\ Answered'
    <2>1. PICK r \in Runs : r = busy
      BY <1>5 DEF WriteGoesOn, Writer, Synced, SyncFailed, Audited, AuditFailed, CreationIInv, IInv, TypeOK,
                  Coherent
    <2>2. CASE UNCHANGED callVars
      <3>1. call' = call /\ reply' = reply
        BY <2>2 DEF callVars
      <3> QED  BY <1>1, <1>t, <3>1, NoReplyKeeps
    <2>3. CASE Audited /\ Return(busy, busy)
      <3>1. durable'[r] > 0
        BY <2>1, <2>3 DEF Audited, CreationIInv, IInv, Coherent, Pending
      <3>2. Return(r, r)
        BY <2>1, <2>3 DEF Return
      <3>3. Compatible(r, r)
        BY DEF Compatible
      <3> QED  BY <1>1, <3>1, <3>2, <3>3, ReturnKeeps
    <2>4. CASE Return(busy, None)
      <3>1. Return(r, None)
        BY <2>1, <2>4 DEF Return
      <3> QED  BY <1>1, <3>1, ReturnKeeps
    <2> QED  BY <1>5, <2>2, <2>3, <2>4 DEF WriteGoesOn
  <1>6. ASSUME Elsewhere \/ UNCHANGED allVars PROVE CreationTypeOK' /\ Answered'
    <2>1. call' = call /\ reply' = reply
      BY <1>6 DEF Elsewhere, callVars, allVars
    <2> QED  BY <1>1, <1>t, <2>1, NoReplyKeeps
  <1>7. ASSUME Restarts PROVE CreationTypeOK' /\ Answered'
    <2>1. call' \in [Runs -> CallStates] /\ reply' = reply
      BY <1>7, <1>t DEF Restarts, CallStates
    <2> QED  BY <1>1, <2>1, NoReplyKeeps
  <1>8. CreationTypeOK' /\ Answered'
    BY <1>2, <1>3, <1>4, <1>5, <1>6, <1>7 DEF NextCreation, CreateRun
  <1> QED  BY <1>1, <1>8 DEF CreationIInv

\* No call was answered at the start.
LEMMA CreationInit == InitCreation => CreationIInv
  <1> SUFFICES ASSUME InitCreation PROVE CreationIInv
    OBVIOUS
  <1>1. IInv
    BY InitIsFine DEF InitCreation
  <1> QED  BY <1>1 DEF InitCreation, Init, CreationIInv, CreationTypeOK, CallStates, IInv, IndexedByKey, Answered

\* CreationIInv holds of every state of the service's creations (service.go,
\* CreateRun) over the store, whatever fails in between.
THEOREM CreationInvariance == SpecCreation => []CreationIInv
  <1>1. CreationIInv /\ [NextCreation]_allVars => CreationIInv'
    BY CreationInductive
  <1> QED  BY <1>1, CreationInit, PTL DEF SpecCreation

\* Calls and answers keep their types.
THEOREM CreationTypeCorrect == SpecCreation => []CreationTypeOK
  <1>1. CreationIInv => CreationTypeOK
    BY DEF CreationIInv
  <1> QED  BY <1>1, CreationInvariance, PTL

\* What compareCreation lets pass: two automatic calls, or two manual ones of one
\* agent and one input.
LEMMA ComparedAgree ==
  ASSUME NEW c, NEW r, Compatible(c, r)
  PROVE  /\ c \in Manual <=> r \in Manual
         /\ c \in Manual => AgentOf[r] = AgentOf[c] /\ InputOf[r] = InputOf[c]
  BY DEF Compatible, CreationFingerprint

\* All answers to one request id name one durable run, manual or automatic as
\* the caller is, and with the agent and the input of a manual one: for any
\* calls, agents and inputs, and over all that may fail.
THEOREM AnswersAgree == SpecCreation => []OneAnswer
  <1>1. CreationIInv => OneAnswer
    <2> SUFFICES ASSUME CreationIInv, NEW c \in Runs, reply[c] # None
                 PROVE  /\ durable[reply[c]] > 0 /\ Compatible(c, reply[c])
                        /\ \A d \in Runs : KeyOf[c] = KeyOf[d] /\ reply[d] # None => reply[c] = reply[d]
      BY ComparedAgree DEF OneAnswer
    <2>1. durable[reply[c]] > 0 /\ Compatible(c, reply[c])
      BY DEF CreationIInv, Answered
    <2>2. ASSUME NEW d \in Runs, KeyOf[c] = KeyOf[d], reply[d] # None PROVE reply[c] = reply[d]
      <3>1. reply[c] \in Runs /\ reply[d] \in Runs
        BY <2>2 DEF CreationIInv, CreationTypeOK
      <3>2. \A r \in Runs : durable[r] > 0 => disk[r] > 0
        BY DEF CreationIInv, IInv, Backed, TypeOK
      <3> QED  BY <2>2, <3>1, <3>2 DEF CreationIInv, Answered, IInv, OneRunPerRequest, SameRequest
    <2> QED  BY <2>1, <2>2
  <1> QED  BY <1>1, CreationInvariance, PTL

\* What the store keeps by itself it keeps under CreateRun.
THEOREM StoreIsSafeUnderCreation ==
  SpecCreation => [](ToldIsDurable /\ OneRunPerRequest /\ MemoryIsDisk /\ AuditIsDurable)
  <1>1. CreationIInv => ToldIsDurable /\ OneRunPerRequest /\ MemoryIsDisk /\ AuditIsDurable
    BY DEF CreationIInv, IInv, Backed, ToldIsDurable, Coherent, Pending, MemoryIsDisk, Free
  <1> QED  BY <1>1, CreationInvariance, PTL

\* So does its promise to the service: the calls add no step of their own to it.
THEOREM CreationRefines == SpecCreation => KeepsItsPromise
  <1>1. InitCreation => Promise!Init
    BY DEF InitCreation, Init, Promise!Init
  <1> QED  BY <1>1, CreationInit, CreationInductive, PTL DEF SpecCreation, KeepsItsPromise, Promise!Spec
==============================================================================
