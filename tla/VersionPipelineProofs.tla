------------------------ MODULE VersionPipelineProofs ------------------------
(***************************************************************************)
(* What VersionPipeline guarantees for every number of versions, budget of *)
(* retries, set of operations and set of faults; and, in the second half,  *)
(* what it guarantees when users wait for the document to settle, under    *)
(* the restrictions on operations and faults that each theorem names.      *)
(***************************************************************************)
EXTENDS VersionPipeline, TLAPS

\* Every row and message speaks of versions and jobs that exist: nothing refers
\* to a version number that has not been given out.
Known ==
    /\ latest <= nver /\ lastEmb <= nver
    /\ \A j \in 1 .. nver : job[j].ver <= nver
    /\ \A m \in queue : m.id <= nver
    /\ \A r \in running : r.id <= nver /\ r.ver <= nver

IInv == TypeOK /\ Known /\ SingleActiveVersion

--------------------------------------------------------------------------------
(* The pieces the actions are made of.                                     *)

LEMMA MsgType ==
    ASSUME NEW k \in Kinds, NEW i \in Versions
    PROVE  Msg(k, i) \in Message /\ Msg(k, i).id = i
BY DEF Msg, Message

LEMMA BegunType ==
    ASSUME NEW k \in Kinds, NEW i \in Versions, NEW v \in Versions, NEW w \in BOOLEAN
    PROVE  /\ Begun(k, i, v, w) \in Activity
           /\ Begun(k, i, v, w).id = i /\ Begun(k, i, v, w).ver = v
BY DEF Begun, Activity

LEMMA ChainType ==
    ASSUME NEW k \in Chained
    PROVE  /\ k \in Kinds
           /\ Dispatches[k] \in Kinds /\ StatusAfter[k] \in Status
BY DEF Chained, Dispatches, StatusAfter, Kinds, Tasks, Events, Status, IngestSteps

\* What a step that takes, finishes or advances work does to the messages.
Flows(q, s) ==
    /\ q \in SUBSET Message /\ s \in SUBSET Activity
    /\ \A m \in q : m.id <= nver
    /\ \A r \in s : r.id <= nver /\ r.ver <= nver

LEMMA TakeFlows ==
    ASSUME TypeOK, Known, NEW m, NEW r \in Activity, Take(m, r),
           r.id <= nver, r.ver <= nver
    PROVE  Flows(queue', running')
BY DEF TypeOK, Known, Take, Flows

LEMMA FinishFlows ==
    ASSUME TypeOK, Known, NEW r, NEW ms \in SUBSET Message, Finish(r, ms),
           \A m \in ms : m.id <= nver
    PROVE  Flows(queue', running')
BY DEF TypeOK, Known, Finish, Flows

LEMMA AdvanceFlows ==
    ASSUME TypeOK, Known, NEW r, NEW new \in Activity, NEW ms \in SUBSET Message,
           Advance(r, new, ms), \A m \in ms : m.id <= nver,
           new.id <= nver, new.ver <= nver
    PROVE  Flows(queue', running')
BY DEF TypeOK, Known, Advance, Flows

\* A step that creates no version keeps Known when it keeps these.
LEMMA FlowsKnown ==
    ASSUME Known, Flows(queue', running'), UNCHANGED nver, latest' <= nver,
           lastEmb' <= nver, \A j \in 1 .. nver : job'[j].ver <= nver
    PROVE  Known'
BY DEF Known, Flows

--------------------------------------------------------------------------------
(* Type correctness.                                                       *)

LEMMA InitType == Init => TypeOK
BY MaxVersionAssumption, BudgetAssumption
   DEF Init, TypeOK, NewJob, Msg, Message, Versions, Status, IngestSteps, JobStatus,
       MetaStatus, Kinds, Tasks, Events

LEMMA RecordFailureType ==
    ASSUME TypeOK, NEW j \in Versions, NEW ver, RecordFailure(j, ver)
    PROVE  /\ status' \in Status /\ latest' \in Versions /\ active' \in SUBSET Versions
           /\ active' \subseteq active
           /\ UNCHANGED <<latest, nver, lastEmb>>
           /\ job' \in [Versions -> [ver : Versions, status : JobStatus, retries : Nat]]
           /\ \A i \in Versions : job'[i].ver = job[i].ver
BY DEF RecordFailure, StillActive, TypeOK, Status, JobStatus

LEMMA CreateVersionType ==
    ASSUME TypeOK, CreateVersion
    PROVE  /\ nver < MaxVersion /\ nver' = nver + 1 /\ nver' \in Versions
           /\ job' \in [Versions -> [ver : Versions, status : JobStatus, retries : Nat]]
           /\ \A j \in Versions : job'[j].ver = IF j = nver' THEN nver' ELSE job[j].ver
           /\ queue' = queue \cup {Msg("ingest", nver')}
           /\ queue' \in SUBSET Message
           /\ UNCHANGED <<active, lastEmb, chunks, gen, points, meta, faults>>
<1>1. nver' \in Versions /\ nver < MaxVersion /\ nver' = nver + 1
  BY MaxVersionAssumption DEF CreateVersion, TypeOK, Versions
<1>2. Msg("ingest", nver') \in Message
  BY <1>1, MsgType DEF Kinds, Tasks
<1> QED
  BY <1>1, <1>2 DEF CreateVersion, TypeOK, NewJob, JobStatus, idxVars

LEMMA RestartLatestType ==
    ASSUME TypeOK, RestartLatest
    PROVE  /\ job' \in [Versions -> [ver : Versions, status : JobStatus, retries : Nat]]
           /\ \A j \in Versions : job'[j].ver = IF j = nver THEN latest ELSE job[j].ver
           /\ queue' = queue \cup {Msg("ingest", nver)}
           /\ queue' \in SUBSET Message
           /\ status' \in Status
           /\ UNCHANGED <<latest, active, nver, lastEmb, running>>
<1>1. Msg("ingest", nver) \in Message
  BY MsgType DEF Kinds, Tasks, TypeOK
<1> QED
  BY <1>1 DEF RestartLatest, TypeOK, NewJob, JobStatus, Status

LEMMA WriteType ==
    ASSUME TypeOK, NEW r, NEW new \in Status
    PROVE  Write(r, new) \in Status
BY DEF TypeOK, Write

\* An upload in progress holds nothing but what it read.
LEMMA UploadType ==
    ASSUME TypeOK
    PROVE  /\ Begun("upload", latest, latest, WillWrite("UPLOADED")) \in Activity
           /\ Begun("upload", latest, latest, WillWrite("UPLOADED")).id = latest
           /\ Begun("upload", latest, latest, WillWrite("UPLOADED")).ver = latest
<1>1. WillWrite("UPLOADED") \in BOOLEAN /\ latest \in Versions /\ "upload" \in Kinds
  BY DEF WillWrite, TypeOK, Kinds
<1> QED
  BY <1>1, BegunType

LEMMA UserType == TypeOK /\ UserStep => TypeOK'
<1> SUFFICES ASSUME TypeOK, UserStep PROVE TypeOK'
  OBVIOUS
<1> USE DEF Call
<1>1. ASSUME NEW r \in running, UploadNewVersion(r) PROVE TypeOK'
  <2>1. status' \in Status
    BY <1>1, WriteType DEF UploadNewVersion, Status
  <2> QED
    BY <1>1, <2>1, CreateVersionType DEF UploadNewVersion, TypeOK
<1>2. CASE RollbackToVersion
  BY <1>2, CreateVersionType DEF RollbackToVersion, TypeOK, Status
<1>3. CASE RetryDocument
  BY <1>3, RestartLatestType DEF RetryDocument, idxVars, TypeOK
<1>4. CASE ReingestDocument
  BY <1>4, RestartLatestType DEF ReingestDocument, Inject, TypeOK, MetaStatus
<1>5. CASE ArchiveDocument
  <2>1. Msg("purge", latest) \in Message
    BY MsgType DEF Kinds, Tasks, TypeOK
  <2> QED
    BY <1>5, <2>1 DEF ArchiveDocument, jobVars, idxVars, TypeOK, Status
<1>6. CASE RestoreDocument
  <2>1. Msg("restore", latest) \in Message
    BY MsgType DEF Kinds, Tasks, TypeOK
  <2> QED
    BY <1>6, <2>1 DEF RestoreDocument, jobVars, idxVars, TypeOK, Status
<1>7. CASE UploadBegin
  BY <1>7, UploadType DEF UploadBegin, docVars, jobVars, idxVars, TypeOK
<1> QED
  BY <1>1, <1>2, <1>3, <1>4, <1>5, <1>6, <1>7 DEF UserStep

--------------------------------------------------------------------------------
(* The work: no step of it creates a version.                              *)

Rows(j) == j \in [Versions -> [ver : Versions, status : JobStatus, retries : Nat]]

\* What a step of the work owes to type correctness and to Known.
Keeps ==
    /\ Flows(queue', running')
    /\ status' \in Status /\ latest' \in Versions /\ latest' <= nver
    /\ active' \in SUBSET Versions
    /\ UNCHANGED nver /\ lastEmb' \in 0 .. nver
    /\ Rows(job') /\ \A j \in Versions : job'[j].ver = job[j].ver
    /\ chunks' \in [Versions -> {"none", "chunked", "embedded"}]
    /\ gen' \in [Versions -> Nat] /\ points' \in [Versions -> Nat]
    /\ meta' \in [Versions -> MetaStatus]
    /\ ops' \in Nat /\ faults' \in Nat

LEMMA KeepsEnough == TypeOK /\ Known /\ Keeps => TypeOK' /\ Known'
<1> SUFFICES ASSUME TypeOK, Known, Keeps PROVE TypeOK' /\ Known'
  OBVIOUS
<1>1. lastEmb' \in 0 .. MaxVersion /\ lastEmb' <= nver
  BY MaxVersionAssumption DEF TypeOK, Keeps, Versions
<1>2. TypeOK'
  BY <1>1 DEF TypeOK, Keeps, Flows, Rows
<1>3. ASSUME NEW j \in 1 .. nver PROVE job'[j].ver <= nver
  <2>1. nver \in Versions
    BY DEF TypeOK
  <2>2. j \in Versions
    BY <2>1, MaxVersionAssumption DEF Versions
  <2> QED
    BY <2>2 DEF Known, Keeps
<1>4. Known'
  BY <1>1, <1>3 DEF Known, Keeps, Flows
<1> QED
  BY <1>2, <1>4

LEMMA QueueType ==
    ASSUME TypeOK, Known, NEW m \in queue
    PROVE  /\ m \in Message /\ m.kind \in Kinds /\ m.id \in Versions /\ m.id <= nver
           /\ job[m.id].ver \in Versions /\ job[m.id].ver <= nver
<1>1. m \in Message /\ m.kind \in Kinds /\ m.id \in Versions /\ m.id <= nver
  BY DEF TypeOK, Known, Message
<1>2. nver \in Versions
  BY DEF TypeOK
<1>3. m.id \in 1 .. nver
  BY <1>1, <1>2, MaxVersionAssumption DEF Versions
<1> QED
  BY <1>1, <1>3 DEF TypeOK, Known

LEMMA RunningType ==
    ASSUME TypeOK, Known, NEW r \in running
    PROVE  /\ r \in Activity /\ r.kind \in Kinds /\ r.gen \in Nat /\ r.writes \in BOOLEAN
           /\ r.id \in Versions /\ r.id <= nver /\ r.ver \in Versions /\ r.ver <= nver
BY DEF TypeOK, Known, Activity

LEMMA JobStatusType ==
    ASSUME TypeOK, NEW j \in Versions, NEW st \in JobStatus,
           job' = [job EXCEPT ![j].status = st]
    PROVE  Rows(job') /\ \A i \in Versions : job'[i].ver = job[i].ver
BY DEF TypeOK, Rows

LEMMA JobRetryType ==
    ASSUME TypeOK, NEW j \in Versions, NEW st \in JobStatus,
           job' = [job EXCEPT ![j] = Retried(j, st)]
    PROVE  Rows(job') /\ \A i \in Versions : job'[i].ver = job[i].ver
BY DEF TypeOK, Rows, Retried

LEMMA StepsType ==
    ASSUME NEW r \in Activity,
           NEW st \in {"VALIDATING", "EXTRACTING", "begun", "conflict", "dispatched", "published"}
    PROVE  /\ [r EXCEPT !.step = st] \in Activity
           /\ [r EXCEPT !.step = st].id = r.id /\ [r EXCEPT !.step = st].ver = r.ver
BY DEF Activity, IngestSteps

LEMMA SyncBegunType ==
    ASSUME TypeOK, NEW k \in Kinds, NEW v \in Versions, NEW w \in BOOLEAN
    PROVE  /\ SyncBegun(k, v, w) \in Activity
           /\ SyncBegun(k, v, w).id = v /\ SyncBegun(k, v, w).ver = v
<1>1. (IF chunks[v] = "embedded" THEN gen[v] ELSE 0) \in Nat
  BY DEF TypeOK
<1> QED
  BY <1>1 DEF SyncBegun, Activity, IngestSteps

\* Taking a message: the first disjuncts of BeginWork.
LEMMA BeginKeeps ==
    ASSUME TypeOK, Known, NEW m \in queue, BeginWork(m)
    PROVE  Keeps
<1>1. /\ m.kind \in Kinds /\ m.id \in Versions /\ m.id <= nver
      /\ job[m.id].ver \in Versions /\ job[m.id].ver <= nver
  BY QueueType
<1>2. \A w \in BOOLEAN : /\ Begun(m.kind, m.id, m.id, w) \in Activity
                         /\ Begun(m.kind, m.id, m.id, w).id <= nver
                         /\ Begun(m.kind, m.id, m.id, w).ver <= nver
  BY <1>1, BegunType
<1>3. ASSUME queue' = queue \ {m}, UNCHANGED running
      PROVE  Flows(queue', running')
  BY <1>3 DEF TypeOK, Known, Flows
<1>4. CASE IngestSkip(m)
  BY <1>3, <1>4 DEF IngestSkip, TypeOK, Known, Keeps, Rows, docVars, jobVars, idxVars
<1>5. CASE IngestBegin(m)
  <2> DEFINE w == active \subseteq {job[m.id].ver} /\ status # "READY"
             b == Begun("ingest", m.id, job[m.id].ver, w)
             r == [b EXCEPT !.step = "VALIDATING"]
  <2>1. w \in BOOLEAN /\ "ingest" \in Kinds
    BY DEF Kinds, Tasks
  <2>2. b \in Activity /\ b.id = m.id /\ b.ver = job[m.id].ver
    <3> HIDE DEF w
    <3> QED
      BY <1>1, <2>1, BegunType
  <2>3. r \in Activity /\ r.id <= nver /\ r.ver <= nver
    <3> HIDE DEF b
    <3> QED
      BY <1>1, <2>2, StepsType
  <2>4. Flows(queue', running')
    BY <1>5, <2>3, TakeFlows DEF IngestBegin
  <2>5. status' \in Status
    BY <1>5, WriteType DEF IngestBegin, Status, IngestSteps
  <2>6. /\ Rows(job') /\ \A j \in Versions : job'[j].ver = job[j].ver
    BY <1>1, <1>5, JobStatusType DEF IngestBegin, JobStatus
  <2> QED
    BY <1>5, <2>4, <2>5, <2>6 DEF IngestBegin, TypeOK, Known, Keeps, idxVars
<1>6. CASE ListenerBegin(m)
  <2>1. WillWrite(StatusAfter[m.kind]) \in BOOLEAN
    BY DEF WillWrite
  <2>2. Flows(queue', running')
    BY <1>2, <1>6, <2>1, TakeFlows DEF ListenerBegin
  <2> QED
    BY <1>6, <2>2 DEF ListenerBegin, TypeOK, Known, Keeps, Rows, docVars, jobVars, idxVars
<1>7. CASE ListenerIgnore(m)
  BY <1>3, <1>7 DEF ListenerIgnore, TypeOK, Known, Keeps, Rows, docVars, jobVars, idxVars
<1>8. CASE StageBegin(m)
  <2>1. (m.kind = "chunk" /\ WillWrite("CHUNKED")) \in BOOLEAN
    BY DEF WillWrite
  <2>2. Flows(queue', running')
    BY <1>2, <1>8, <2>1, TakeFlows DEF StageBegin
  <2> QED
    BY <1>8, <2>2 DEF StageBegin, TypeOK, Known, Keeps, Rows, docVars, jobVars, idxVars
<1>9. CASE SyncBegin(m)
  <2>1. Flows(queue', running')
    BY <1>1, <1>9, SyncBegunType, TakeFlows DEF SyncBegin
  <2> QED
    BY <1>9, <2>1 DEF SyncBegin, TypeOK, Known, Keeps, Rows, docVars, jobVars, idxVars
<1>10. CASE Promote(m)
  <2>1. /\ latest' \in Versions /\ latest' <= nver /\ active' \in SUBSET Versions
        /\ status' \in Status
    BY <1>1, <1>10 DEF Promote, OnlyActive, TypeOK, Known, Status
  <2>2. /\ Begun("cleanup", latest', latest', FALSE) \in Activity
        /\ Begun("cleanup", latest', latest', FALSE).id <= nver
        /\ Begun("cleanup", latest', latest', FALSE).ver <= nver
    BY <2>1, BegunType DEF Kinds
  <2>3. Flows(queue', running')
    BY <1>10, <2>2, TakeFlows DEF Promote
  <2> QED
    BY <1>10, <2>1, <2>3 DEF Promote, TypeOK, Known, Keeps, Rows, jobVars, idxVars
<1>11. CASE PurgeArchived(m)
  <2>1. points' \in [Versions -> Nat] /\ faults' \in Nat
    BY <1>11 DEF PurgeArchived, Inject, TypeOK
  <2> QED
    BY <1>3, <1>11, <2>1 DEF PurgeArchived, TypeOK, Known, Keeps, Rows, docVars, jobVars
<1>12. CASE RestoreBegin(m)
  <2>1. WillWrite("READY") \in BOOLEAN /\ "restore" \in Kinds
    BY DEF WillWrite, Kinds, Tasks
  <2>2. Flows(queue', running')
    BY <1>1, <1>12, <2>1, SyncBegunType, TakeFlows DEF RestoreBegin
  <2> QED
    BY <1>12, <2>2 DEF RestoreBegin, TypeOK, Known, Keeps, Rows, docVars, jobVars, idxVars
<1>13. CASE LockRefused(m)
  BY <1>3, <1>13 DEF LockRefused, TypeOK, Known, Keeps, Rows, docVars, jobVars, idxVars
<1> QED
  BY <1>4, <1>5, <1>6, <1>7, <1>8, <1>9, <1>10, <1>11, <1>12, <1>13 DEF BeginWork

LEMMA IndexType ==
    ASSUME TypeOK, Known, NEW r \in running, Index(r)
    PROVE  points' \in [Versions -> Nat] /\ meta' \in [Versions -> MetaStatus]
BY RunningType DEF Index, SetMeta, TypeOK, MetaStatus

LEMMA FailedIndexType ==
    ASSUME TypeOK, Known, NEW r \in running, FailedIndex(r)
    PROVE  /\ points' \in [Versions -> Nat] /\ meta' \in [Versions -> MetaStatus]
           /\ UNCHANGED <<chunks, gen>>
BY RunningType DEF FailedIndex, PartialUpsert, SetMeta, TypeOK, MetaStatus

\* Work in progress: every disjunct of DoWork finishes or advances r.
LEMMA DoKeeps ==
    ASSUME TypeOK, Known, NEW r \in running, DoWork(r)
    PROVE  Keeps
<1>1. /\ r \in Activity /\ r.kind \in Kinds /\ r.gen \in Nat
      /\ r.id \in Versions /\ r.id <= nver /\ r.ver \in Versions /\ r.ver <= nver
  BY RunningType
<1>2. Finish(r, {}) => Flows(queue', running')
  BY FinishFlows
<1>3. \A k \in Kinds, i \in Versions :
        i <= nver => {Msg(k, i)} \in SUBSET Message /\ \A m \in {Msg(k, i)} : m.id <= nver
  BY MsgType
<1>4. \A k \in Kinds, i \in Versions :
        i <= nver /\ Finish(r, {Msg(k, i)}) => Flows(queue', running')
  BY <1>3, FinishFlows
<1>5. ASSUME NEW st \in {"EXTRACTING", "dispatched", "published"},
             NEW ms \in SUBSET Message, \A m \in ms : m.id <= nver,
             Advance(r, [r EXCEPT !.step = st], ms)
      PROVE  Flows(queue', running')
  BY <1>1, <1>5, StepsType, AdvanceFlows
<1>6. CASE IngestExtract(r)
  <2>1. Flows(queue', running')
    BY <1>5, <1>6 DEF IngestExtract
  <2>2. status' \in Status
    BY <1>6, WriteType DEF IngestExtract, Status, IngestSteps
  <2>3. Rows(job') /\ \A j \in Versions : job'[j].ver = job[j].ver
    BY <1>1, <1>6, JobStatusType DEF IngestExtract, JobStatus
  <2> QED
    BY <1>6, <2>1, <2>2, <2>3 DEF IngestExtract, TypeOK, Known, Keeps, idxVars
<1>7. CASE IngestFinish(r)
  <2>1. Flows(queue', running')
    BY <1>1, <1>4, <1>7 DEF IngestFinish, Kinds, Events
  <2>2. status' \in Status
    BY <1>7, WriteType DEF IngestFinish, Status, IngestSteps
  <2>3. Rows(job') /\ \A j \in Versions : job'[j].ver = job[j].ver
    BY <1>1, <1>7, JobStatusType DEF IngestFinish, JobStatus
  <2> QED
    BY <1>7, <2>1, <2>2, <2>3 DEF IngestFinish, TypeOK, Known, Keeps, idxVars
<1>8. CASE ListenerDispatch(r)
  <2>1. Dispatches[r.kind] \in Kinds
    BY <1>8, ChainType DEF ListenerDispatch
  <2> DEFINE ms == {Msg(Dispatches[r.kind], r.id)}
  <2>2. ms \in SUBSET Message /\ \A m \in ms : m.id <= nver
    BY <1>1, <1>3, <2>1
  <2>3. Flows(queue', running')
    BY <1>5, <1>8, <2>2 DEF ListenerDispatch
  <2>4. lastEmb' \in 0 .. nver
    <3>1. lastEmb' = lastEmb \/ lastEmb' = r.id
      BY <1>8 DEF ListenerDispatch
    <3>2. nver \in Versions /\ lastEmb \in 0 .. MaxVersion /\ lastEmb <= nver
      BY DEF TypeOK, Known
    <3> QED
      BY <1>1, <3>1, <3>2, MaxVersionAssumption DEF Versions
  <2> QED
    BY <1>8, <2>3, <2>4 DEF ListenerDispatch, TypeOK, Known, Keeps, Rows, docVars, idxVars
<1>9. CASE ListenerWrite(r)
  <2>1. status' \in Status
    BY <1>9, ChainType, WriteType DEF ListenerWrite
  <2> QED
    BY <1>2, <1>9, <2>1 DEF ListenerWrite, TypeOK, Known, Keeps, Rows, jobVars, idxVars
<1>10. CASE ChunkFinish(r)
  <2>1. Flows(queue', running')
    BY <1>1, <1>4, <1>10 DEF ChunkFinish, Kinds, Events
  <2>2. status' \in Status
    BY <1>10, WriteType DEF ChunkFinish, Status
  <2> QED
    BY <1>1, <1>10, <2>1, <2>2 DEF ChunkFinish, TypeOK, Known, Keeps, Rows, jobVars
<1>11. CASE EmbedPublish(r)
  <2>1. Flows(queue', running')
    BY <1>1, <1>3, <1>5, <1>11 DEF EmbedPublish, Kinds, Events
  <2> QED
    BY <1>11, <2>1 DEF EmbedPublish, TypeOK, Known, Keeps, Rows, docVars, jobVars, idxVars
<1>12. CASE EmbedCommit(r)
  BY <1>1, <1>2, <1>12 DEF EmbedCommit, TypeOK, Known, Keeps, Rows, docVars, jobVars
<1>13. CASE SyncNothing(r)
  BY <1>2, <1>13 DEF SyncNothing, TypeOK, Known, Keeps, Rows, docVars, jobVars, idxVars
<1>14. CASE SyncFinish(r)
  <2>1. Flows(queue', running')
    BY <1>1, <1>4, <1>14 DEF SyncFinish, Kinds, Events
  <2> QED
    BY <1>14, <2>1, IndexType DEF SyncFinish, TypeOK, Known, Keeps, Rows, docVars, jobVars
<1>15. CASE SyncConflict(r)
  <2>1. nver \in Versions
    BY DEF TypeOK
  <2> QED
    BY <1>2, <1>15, <2>1, RecordFailureType
       DEF SyncConflict, TypeOK, Known, Keeps, Rows, idxVars
<1>16. CASE Cleanup(r)
  <2>1. faults' \in Nat
    BY <1>16 DEF Cleanup, Inject, TypeOK
  <2>2. meta' \in [Versions -> MetaStatus] /\ points' \in [Versions -> Nat]
    BY <1>16 DEF Cleanup, TypeOK, MetaStatus
  <2> QED
    BY <1>2, <1>16, <2>1, <2>2 DEF Cleanup, TypeOK, Known, Keeps, Rows, docVars, jobVars
<1>17. CASE RestoreSync(r)
  <2>1. Flows(queue', running')
    BY <1>1, <1>3, <1>5, <1>17 DEF RestoreSync, Kinds, Events
  <2> QED
    BY <1>17, <2>1, IndexType DEF RestoreSync, TypeOK, Known, Keeps, Rows, docVars, jobVars
<1>18. CASE RestoreFinish(r)
  <2>1. status' \in Status
    BY <1>18, WriteType DEF RestoreFinish, Status
  <2> QED
    BY <1>2, <1>18, <2>1 DEF RestoreFinish, TypeOK, Known, Keeps, Rows, jobVars, idxVars
<1>19. CASE EmbedRecord(r)
  <2> DEFINE new == [r EXCEPT !.gen = gen[r.id]]
  <2>1. gen[r.id] \in Nat
    BY <1>1 DEF TypeOK
  <2>2. new \in Activity /\ new.id = r.id /\ new.ver = r.ver
    BY <1>1, <2>1 DEF Activity
  <2>3. Advance(r, new, {})
    BY <1>19 DEF EmbedRecord
  <2> HIDE DEF new
  <2>4. {} \in SUBSET Message /\ new.id <= nver /\ new.ver <= nver
    BY <1>1, <2>2
  <2>5. Flows(queue', running')
    BY <2>2, <2>3, <2>4, AdvanceFlows
  <2> QED
    BY <1>1, <1>19, <2>5 DEF EmbedRecord, TypeOK, Known, Keeps, Rows, docVars, jobVars
<1> QED
  BY <1>6, <1>7, <1>8, <1>9, <1>10, <1>11, <1>12, <1>13, <1>14, <1>15, <1>16, <1>17,
     <1>18, <1>19 DEF DoWork

\* Work that fails, is lost, or is delivered again.
LEMMA FailKeeps ==
    ASSUME TypeOK, Known, NEW r \in running, FailWork(r)
    PROVE  Keeps
<1>1. /\ r \in Activity /\ r.kind \in Kinds /\ r.gen \in Nat
      /\ r.id \in Versions /\ r.id <= nver /\ r.ver \in Versions /\ r.ver <= nver
  BY RunningType
<1>2. Finish(r, {}) => Flows(queue', running')
  BY FinishFlows
<1>3. \A k \in Kinds : Msg(k, r.id) \in Message /\ Msg(k, r.id).id <= nver
  BY <1>1, MsgType
<1>4. \A k \in Kinds : Finish(r, {Msg(k, r.id)}) => Flows(queue', running')
  BY <1>3, FinishFlows
<1>5. \A f : Inject(f) => faults' \in Nat
  BY DEF Inject, TypeOK
<1>6. nver \in Versions
  BY DEF TypeOK
<1>7. CASE IngestRetry(r)
  <2>1. Flows(queue', running')
    BY <1>4, <1>7 DEF IngestRetry, Kinds, Tasks
  <2>2. Rows(job') /\ \A j \in Versions : job'[j].ver = job[j].ver
    BY <1>1, <1>7, JobRetryType DEF IngestRetry, JobStatus
  <2> QED
    BY <1>5, <1>7, <2>1, <2>2 DEF IngestRetry, TypeOK, Known, Keeps, docVars, idxVars
<1>8. CASE IngestFail(r)
  <2>1. status' \in Status
    BY <1>8 DEF IngestFail, Status
  <2>2. Rows(job') /\ \A j \in Versions : job'[j].ver = job[j].ver
    BY <1>1, <1>8, JobStatusType DEF IngestFail, JobStatus
  <2> QED
    BY <1>2, <1>5, <1>8, <2>1, <2>2 DEF IngestFail, TypeOK, Known, Keeps, idxVars
<1>9. CASE ListenerFail(r)
  BY <1>2, <1>5, <1>6, <1>9, RecordFailureType
     DEF ListenerFail, TypeOK, Known, Keeps, Rows, idxVars
<1>10. CASE StageRetry(r)
  <2>1. Flows(queue', running')
    BY <1>1, <1>4, <1>10 DEF StageRetry
  <2>2. /\ points' \in [Versions -> Nat] /\ meta' \in [Versions -> MetaStatus]
        /\ UNCHANGED <<chunks, gen>>
    BY <1>10, FailedIndexType DEF StageRetry
  <2>3. faults' \in Nat
    BY <1>5, <1>10 DEF StageRetry
  <2> QED
    BY <1>10, <2>1, <2>2, <2>3
       DEF StageRetry, TypeOK, Known, Keeps, Rows, docVars, jobVars
<1>11. CASE StageFail(r)
  <2>1. Flows(queue', running') /\ faults' \in Nat
    BY <1>2, <1>5, <1>11 DEF StageFail
  <2>2. /\ points' \in [Versions -> Nat] /\ meta' \in [Versions -> MetaStatus]
        /\ UNCHANGED <<chunks, gen>>
    BY <1>11, FailedIndexType DEF StageFail
  <2> QED
    BY <1>6, <1>11, <2>1, <2>2, RecordFailureType
       DEF StageFail, TypeOK, Known, Keeps, Rows
<1>12. CASE RestoreFail(r)
  <2>1. faults' \in Nat
    BY <1>5, <1>12 DEF RestoreFail, TypeOK
  <2> QED
    BY <1>2, <1>12, <2>1, FailedIndexType
       DEF RestoreFail, TypeOK, Known, Keeps, Rows, Status, jobVars
<1>13. CASE Lose(r)
  <2>1. points' \in [Versions -> Nat]
    BY <1>1, <1>13 DEF Lose, PartialUpsert, TypeOK
  <2> QED
    BY <1>2, <1>5, <1>13, <2>1 DEF Lose, TypeOK, Known, Keeps, Rows, docVars, jobVars
<1>14. CASE Redeliver(r)
  <2>1. Flows(queue', running')
    BY <1>1, <1>3, <1>14 DEF Redeliver, TypeOK, Known, Flows
  <2> QED
    BY <1>5, <1>14, <2>1
       DEF Redeliver, TypeOK, Known, Keeps, Rows, docVars, jobVars, idxVars
<1> QED
  BY <1>7, <1>8, <1>9, <1>10, <1>11, <1>12, <1>13, <1>14 DEF FailWork

LEMMA LoseEventKeeps ==
    ASSUME TypeOK, Known, NEW m \in queue, LoseEvent(m)
    PROVE  Keeps
BY DEF LoseEvent, Inject, TypeOK, Known, Keeps, Flows, Rows, docVars, jobVars, idxVars

LEMMA WatchdogKeeps ==
    ASSUME TypeOK, Known, Watchdog
    PROVE  Keeps
<1>1. nver \in Versions /\ latest \in Versions /\ latest <= nver
  BY DEF TypeOK, Known
<1>2. CASE WatchdogRedispatch
  <2>1. \A st \in DOMAIN StuckStage : StuckStage[st] \in Kinds
    BY DEF StuckStage, Kinds, Tasks
  <2>2. lastEmb # 0 => lastEmb \in Versions /\ lastEmb <= nver
    BY MaxVersionAssumption DEF TypeOK, Known, Versions
  <2>3. "embed" \in Kinds /\ "chunk" \in Kinds /\ status \in DOMAIN StuckStage
    BY <1>2 DEF Kinds, Tasks, WatchdogRedispatch, Stale
  <2>4. WatchdogTarget \in Message /\ WatchdogTarget.id <= nver
    BY <1>1, <2>1, <2>2, <2>3, MsgType DEF WatchdogTarget
  <2>5. Flows(queue', running')
    BY <1>2, <2>4 DEF WatchdogRedispatch, TypeOK, Known, Flows
  <2>6. Rows(job') /\ \A j \in Versions : job'[j].ver = job[j].ver
    BY <1>1, <1>2, JobRetryType DEF WatchdogRedispatch, JobStatus
  <2> QED
    BY <1>2, <2>5, <2>6 DEF WatchdogRedispatch, TypeOK, Known, Keeps, docVars, idxVars
<1>3. CASE WatchdogFail
  BY <1>1, <1>3, RecordFailureType
     DEF WatchdogFail, TypeOK, Known, Keeps, Flows, Rows, idxVars
<1> QED
  BY <1>2, <1>3 DEF Watchdog

--------------------------------------------------------------------------------
(* The users create versions and point jobs and the document to them.      *)

LEMMA UserKnown ==
    ASSUME TypeOK, Known, UserStep
    PROVE  Known'
<1>1. /\ nver \in Versions /\ nver \in Nat /\ nver + 1 \in Nat
      /\ latest \in Versions /\ latest \in Nat /\ latest <= nver
      /\ \A v \in Versions : v \in Nat
      /\ \A j \in 1 .. nver : j \in Versions
  <2>1. /\ \A v \in Versions : v \in Nat
        /\ \A v \in Versions : \A j \in 1 .. v : j \in Versions
    BY MaxVersionAssumption DEF Versions
  <2>2. nver \in Versions /\ latest \in Versions /\ latest <= nver
    BY DEF TypeOK, Known
  <2> QED
    BY <2>1, <2>2
<1>2. ASSUME CreateVersion, latest' \in {latest, nver + 1}, running' \subseteq running
      PROVE  Known'
  <2>1. /\ nver' = nver + 1 /\ nver' \in Versions
        /\ \A j \in Versions : job'[j].ver = IF j = nver' THEN nver' ELSE job[j].ver
        /\ queue' = queue \cup {Msg("ingest", nver')}
        /\ UNCHANGED lastEmb
    BY <1>2, CreateVersionType
  <2>2. Msg("ingest", nver').id = nver'
    BY DEF Msg
  <2>3. ASSUME NEW j \in 1 .. nver' PROVE job'[j].ver <= nver'
    <3>1. j \in Versions /\ (j = nver' \/ j \in 1 .. nver)
      BY <1>1, <2>1
    <3>2. CASE j = nver'
      BY <1>1, <2>1, <3>1, <3>2
    <3>3. CASE j # nver' /\ j \in 1 .. nver
      <4>1. job[j].ver \in Nat /\ job[j].ver <= nver
        BY <1>1, <3>3, <3>1 DEF TypeOK, Known
      <4> QED
        BY <1>1, <2>1, <3>1, <3>3, <4>1
    <3> QED
      BY <3>1, <3>2, <3>3
  <2>4. ASSUME NEW m \in queue' PROVE m.id <= nver'
    <3>1. CASE m \in queue
      <4>1. m.id \in Nat /\ m.id <= nver
        BY <1>1, <3>1 DEF TypeOK, Known, Message
      <4> QED
        BY <1>1, <2>1, <4>1
    <3> QED
      BY <1>1, <2>1, <2>2, <3>1
  <2>5. ASSUME NEW r \in running' PROVE r.id <= nver' /\ r.ver <= nver'
    <3>1. r \in running /\ r.id \in Nat /\ r.ver \in Nat
      BY <1>1, <1>2 DEF TypeOK, Activity
    <3> QED
      BY <1>1, <2>1, <3>1 DEF Known
  <2>6. latest' <= nver' /\ lastEmb' <= nver'
    <3>1. lastEmb \in Nat /\ lastEmb <= nver
      BY MaxVersionAssumption DEF TypeOK, Known
    <3> QED
      BY <1>1, <1>2, <2>1, <3>1
  <2> QED
    BY <2>3, <2>4, <2>5, <2>6 DEF Known
<1>3. ASSUME RestartLatest
      PROVE  Known'
  <2>1. ASSUME NEW j \in 1 .. nver PROVE job'[j].ver <= nver
    <3>1. j \in Versions /\ job[j].ver <= nver
      BY <1>1 DEF Known
    <3> QED
      BY <1>1, <1>3, <3>1, RestartLatestType
  <2>2. \A m \in queue' : m.id <= nver
    BY <1>1, <1>3, RestartLatestType DEF Known, Msg
  <2> QED
    BY <1>3, <2>1, <2>2, RestartLatestType DEF Known
<1>4. ASSUME NEW k \in Kinds, queue' = queue \cup {Msg(k, latest)},
             UNCHANGED <<latest, nver, job, lastEmb, running>>
      PROVE  Known'
  BY <1>1, <1>4, MsgType DEF Known
<1>5. ASSUME NEW r \in running, UploadNewVersion(r) PROVE Known'
  BY <1>2, <1>5 DEF UploadNewVersion
<1>6. CASE RollbackToVersion
  BY <1>2, <1>6 DEF RollbackToVersion
<1>7. CASE RetryDocument
  BY <1>3, <1>7 DEF RetryDocument
<1>8. CASE ReingestDocument
  BY <1>3, <1>8 DEF ReingestDocument
<1>9. CASE ArchiveDocument
  BY <1>4, <1>9 DEF ArchiveDocument, jobVars, Kinds, Tasks
<1>10. CASE RestoreDocument
  BY <1>4, <1>10 DEF RestoreDocument, jobVars, Kinds, Tasks
<1>11. CASE UploadBegin
  BY <1>1, <1>11, UploadType DEF UploadBegin, docVars, jobVars, Known
<1> QED
  BY <1>5, <1>6, <1>7, <1>8, <1>9, <1>10, <1>11 DEF UserStep

--------------------------------------------------------------------------------
(* Theorems.                                                               *)

LEMMA InitKnown == Init => Known
<1> SUFFICES ASSUME Init PROVE Known
  OBVIOUS
<1>1. 1 \in Versions /\ \A j \in 1 .. 1 : j = 1
  BY MaxVersionAssumption DEF Versions
<1>2. job[1].ver = 1
  BY <1>1 DEF Init, NewJob
<1> QED
  BY <1>1, <1>2 DEF Init, Known, Msg

LEMMA StepKeeps == TypeOK /\ Known /\ [Next]_vars => TypeOK' /\ Known'
<1> SUFFICES ASSUME TypeOK, Known, [Next]_vars PROVE TypeOK' /\ Known'
  OBVIOUS
<1>1. CASE UserStep
  BY <1>1, UserType, UserKnown
<1>2. CASE \E m \in queue : BeginWork(m) \/ LoseEvent(m)
  BY <1>2, BeginKeeps, LoseEventKeeps, KeepsEnough
<1>3. CASE \E r \in running : DoWork(r) \/ FailWork(r)
  BY <1>3, DoKeeps, FailKeeps, KeepsEnough
<1>4. CASE Watchdog
  BY <1>4, WatchdogKeeps, KeepsEnough
<1>5. CASE UNCHANGED vars
  BY <1>5 DEF vars, docVars, jobVars, idxVars, TypeOK, Known
<1> QED
  BY <1>1, <1>2, <1>3, <1>4, <1>5 DEF Next

\* Every row and message stays in its domain, whatever is called, fails, is lost
\* or delivered twice: no ProcessingJob, task or event ever carries a version
\* number outside 1 .. MaxVersion, a status the schema lacks, a negative counter.
THEOREM TypeCorrect == Spec => []TypeOK
<1>1. Init => TypeOK /\ Known
  BY InitType, InitKnown
<1>2. TypeOK /\ Known /\ [Next]_vars => (TypeOK /\ Known)'
  BY StepKeeps
<1> QED
  BY <1>1, <1>2, PTL DEF Spec

\* With one active version at most, losing some is losing it.
LEMMA Withdraws ==
    ASSUME SingleActiveVersion, active' \subseteq active, UNCHANGED latest
    PROVE  Promise!Withdraw \/ UNCHANGED <<latest, active>>
BY DEF SingleActiveVersion, Promise!Withdraw

\* Every step of the pipeline stages, promotes or withdraws a version for its
\* readers, or shows them nothing.
LEMMA ServingStep ==
    ASSUME IInv, [Next]_vars
    PROVE  [Promise!ServingNext]_(Promise!servingVars)
<1> USE DEF IInv
<1>1. CASE UNCHANGED <<latest, active>>
  BY <1>1 DEF Promise!servingVars
<1>2. CASE active' \subseteq active /\ UNCHANGED latest
  BY <1>2, Withdraws DEF Promise!ServingNext, Promise!servingVars
<1>3. CASE UserStep
  <2>1. CASE RollbackToVersion
    <3>1. nver + 1 \in Versions /\ nver + 1 > latest /\ UNCHANGED active
      <4>1. nver' \in Versions /\ nver' = nver + 1 /\ UNCHANGED active
        BY <2>1, CreateVersionType DEF RollbackToVersion
      <4>2. nver \in Nat /\ latest \in Nat /\ latest <= nver
        BY MaxVersionAssumption DEF TypeOK, Known, Versions
      <4> QED
        BY <4>1, <4>2
    <3>2. Promise!Stage(nver + 1)
      BY <2>1, <3>1 DEF RollbackToVersion, Promise!Stage
    <3> QED
      BY <3>1, <3>2 DEF Promise!ServingNext, Versions
  <2>2. CASE ~RollbackToVersion
    BY <1>1, <1>3, <2>2, CreateVersionType, RestartLatestType
       DEF UserStep, UploadBegin, UploadNewVersion, docVars, RetryDocument, ReingestDocument,
           ArchiveDocument, RestoreDocument
  <2> QED
    BY <2>1, <2>2
<1>4. ASSUME NEW m \in queue, BeginWork(m) PROVE [Promise!ServingNext]_(Promise!servingVars)
  <2>1. CASE Promote(m)
    <3>1. CASE Supersedes(m.id)
      <4>1. m.id \in Versions
        BY QueueType
      <4>2. Promise!GoLive(m.id)
        BY <2>1, <3>1 DEF Promote, Supersedes, OnlyActive, Promise!GoLive
      <4> QED
        BY <4>1, <4>2 DEF Promise!ServingNext, Versions
    <3>2. CASE ~Supersedes(m.id)
      BY <1>2, <2>1, <3>2 DEF Promote
    <3> QED
      BY <3>1, <3>2
  <2>2. CASE ~Promote(m)
    BY <1>1, <1>4, <2>2
       DEF BeginWork, IngestSkip, IngestBegin, ListenerBegin, ListenerIgnore, StageBegin,
           SyncBegin, LockRefused, PurgeArchived, RestoreBegin, docVars
  <2> QED
    BY <2>1, <2>2
<1>5. ASSUME NEW m \in queue, LoseEvent(m) PROVE UNCHANGED <<latest, active>>
  BY <1>5 DEF LoseEvent, docVars
<1>6. ASSUME NEW r \in running, DoWork(r) PROVE active' \subseteq active /\ UNCHANGED latest
  BY <1>6 DEF DoWork, IngestExtract, IngestFinish, ListenerDispatch, ListenerWrite,
       ChunkFinish, EmbedRecord, EmbedPublish, EmbedCommit, SyncNothing, SyncFinish,
       SyncConflict, RecordFailure, StillActive, Cleanup, RestoreSync, RestoreFinish, docVars
<1>7. ASSUME NEW r \in running, FailWork(r) PROVE active' \subseteq active /\ UNCHANGED latest
  BY <1>7 DEF FailWork, IngestRetry, IngestFail, ListenerFail, StageRetry, StageFail,
       RestoreFail, Lose, Redeliver, RecordFailure, StillActive, docVars
<1>8. CASE Watchdog
  BY <1>2, <1>8 DEF Watchdog, WatchdogRedispatch, WatchdogFail, RecordFailure, StillActive,
       docVars
<1>9. CASE UNCHANGED vars
  BY <1>1, <1>9 DEF vars, docVars
<1> QED
  BY <1>1, <1>2, <1>3, <1>4, <1>5, <1>6, <1>7, <1>8, <1>9 DEF Next

\* The invariant below is inductive because the abstract steps preserve it.
LEMMA ServingSingle ==
    ASSUME IInv, TypeOK', [Promise!ServingNext]_(Promise!servingVars)
    PROVE  /\ SingleActiveVersion'
           /\ latest' >= latest /\ \A u \in active, v \in active' : u <= v
<1>1. /\ latest \in Int /\ latest' \in Int
      /\ \A v \in active : v \in Int /\ v <= latest
      /\ \A v \in active : active = {v}
  <2>1. latest \in Versions /\ latest' \in Versions /\ active \subseteq Versions
    BY DEF IInv, TypeOK
  <2>2. Versions \subseteq Int
    BY MaxVersionAssumption DEF Versions
  <2> QED
    BY <2>1, <2>2 DEF IInv, SingleActiveVersion
<1>2. CASE UNCHANGED <<latest, active>>
  BY <1>1, <1>2 DEF SingleActiveVersion
<1>3. CASE \E v \in 1 .. MaxVersion : Promise!Stage(v)
  BY <1>1, <1>3 DEF SingleActiveVersion, Promise!Stage
<1>4. CASE \E v \in 1 .. MaxVersion : Promise!GoLive(v)
  BY <1>1, <1>4 DEF SingleActiveVersion, Promise!GoLive
<1>5. CASE Promise!Withdraw
  BY <1>1, <1>5 DEF SingleActiveVersion, Promise!Withdraw
<1> QED
  BY <1>2, <1>3, <1>4, <1>5 DEF Promise!ServingNext, Promise!servingVars

LEMMA InitInv == Init => IInv
BY InitType, InitKnown DEF Init, IInv, SingleActiveVersion

LEMMA StepInv == IInv /\ [Next]_vars => IInv'
BY StepKeeps, ServingStep, ServingSingle DEF IInv

LEMMA Invariance == Spec => []IInv
BY InitInv, StepInv, PTL DEF Spec

\* At no time are two versions flagged is_active_vector, nor one newer than the
\* version the document points to, for any number of concurrent uploads, rollbacks,
\* failures and late completions.
THEOREM OneActiveVersion == Spec => []SingleActiveVersion
<1>1. IInv => SingleActiveVersion
  BY DEF IInv
<1> QED
  BY <1>1, Invariance, PTL

\* The "P0-3F" check of handle_vector_sync_completed is enough: no interleaving
\* moves latest_version_id or the active flag to an older version.
THEOREM NeverRegress == Spec => VersionsNeverRegress
<1>1. IInv /\ IInv' /\ [Next]_vars =>
        [latest' >= latest /\ \A u \in active, v \in active' : u <= v]_vars
  BY ServingStep, ServingSingle DEF IInv
<1> QED
  BY <1>1, Invariance, PTL DEF Spec, VersionsNeverRegress

\* The pipeline implements VersionedServing: for its readers, whatever happens
\* inside, it only ever stages, promotes and withdraws versions.
THEOREM Refinement == Spec => ServesVersions
<1>1. Init => Promise!ServingInit
  BY DEF Init, Promise!ServingInit
<1>2. IInv /\ [Next]_vars => [Promise!ServingNext]_(Promise!servingVars)
  BY ServingStep
<1> QED
  BY <1>1, <1>2, Invariance, PTL DEF Spec, ServesVersions, Promise!ServingSpec

--------------------------------------------------------------------------------
(* An archived document: nothing but the purge of its points is left to do.  *)
(* Users must not act while the document is being worked on (~Overlap): an   *)
(* upload or a task caught by the archiving writes its own status later.     *)

Hidden == status = "ARCHIVED" => running = {} /\ \A m \in queue : m.kind = "purge"

LEMMA ArchivedStep ==
    ASSUME Hidden, status = "ARCHIVED", Next
    PROVE  RestoreDocument \/ (UNCHANGED <<status, running>> /\ queue' \subseteq queue)
<1>1. running = {} /\ \A m \in queue : m.kind = "purge"
  BY DEF Hidden
<1>2. CASE UserStep
  BY <1>1, <1>2 DEF UserStep, UploadBegin, RollbackToVersion, Creatable, RetryDocument,
       ReingestDocument, ArchiveDocument
<1>3. ASSUME NEW m \in queue, BeginWork(m)
      PROVE  UNCHANGED <<status, running>> /\ queue' \subseteq queue
  <2>1. m.kind = "purge"
    BY <1>1
  <2>2. PurgeArchived(m)
    BY <1>3, <2>1
       DEF BeginWork, IngestSkip, IngestBegin, ListenerBegin, ListenerIgnore, Chained,
           Dispatches, StageBegin, SyncBegin, LockRefused, Promote, RestoreBegin
  <2> QED
    BY <2>2 DEF PurgeArchived, docVars
<1>4. ASSUME NEW m \in queue, LoseEvent(m)
      PROVE  UNCHANGED <<status, running>> /\ queue' \subseteq queue
  BY <1>4 DEF LoseEvent, docVars
<1>5. ~Watchdog
  BY DEF Watchdog, WatchdogRedispatch, WatchdogFail, Stale, StuckStage
<1> QED
  BY <1>1, <1>2, <1>3, <1>4, <1>5 DEF Next

\* Only archive_document makes a document ARCHIVED.
LEMMA ArchivedBy ==
    ASSUME Next, status # "ARCHIVED", status' = "ARCHIVED"
    PROVE  ArchiveDocument
<1>1. CASE UserStep
  BY <1>1 DEF UserStep, UploadBegin, UploadNewVersion, Write, RollbackToVersion, RetryDocument,
       ReingestDocument, RestartLatest, RestoreDocument, docVars
<1>2. ASSUME NEW m \in queue, BeginWork(m) PROVE FALSE
  BY <1>2
     DEF BeginWork, IngestSkip, IngestBegin, Write, ListenerBegin, ListenerIgnore, StageBegin,
         SyncBegin, LockRefused, Promote, PurgeArchived, RestoreBegin, docVars
<1>3. ASSUME NEW m \in queue, LoseEvent(m) PROVE FALSE
  BY <1>3 DEF LoseEvent, docVars
<1>4. ASSUME NEW r \in running, DoWork(r) PROVE FALSE
  BY <1>4
     DEF DoWork, IngestExtract, IngestFinish, ListenerDispatch, ListenerWrite, Write,
         StatusAfter, Chained, Dispatches, ChunkFinish, EmbedRecord, EmbedPublish, EmbedCommit,
         SyncNothing, SyncFinish, SyncConflict, RecordFailure, Cleanup, RestoreSync,
         RestoreFinish, docVars
<1>5. ASSUME NEW r \in running, FailWork(r) PROVE FALSE
  BY <1>5
     DEF FailWork, IngestRetry, IngestFail, ListenerFail, StageRetry, StageFail, RestoreFail,
         Lose, Redeliver, RecordFailure, docVars
<1>6. CASE Watchdog
  BY <1>6 DEF Watchdog, WatchdogRedispatch, WatchdogFail, RecordFailure, docVars
<1> QED
  BY <1>1, <1>2, <1>3, <1>4, <1>5, <1>6 DEF Next

LEMMA HiddenKept ==
    ASSUME ~Overlap, Hidden, [Next]_vars
    PROVE  Hidden'
<1>1. CASE Next /\ status = "ARCHIVED"
  <2>1. CASE RestoreDocument
    BY <2>1 DEF RestoreDocument, Hidden
  <2>2. CASE UNCHANGED <<status, running>> /\ queue' \subseteq queue
    BY <2>2 DEF Hidden
  <2> QED
    BY <1>1, <2>1, <2>2, ArchivedStep
<1>2. CASE Next /\ status # "ARCHIVED" /\ status' = "ARCHIVED"
  <2>1. ArchiveDocument
    BY <1>2, ArchivedBy
  <2> QED
    BY <2>1 DEF ArchiveDocument, Call, Settled, Hidden, Msg
<1>3. CASE status' # "ARCHIVED"
  BY <1>3 DEF Hidden
<1>4. CASE UNCHANGED vars
  BY <1>4 DEF vars, docVars, Hidden
<1> QED
  BY <1>1, <1>2, <1>3, <1>4

\* As long as users wait for the document to settle, an archived document stays
\* hidden until it is restored: no task, listener, watchdog or late failure
\* writes its status over ARCHIVED.
THEOREM ArchivedStays ==
    ASSUME ~Overlap
    PROVE  Spec => ArchivedStaysHidden
<1>1. Init => Hidden
  BY DEF Init, Hidden
<1>2. Hidden /\ [Next]_vars => Hidden'
  BY HiddenKept
<1>3. Hidden /\ [Next]_vars =>
        [status = "ARCHIVED" => status' = "ARCHIVED" \/ RestoreDocument]_vars
  BY ArchivedStep
<1> QED
  BY <1>1, <1>2, <1>3, PTL DEF Spec, ArchivedStaysHidden

--------------------------------------------------------------------------------
(* One thread of work.  While users wait for the document to settle and the  *)
(* watchdog never takes a backlog for a stuck stage, everything queued and   *)
(* running is about one version w.                                           *)

\* The version of the newest job, to which an unnamed failure is charged.
Current == job[nver].ver

Concerns(x, w) == IF x.kind = "ingest" THEN job[x.id].ver = w ELSE x.id = w

\* The watchdog takes up a document stuck in EMBEDDING at lastEmb.
Thread(w) ==
    /\ w >= latest /\ (Current \in active => w = Current)
    /\ status = "EMBEDDING" => lastEmb = w
    /\ \A m \in queue : Concerns(m, w) /\ m.kind # "upload"
    /\ \A r \in running : /\ Concerns(r, w) /\ r.ver = w
                          /\ r.kind = "chunked" /\ r.step = "dispatched" => lastEmb = w

\* An upload in progress was let in when all was settled, and nothing can begin.
Uploading ==
    \A r \in running :
        r.kind = "upload" => /\ queue = {} /\ running = {r}
                             /\ status \in {"READY", "FAILED", "ARCHIVED"}

Serial ==
    /\ \E w \in Versions : Thread(w)
    /\ Current \in active => Current = latest
    /\ Uploading

\* What a step of the work owes to the thread w it belongs to.
WorkStep(w) ==
    /\ \A m \in queue' : m \in queue \/ (Concerns(m, w) /\ m.kind # "upload")
    /\ \A r \in running' :
         r \in running \/ /\ Concerns(r, w) /\ r.ver = w
                          /\ r.kind = "chunked" /\ r.step = "dispatched" => lastEmb' = w
    /\ \A r \in running' : r.kind # "upload"
    /\ lastEmb' = lastEmb \/ lastEmb' = w
    /\ \/ active' \subseteq active /\ latest' = latest
       \/ latest' = w /\ active' = {w}
    /\ status' = "EMBEDDING" => status = "EMBEDDING" \/ lastEmb' = w

\* Such a step leaves the thread as it should be.
LEMMA WorkSerial ==
    ASSUME TypeOK, Known, Serial, Keeps, NEW w \in Versions, Thread(w), WorkStep(w)
    PROVE  Thread(w)' /\ Serial'
<1>1. /\ UNCHANGED nver /\ nver \in Versions
      /\ \A j \in Versions : job'[j].ver = job[j].ver
      /\ \A m \in queue' : m.id \in Versions
      /\ \A r \in running' : r.id \in Versions
  BY DEF Keeps, TypeOK, Flows, Message, Activity
<1>2. Current' = Current
  BY <1>1 DEF Current
<1>3. Current \in active' => Current \in active \/ (active' = {w} /\ latest' = w)
  BY DEF WorkStep
<1>4. /\ w >= latest' /\ w >= w
      /\ Current \in active' => w = Current
  BY <1>3, MaxVersionAssumption DEF WorkStep, Thread, Versions
<1>5. ASSUME NEW m \in queue' PROVE Concerns(m, w)' /\ m.kind # "upload"
  <2>1. Concerns(m, w) /\ m.kind # "upload"
    BY DEF WorkStep, Thread
  <2>2. job'[m.id].ver = job[m.id].ver
    BY <1>1
  <2> QED
    BY <2>1, <2>2 DEF Concerns
<1>6. ASSUME NEW r \in running'
      PROVE  /\ Concerns(r, w)' /\ r.ver = w
             /\ r.kind = "chunked" /\ r.step = "dispatched" => lastEmb' = w
  <2>1. /\ Concerns(r, w) /\ r.ver = w
        /\ r.kind = "chunked" /\ r.step = "dispatched" => lastEmb' = w
    BY DEF WorkStep, Thread
  <2>2. job'[r.id].ver = job[r.id].ver
    BY <1>1
  <2> QED
    BY <2>1, <2>2 DEF Concerns
<1>7. status' = "EMBEDDING" => lastEmb' = w
  BY DEF Thread, WorkStep
<1>8. Thread(w)'
  BY <1>2, <1>4, <1>5, <1>6, <1>7 DEF Thread
<1>9. (Current \in active => Current = latest)'
  BY <1>2, <1>3, <1>4 DEF Serial, WorkStep
<1>10. Uploading'
  BY DEF Uploading, WorkStep
<1> QED
  BY <1>8, <1>9, <1>10 DEF Serial

\* While an upload is in progress nothing else is queued or running.
LEMMA NoUpload ==
    ASSUME Serial
    PROVE  /\ queue # {} => \A u \in running : u.kind # "upload"
           /\ \A r \in running : r.kind # "upload" => \A u \in running : u.kind # "upload"
           /\ \A r \in running : r.kind = "upload" => running = {r} /\ queue = {}
BY DEF Serial, Uploading

LEMMA BeginWorkStep ==
    ASSUME TypeOK, Known, Serial, NEW w \in Versions, Thread(w),
           NEW m \in queue, BeginWork(m)
    PROVE  WorkStep(w)
<1>1. /\ \A u \in running : u.kind # "upload"
      /\ Concerns(m, w) /\ m.kind # "upload"
  BY NoUpload DEF Thread
<1>2. ASSUME queue' = queue \ {m}, UNCHANGED <<status, latest, active, lastEmb, running>>
      PROVE  WorkStep(w)
  BY <1>1, <1>2 DEF WorkStep
<1>3. ASSUME NEW r, Take(m, r), UNCHANGED <<latest, active, lastEmb>>,
             Concerns(r, w), r.ver = w, r.kind # "upload", r.step # "dispatched",
             status' # status => status' # "EMBEDDING"
      PROVE  WorkStep(w)
  BY <1>1, <1>3 DEF WorkStep, Take
<1>4. ASSUME NEW k, NEW b, k # "ingest", k # "upload", m.id = w, Take(m, Begun(k, w, w, b)),
             UNCHANGED <<status, latest, active, lastEmb>>
      PROVE  WorkStep(w)
  <2> DEFINE r == Begun(k, w, w, b)
  <2>1. /\ Concerns(r, w) /\ r.ver = w /\ r.kind # "upload" /\ r.step # "dispatched"
    BY <1>4 DEF Begun, Concerns
  <2>2. Take(m, r)
    BY <1>4
  <2> HIDE DEF r
  <2> QED
    BY <1>3, <1>4, <2>1, <2>2
<1>5. ASSUME NEW k, NEW b, k # "ingest", k # "upload", m.id = w,
             Take(m, SyncBegun(k, w, b)),
             UNCHANGED <<status, latest, active, lastEmb>>
      PROVE  WorkStep(w)
  <2> DEFINE r == SyncBegun(k, w, b)
  <2>1. /\ Concerns(r, w) /\ r.ver = w /\ r.kind # "upload" /\ r.step # "dispatched"
    BY <1>5 DEF SyncBegun, Concerns
  <2>2. Take(m, r)
    BY <1>5
  <2> HIDE DEF r
  <2> QED
    BY <1>3, <1>5, <2>1, <2>2
<1>6. m.kind # "ingest" => m.id = w
  BY <1>1 DEF Concerns
<1>7. CASE IngestSkip(m)
  BY <1>2, <1>7 DEF IngestSkip, docVars, jobVars
<1>8. CASE IngestBegin(m)
  <2> DEFINE b == active \subseteq {job[m.id].ver} /\ status # "READY"
             r == [Begun("ingest", m.id, job[m.id].ver, b) EXCEPT !.step = "VALIDATING"]
  <2>1. job[m.id].ver = w
    BY <1>1, <1>8 DEF IngestBegin, Concerns
  <2>2. /\ Concerns(r, w) /\ r.ver = w /\ r.kind # "upload" /\ r.step # "dispatched"
    BY <2>1 DEF Begun, Concerns
  <2>3. Take(m, r) /\ UNCHANGED <<latest, active, lastEmb>>
    BY <1>8 DEF IngestBegin
  <2>4. status' # status => status' # "EMBEDDING"
    BY <1>8 DEF IngestBegin, Write
  <2> HIDE DEF r
  <2> QED
    BY <1>3, <2>2, <2>3, <2>4
<1>9. CASE ListenerBegin(m)
  <2>1. m.kind # "ingest" /\ m.kind # "upload"
    BY <1>9 DEF ListenerBegin, Chained, Dispatches
  <2> QED
    BY <1>4, <1>6, <1>9, <2>1 DEF ListenerBegin, docVars, jobVars
<1>10. CASE ListenerIgnore(m)
  BY <1>2, <1>10 DEF ListenerIgnore, docVars, jobVars
<1>11. CASE StageBegin(m)
  <2>1. m.kind # "ingest" /\ m.kind # "upload"
    BY <1>11 DEF StageBegin
  <2> QED
    BY <1>4, <1>6, <1>11, <2>1 DEF StageBegin, docVars, jobVars
<1>12. CASE SyncBegin(m)
  BY <1>5, <1>6, <1>12 DEF SyncBegin, docVars, jobVars
<1>13. CASE LockRefused(m)
  BY <1>2, <1>13 DEF LockRefused, docVars, jobVars
<1>14. CASE Promote(m)
  <2>1. m.id = w /\ Supersedes(m.id)
    BY <1>6, <1>14 DEF Promote, Supersedes, Thread
  <2>2. active' = {w} /\ latest' = w /\ status' = "READY" /\ UNCHANGED lastEmb
    BY <1>14, <2>1 DEF Promote, OnlyActive, jobVars
  <2> DEFINE r == Begun("cleanup", w, w, FALSE)
  <2>3. Take(m, r)
    BY <1>14, <2>2 DEF Promote
  <2>4. /\ Concerns(r, w) /\ r.ver = w /\ r.kind # "upload" /\ r.step # "dispatched"
    BY DEF Begun, Concerns
  <2> HIDE DEF r
  <2> QED
    BY <1>1, <2>2, <2>3, <2>4 DEF WorkStep, Take
<1>15. CASE PurgeArchived(m)
  BY <1>2, <1>15 DEF PurgeArchived, docVars, jobVars
<1>16. CASE RestoreBegin(m)
  BY <1>5, <1>6, <1>16 DEF RestoreBegin, docVars, jobVars
<1> QED
  BY <1>7, <1>8, <1>9, <1>10, <1>11, <1>12, <1>13, <1>14, <1>15, <1>16 DEF BeginWork

\* Finishing or advancing r, and sending what concerns the same version.
LEMMA SendsStep ==
    ASSUME TypeOK, Known, Serial, NEW w \in Versions, Thread(w), NEW r \in running,
           r.kind # "upload", NEW ms, \A m \in ms : Concerns(m, w) /\ m.kind # "upload",
           Finish(r, ms), active' \subseteq active, UNCHANGED <<latest, lastEmb>>,
           status' = "EMBEDDING" => status = "EMBEDDING" \/ lastEmb' = w
    PROVE  WorkStep(w)
BY NoUpload DEF WorkStep, Finish

LEMMA AdvanceStep ==
    ASSUME TypeOK, Known, Serial, NEW w \in Versions, Thread(w), NEW r \in running,
           NEW new, Concerns(new, w), new.ver = w, new.kind # "upload", r.kind # "upload",
           new.kind = "chunked" /\ new.step = "dispatched" => lastEmb' = w,
           NEW ms, \A m \in ms : Concerns(m, w) /\ m.kind # "upload",
           Advance(r, new, ms), active' \subseteq active, UNCHANGED latest,
           lastEmb' = lastEmb \/ lastEmb' = w,
           status' = "EMBEDDING" => status = "EMBEDDING" \/ lastEmb' = w
    PROVE  WorkStep(w)
BY NoUpload DEF WorkStep, Advance

LEMMA DoWorkStep ==
    ASSUME TypeOK, Known, Serial, NEW w \in Versions, Thread(w),
           NEW r \in running, DoWork(r)
    PROVE  WorkStep(w)
<1>1. /\ Concerns(r, w) /\ r.ver = w
      /\ r.kind = "chunked" /\ r.step = "dispatched" => lastEmb = w
  BY DEF Thread
<1>2. \A k : k # "ingest" /\ r.kind # "ingest" =>
        Concerns(Msg(k, r.id), w) /\ Msg(k, r.id).kind = k
  BY <1>1 DEF Concerns, Msg
<1>3. r \in Activity
  BY DEF TypeOK
<1>4. ASSUME r.kind # "upload", Finish(r, {}), active' \subseteq active,
             UNCHANGED <<latest, lastEmb>>,
             status' = "EMBEDDING" => status = "EMBEDDING" \/ lastEmb' = w
      PROVE  WorkStep(w)
  BY <1>4, SendsStep
<1>5. ASSUME NEW k, k # "ingest", k # "upload", r.kind # "ingest", r.kind # "upload",
             Finish(r, {Msg(k, r.id)}), UNCHANGED <<active, latest, lastEmb>>,
             status' = "EMBEDDING" => status = "EMBEDDING"
      PROVE  WorkStep(w)
  <2> DEFINE ms == {Msg(k, r.id)}
  <2>1. \A m \in ms : Concerns(m, w) /\ m.kind # "upload"
    BY <1>2, <1>5
  <2>2. Finish(r, ms)
    BY <1>5
  <2> HIDE DEF ms
  <2> QED
    BY <1>5, <2>1, <2>2, SendsStep
<1>6. ASSUME NEW st \in {"EXTRACTING", "dispatched", "published"},
             NEW ms, \A m \in ms : Concerns(m, w) /\ m.kind # "upload",
             r.kind # "upload", r.kind = "chunked" => st # "dispatched" \/ lastEmb' = w,
             Advance(r, [r EXCEPT !.step = st], ms), UNCHANGED <<active, latest>>,
             lastEmb' = lastEmb \/ lastEmb' = w,
             status' = "EMBEDDING" => status = "EMBEDDING"
      PROVE  WorkStep(w)
  <2> DEFINE new == [r EXCEPT !.step = st]
  <2>1. new.kind = r.kind /\ new.ver = w /\ new.step = st /\ new.id = r.id
    BY <1>1, <1>3 DEF Activity
  <2>2. Advance(r, new, ms)
    BY <1>6
  <2> HIDE DEF new
  <2>3. Concerns(new, w)
    BY <1>1, <2>1 DEF Concerns
  <2> QED
    BY <1>6, <2>1, <2>2, <2>3, AdvanceStep
<1>7. CASE IngestExtract(r)
  <2>1. Advance(r, [r EXCEPT !.step = "EXTRACTING"], {})
    BY <1>7 DEF IngestExtract
  <2> QED
    BY <1>6, <1>7, <2>1 DEF IngestExtract, Write
<1>8. CASE IngestFinish(r)
  <2> DEFINE ms == {Msg("processed", r.ver)}
  <2>1. \A m \in ms : Concerns(m, w) /\ m.kind # "upload"
    BY <1>1 DEF Concerns, Msg
  <2>2. Finish(r, ms)
    BY <1>8 DEF IngestFinish
  <2>3. /\ r.kind # "upload" /\ UNCHANGED <<active, latest, lastEmb>>
        /\ status' = "EMBEDDING" => status = "EMBEDDING"
    BY <1>8 DEF IngestFinish, Write
  <2> HIDE DEF ms
  <2> QED
    BY <2>1, <2>2, <2>3, SendsStep
<1>9. CASE ListenerDispatch(r)
  <2> DEFINE ms == {Msg(Dispatches[r.kind], r.id)}
  <2>1. /\ r.kind # "ingest" /\ r.kind # "upload"
        /\ Dispatches[r.kind] # "ingest" /\ Dispatches[r.kind] # "upload"
    BY <1>9 DEF ListenerDispatch, Chained, Dispatches
  <2>2. \A m \in ms : Concerns(m, w) /\ m.kind # "upload"
    BY <1>2, <2>1
  <2>3. r.id = w
    BY <1>1, <2>1 DEF Concerns
  <2>4. /\ Advance(r, [r EXCEPT !.step = "dispatched"], ms)
        /\ lastEmb' = IF r.kind = "chunked" THEN w ELSE lastEmb
        /\ UNCHANGED <<status, active, latest>>
    BY <1>9, <2>3 DEF ListenerDispatch, docVars
  <2> HIDE DEF ms
  <2> QED
    BY <1>6, <2>1, <2>2, <2>4
<1>10. CASE ListenerWrite(r)
  <2>1. r.kind \in {"processed", "chunked", "embedded"} /\ r.step = "dispatched"
    BY <1>10 DEF ListenerWrite, Chained, Dispatches
  <2>2. status' = "EMBEDDING" => status = "EMBEDDING" \/ r.kind = "chunked"
    BY <1>10, <2>1 DEF ListenerWrite, Write, StatusAfter
  <2>3. Finish(r, {}) /\ UNCHANGED <<latest, active, lastEmb>>
    BY <1>10 DEF ListenerWrite, jobVars
  <2> QED
    BY <1>1, <1>4, <2>1, <2>2, <2>3
<1>11. CASE ChunkFinish(r)
  BY <1>5, <1>11 DEF ChunkFinish, Write, jobVars
<1>12. CASE EmbedRecord(r)
  <2> DEFINE new == [r EXCEPT !.gen = gen[r.id]]
  <2>1. new.kind = r.kind /\ new.ver = r.ver /\ new.step = r.step /\ new.id = r.id
    BY DEF TypeOK, Activity
  <2>2. Concerns(new, w) /\ new.ver = w /\ new.kind = "embed"
    BY <1>1, <1>12, <2>1 DEF EmbedRecord, Concerns
  <2>3. Advance(r, new, {}) /\ UNCHANGED <<status, active, latest, lastEmb>> /\ r.kind = "embed"
    BY <1>12 DEF EmbedRecord, docVars, jobVars
  <2> HIDE DEF new
  <2>4. \A m \in {} : Concerns(m, w) /\ m.kind # "upload"
    OBVIOUS
  <2> QED
    BY <2>2, <2>3, <2>4, AdvanceStep
<1>13. CASE EmbedPublish(r)
  <2> DEFINE ms == {Msg("embedded", r.id)}
  <2>1. r.kind = "embed" /\ \A m \in ms : Concerns(m, w) /\ m.kind # "upload"
    BY <1>2, <1>13 DEF EmbedPublish
  <2>2. Advance(r, [r EXCEPT !.step = "published"], ms)
    BY <1>13 DEF EmbedPublish
  <2> HIDE DEF ms
  <2> QED
    BY <1>6, <1>13, <2>1, <2>2 DEF EmbedPublish, docVars, jobVars
<1>14. CASE EmbedCommit(r)
  BY <1>4, <1>14 DEF EmbedCommit, docVars, jobVars
<1>15. CASE SyncNothing(r)
  BY <1>4, <1>15 DEF SyncNothing, docVars, jobVars
<1>16. CASE SyncFinish(r)
  BY <1>5, <1>16 DEF SyncFinish, docVars, jobVars
<1>17. CASE SyncConflict(r)
  BY <1>4, <1>17 DEF SyncConflict, RecordFailure, StillActive
<1>18. CASE Cleanup(r)
  BY <1>4, <1>18 DEF Cleanup, docVars, jobVars
<1>19. CASE RestoreSync(r)
  <2> DEFINE ms == {Msg("indexed", r.id)}
  <2>1. r.kind = "restore" /\ \A m \in ms : Concerns(m, w) /\ m.kind # "upload"
    BY <1>2, <1>19 DEF RestoreSync
  <2>2. Advance(r, [r EXCEPT !.step = "published"], ms)
    BY <1>19 DEF RestoreSync
  <2> HIDE DEF ms
  <2> QED
    BY <1>6, <1>19, <2>1, <2>2 DEF RestoreSync, docVars, jobVars
<1>20. CASE RestoreFinish(r)
  BY <1>4, <1>20 DEF RestoreFinish, Write, jobVars
<1> QED
  BY <1>7, <1>8, <1>9, <1>10, <1>11, <1>12, <1>13, <1>14, <1>15, <1>16, <1>17, <1>18,
     <1>19, <1>20 DEF DoWork

LEMMA FailWorkStep ==
    ASSUME TypeOK, Known, Serial, NEW w \in Versions, Thread(w),
           NEW r \in running, FailWork(r)
    PROVE  WorkStep(w)
<1>1. Concerns(r, w) /\ r.ver = w
  BY DEF Thread
<1>2. Concerns(Msg(r.kind, r.id), w) /\ Msg(r.kind, r.id).kind = r.kind
  BY <1>1 DEF Concerns, Msg
<1>3. ASSUME NEW ms \in {{}, {Msg(r.kind, r.id)}}, r.kind # "upload", Finish(r, ms),
             active' \subseteq active, UNCHANGED <<latest, lastEmb>>,
             status' = "EMBEDDING" => status = "EMBEDDING"
      PROVE  WorkStep(w)
  <2>1. \A m \in ms : Concerns(m, w) /\ m.kind # "upload"
    BY <1>2, <1>3
  <2> QED
    BY <1>3, <2>1, SendsStep
<1>4. CASE IngestRetry(r)
  BY <1>3, <1>4 DEF IngestRetry, docVars
<1>5. CASE IngestFail(r)
  BY <1>3, <1>5 DEF IngestFail
<1>6. CASE ListenerFail(r)
  <2>1. r.kind # "upload"
    BY <1>6 DEF ListenerFail, Chained, Dispatches
  <2> QED
    BY <1>3, <1>6, <2>1 DEF ListenerFail, RecordFailure, StillActive
<1>7. CASE StageRetry(r)
  BY <1>3, <1>7 DEF StageRetry, docVars, jobVars
<1>8. CASE StageFail(r)
  BY <1>3, <1>8 DEF StageFail, RecordFailure, StillActive
<1>9. CASE RestoreFail(r)
  BY <1>3, <1>9 DEF RestoreFail, jobVars
<1>10. CASE Lose(r)
  BY <1>10, NoUpload DEF Lose, Finish, WorkStep, docVars, jobVars
<1>11. CASE Redeliver(r)
  <2>1. r.kind # "upload"
    BY <1>11 DEF Redeliver, Tasks
  <2> QED
    BY <1>2, <1>11, <2>1, NoUpload DEF Redeliver, WorkStep, docVars, jobVars
<1> QED
  BY <1>4, <1>5, <1>6, <1>7, <1>8, <1>9, <1>10, <1>11 DEF FailWork

LEMMA LoseEventStep ==
    ASSUME Serial, NEW w, NEW m \in queue, LoseEvent(m)
    PROVE  WorkStep(w)
BY NoUpload DEF LoseEvent, WorkStep, docVars, jobVars

\* The watchdog goes on with the thread, or starts one on the latest version.
LEMMA WatchdogStep ==
    ASSUME TypeOK, Known, Serial, "backlog" \notin Faults, Watchdog,
           NEW old \in Versions, Thread(old)
    PROVE  \E w \in {old, latest} : w \in Versions /\ Thread(w) /\ WorkStep(w)
<1>1. queue = {} /\ status \in DOMAIN StuckStage /\ \A r \in running : r.kind = "upload"
  BY DEF Watchdog, WatchdogRedispatch, WatchdogFail, Stale
<1>2. running = {}
  BY <1>1 DEF StuckStage, Serial, Uploading
<1>3. latest \in Versions
  BY DEF TypeOK
<1>4. latest >= latest
  BY <1>3, MaxVersionAssumption DEF Versions
<1>5. CASE WatchdogRedispatch /\ status = "EMBEDDING"
  <2>1. lastEmb = old /\ old # 0
    BY <1>5, MaxVersionAssumption DEF Thread, Versions
  <2>2. WatchdogTarget = Msg("embed", old)
    BY <1>5, <2>1 DEF WatchdogTarget
  <2>3. WorkStep(old)
    BY <1>1, <1>2, <1>5, <2>2 DEF WatchdogRedispatch, WorkStep, Concerns, Msg, docVars
  <2> QED
    BY <2>3
<1>6. CASE WatchdogRedispatch /\ status # "EMBEDDING"
  <2>1. \E k \in {"chunk", "embed", "sync"} : WatchdogTarget = Msg(k, latest)
    BY <1>1, <1>6 DEF WatchdogTarget, StuckStage
  <2>2. WorkStep(latest)
    BY <1>1, <1>2, <1>6, <2>1 DEF WatchdogRedispatch, WorkStep, Concerns, Msg, docVars
  <2>3. Thread(latest)
    BY <1>1, <1>2, <1>4, <1>6 DEF Serial, Thread
  <2> QED
    BY <1>3, <2>2, <2>3
<1>7. CASE WatchdogFail
  <2>1. WorkStep(old)
    BY <1>1, <1>2, <1>7 DEF WatchdogFail, RecordFailure, StillActive, WorkStep
  <2> QED
    BY <2>1
<1> QED
  BY <1>5, <1>6, <1>7 DEF Watchdog

\* A user finds the document settled and starts the next thread.
LEMMA UserSerial ==
    ASSUME ~Overlap, TypeOK, Known, SingleActiveVersion, Serial, UserStep
    PROVE  Serial'
<1>1. /\ nver \in Versions /\ latest \in Versions /\ latest <= nver
      /\ \A v \in Versions : v \in Nat
      /\ \A v \in active : v \in Nat /\ v <= latest
  <2>1. \A v \in Versions : v \in Nat
    BY MaxVersionAssumption DEF Versions
  <2>2. nver \in Versions /\ latest \in Versions /\ latest <= nver /\ active \subseteq Versions
    BY DEF TypeOK, Known
  <2> QED
    BY <2>1, <2>2 DEF SingleActiveVersion
<1>2. latest >= latest
  BY <1>1
<1>3. ASSUME NEW w \in Versions, w >= latest', queue' = {} \/ (\E m : queue' = {m} /\
               m.kind # "upload" /\ Concerns(m, w)'),
             running' = {}, status' # "EMBEDDING",
             Current' \in active' => w = Current' /\ Current' = latest'
      PROVE  Serial'
  <2>1. Thread(w)'
    BY <1>3 DEF Thread
  <2>2. Uploading'
    BY <1>3 DEF Uploading
  <2> QED
    BY <1>3, <2>1, <2>2 DEF Serial
<1>4. ASSUME CreateVersion, latest' \in {latest, nver + 1}, queue = {}, running' = {},
             status' # "EMBEDDING"
      PROVE  Serial'
  <2>1. /\ nver' = nver + 1 /\ nver' \in Versions /\ job'[nver'].ver = nver'
        /\ queue' = {Msg("ingest", nver')} /\ active' = active
    BY <1>4, CreateVersionType
  <2>2. nver' >= latest' /\ nver' \notin active
    BY <1>1, <1>4, <2>1
  <2>3. Current' = nver'
    BY <2>1 DEF Current
  <2> DEFINE m == Msg("ingest", nver')
  <2>4. queue' = {m} /\ m.kind = "ingest" /\ m.id = nver'
    BY <2>1 DEF Msg
  <2>5. PICK w \in Versions : w = nver'
    BY <2>1
  <2> HIDE DEF m
  <2>6. job'[m.id].ver = w
    BY <2>1, <2>4, <2>5
  <2>7. \E x : queue' = {x} /\ x.kind # "upload" /\ Concerns(x, w)'
    BY <2>4, <2>6 DEF Concerns
  <2> QED
    BY <1>3, <1>4, <2>1, <2>2, <2>3, <2>5, <2>7
<1>5. ASSUME RestartLatest, queue = {}, running = {}
      PROVE  Serial'
  <2>1. /\ UNCHANGED <<nver, latest, active, running>> /\ job'[nver].ver = latest
        /\ queue' = {Msg("ingest", nver)} /\ status' = "UPLOADED"
    BY <1>1, <1>5, RestartLatestType DEF RestartLatest
  <2>2. Current' = latest
    BY <2>1 DEF Current
  <2>3. Msg("ingest", nver).kind = "ingest" /\ Msg("ingest", nver).id = nver
    BY DEF Msg
  <2>4. PICK w \in Versions : w = latest
    BY <1>1
  <2>5. \E x : queue' = {x} /\ x.kind # "upload" /\ Concerns(x, w)'
    <3>1. PICK m : m = Msg("ingest", nver)
      OBVIOUS
    <3> QED
      BY <2>1, <2>3, <2>4, <3>1 DEF Concerns
  <2> QED
    BY <1>2, <1>3, <1>5, <2>1, <2>2, <2>4, <2>5
<1>6. ASSUME NEW k, k # "upload", k # "ingest", queue = {}, running = {},
             queue' = queue \cup {Msg(k, latest)}, status' # "EMBEDDING",
             UNCHANGED <<latest, active, nver, job, running>>
      PROVE  Serial'
  <2>1. Current' = Current
    BY <1>6 DEF Current
  <2>2. PICK w \in Versions : w = latest
    BY <1>1
  <2> DEFINE m == Msg(k, w)
  <2>3. \E x : queue' = {x} /\ x.kind # "upload" /\ Concerns(x, w)'
    <3>1. queue' = {m} /\ m.kind = k /\ m.id = w
      BY <1>6, <2>2 DEF Msg
    <3> HIDE DEF m
    <3> QED
      BY <1>6, <3>1 DEF Concerns
  <2>4. Current' \in active' => w = Current' /\ Current' = latest'
    BY <1>6, <2>1, <2>2 DEF Serial
  <2> QED
    BY <1>2, <1>3, <1>6, <2>2, <2>3, <2>4
<1>7. CASE UploadBegin
  <2> DEFINE u == Begun("upload", latest, latest, WillWrite("UPLOADED"))
  <2>1. /\ queue = {} /\ running = {} /\ status \in {"READY", "FAILED", "ARCHIVED"}
        /\ running' = {u} /\ UNCHANGED <<status, latest, active, nver, job, queue>>
    BY <1>7 DEF UploadBegin, Call, Settled, docVars, jobVars
  <2>2. u.kind = "upload" /\ u.id = latest /\ u.ver = latest
    BY DEF Begun
  <2>3. Current' = Current
    BY <2>1 DEF Current
  <2>4. PICK w \in Versions : w = latest
    BY <1>1
  <2> HIDE DEF u
  <2>5. Thread(w)'
    <3>1. w >= latest' /\ (Current' \in active' => w = Current')
      BY <1>2, <2>1, <2>3, <2>4 DEF Serial
    <3>2. \A r \in running' : Concerns(r, w)' /\ r.ver = w /\ r.kind = "upload"
      BY <2>1, <2>2, <2>4 DEF Concerns
    <3>3. status' # "EMBEDDING"
      BY <2>1
    <3> QED
      BY <2>1, <3>1, <3>2, <3>3 DEF Thread
  <2>6. Uploading'
    BY <2>1 DEF Uploading
  <2> QED
    BY <2>1, <2>3, <2>5, <2>6 DEF Serial
<1>8. ASSUME NEW r \in running, UploadNewVersion(r) PROVE Serial'
  <2>1. queue = {} /\ running' = {} /\ status # "EMBEDDING"
    BY <1>8 DEF UploadNewVersion, Serial, Uploading
  <2>2. status' # "EMBEDDING" /\ latest' \in {latest, nver + 1} /\ CreateVersion
    BY <1>8, <2>1 DEF UploadNewVersion, Write
  <2> QED
    BY <1>4, <2>1, <2>2
<1>9. CASE RollbackToVersion
  BY <1>4, <1>9 DEF RollbackToVersion, Call, Settled
<1>10. CASE RetryDocument
  BY <1>5, <1>10 DEF RetryDocument, Call, Settled
<1>11. CASE ReingestDocument
  BY <1>5, <1>11 DEF ReingestDocument, Call, Settled
<1>12. CASE ArchiveDocument
  BY <1>6, <1>12 DEF ArchiveDocument, Call, Settled, jobVars
<1>13. CASE RestoreDocument
  BY <1>6, <1>13 DEF RestoreDocument, Call, Settled, jobVars
<1> QED
  BY <1>7, <1>8, <1>9, <1>10, <1>11, <1>12, <1>13 DEF UserStep

LEMMA InitSerial == Init => Serial
<1> SUFFICES ASSUME Init PROVE Serial
  OBVIOUS
<1>1. 1 \in Versions /\ 1 >= 1
  BY MaxVersionAssumption DEF Versions
<1>2. job[1].ver = 1 /\ Current = 1
  BY <1>1 DEF Init, NewJob, Current
<1>3. queue = {Msg("ingest", 1)} /\ running = {} /\ latest = 1 /\ status = "UPLOADED"
  BY DEF Init
<1>4. Thread(1)
  BY <1>1, <1>2, <1>3 DEF Thread, Concerns, Msg
<1>5. Uploading
  BY <1>3 DEF Uploading
<1> QED
  BY <1>1, <1>2, <1>3, <1>4, <1>5 DEF Serial

LEMMA StepSerial ==
    ASSUME ~Overlap, "backlog" \notin Faults, IInv, Serial, [Next]_vars
    PROVE  Serial'
<1> USE DEF IInv
<1>1. PICK w \in Versions : Thread(w)
  BY DEF Serial
<1>2. CASE UserStep
  BY <1>2, UserSerial
<1>3. ASSUME NEW m \in queue, BeginWork(m) PROVE Serial'
  BY <1>1, <1>3, BeginKeeps, BeginWorkStep, WorkSerial
<1>4. ASSUME NEW m \in queue, LoseEvent(m) PROVE Serial'
  BY <1>1, <1>4, LoseEventKeeps, LoseEventStep, WorkSerial
<1>5. ASSUME NEW r \in running, DoWork(r) PROVE Serial'
  BY <1>1, <1>5, DoKeeps, DoWorkStep, WorkSerial
<1>6. ASSUME NEW r \in running, FailWork(r) PROVE Serial'
  BY <1>1, <1>6, FailKeeps, FailWorkStep, WorkSerial
<1>7. CASE Watchdog
  <2>1. PICK v \in Versions : Thread(v) /\ WorkStep(v)
    BY <1>1, <1>7, WatchdogStep
  <2> QED
    BY <1>7, <2>1, WatchdogKeeps, WorkSerial
<1>8. CASE UNCHANGED vars
  <2>1. UNCHANGED <<status, latest, active, nver, job, lastEmb, queue, running>>
    BY <1>8 DEF vars, docVars, jobVars
  <2>2. Current' = Current
    BY <2>1 DEF Current
  <2>3. Thread(w)'
    BY <1>1, <2>1, <2>2 DEF Thread, Concerns
  <2>4. Uploading'
    BY <2>1 DEF Serial, Uploading
  <2> QED
    BY <2>1, <2>2, <2>3, <2>4 DEF Serial
<1> QED
  BY <1>2, <1>3, <1>4, <1>5, <1>6, <1>7, <1>8 DEF Next

LEMMA SerialInvariance ==
    ASSUME ~Overlap, "backlog" \notin Faults
    PROVE  Spec => [](IInv /\ Serial)
<1>1. Init => Serial
  BY InitSerial
<1>2. IInv /\ Serial /\ [Next]_vars => Serial'
  BY StepSerial
<1> QED
  BY <1>1, <1>2, Invariance, PTL DEF Spec

\* The failure of the work on one version never deactivates another version, as
\* long as users wait for the document to settle and no backlog passes for a stuck
\* stage: the failure that the chunking, embedding and sync workers charge to the
\* newest job, whatever version they were on, then falls on the version of the one
\* thread of work or on a version that is not active.
THEOREM FailuresAreLocal ==
    ASSUME ~Overlap, "backlog" \notin Faults
    PROVE  Spec => FailureIsLocal
<1>1. ASSUME TypeOK, Known, Serial, NEW r \in running, FailWork(r)
      PROVE  active \ {r.ver} \subseteq active'
  <2>1. PICK w \in Versions : Thread(w)
    BY <1>1 DEF Serial
  <2>2. r.ver = w /\ w # 0 /\ (Current \in active => w = Current)
    BY <1>1, <2>1, MaxVersionAssumption DEF Thread, Versions
  <2>3. CASE ListenerFail(r)
    BY <2>2, <2>3 DEF ListenerFail, RecordFailure, StillActive
  <2>4. CASE StageFail(r)
    BY <2>2, <2>4 DEF StageFail, RecordFailure, StillActive, Current
  <2>5. CASE ~ListenerFail(r) /\ ~StageFail(r)
    BY <1>1, <2>5
       DEF FailWork, IngestRetry, IngestFail, StageRetry, RestoreFail, Lose, Redeliver, docVars
  <2> QED
    BY <2>3, <2>4, <2>5
<1>2. IInv /\ Serial /\ [Next]_vars =>
        [\A r \in running : FailWork(r) => active \ {r.ver} \subseteq active']_vars
  BY <1>1 DEF IInv
<1> QED
  BY <1>2, SerialInvariance, PTL DEF Spec, FailureIsLocal

--------------------------------------------------------------------------------
(* The points of the index.                                                *)

\* A sync that will write points has found or made its metadata row, and the
\* row is not soft-deleted under it: the clean-ups spare the version of the one
\* thread of work.
Tracked ==
    /\ PointsAreTracked
    /\ \A r \in running : Indexing(r) => meta[r.id] # "deleted"

\* A step that writes neither points nor metadata, and begins no sync whose row
\* is gone.
Untouched ==
    /\ UNCHANGED <<points, meta>>
    /\ \A r \in running' : r \in running \/ (Indexing(r) => meta[r.id] # "deleted")

LEMMA UntouchedTracked ==
    ASSUME Tracked, Untouched
    PROVE  Tracked'
BY DEF Tracked, Untouched, PointsAreTracked

LEMMA BeginTracked ==
    ASSUME TypeOK, Known, Tracked, NEW m \in queue, BeginWork(m)
    PROVE  Tracked'
<1>1. ASSUME queue' = queue \ {m}, UNCHANGED <<points, meta, running>>
      PROVE  Tracked'
  BY <1>1, UntouchedTracked DEF Untouched
<1>2. ASSUME NEW r, Take(m, r), UNCHANGED <<points, meta>>,
             Indexing(r) => meta[r.id] # "deleted"
      PROVE  Tracked'
  BY <1>2, UntouchedTracked DEF Untouched, Take
<1>3. ASSUME NEW k, NEW v, NEW b, Take(m, SyncBegun(k, v, b)), UNCHANGED <<points, meta>>
      PROVE  Tracked'
  <2> DEFINE r == SyncBegun(k, v, b)
  <2>1. Indexing(r) => meta[r.id] # "deleted"
    BY DEF SyncBegun, Indexing
  <2>2. Take(m, r)
    BY <1>3
  <2> HIDE DEF r
  <2> QED
    BY <1>2, <1>3, <2>1, <2>2
<1>4. ASSUME NEW k, NEW i, NEW v, NEW b, Take(m, Begun(k, i, v, b)), UNCHANGED <<points, meta>>
      PROVE  Tracked'
  <2> DEFINE r == Begun(k, i, v, b)
  <2>1. ~Indexing(r)
    BY DEF Begun, Indexing
  <2>2. Take(m, r)
    BY <1>4
  <2> HIDE DEF r
  <2> QED
    BY <1>2, <1>4, <2>1, <2>2
<1>5. CASE IngestSkip(m) \/ ListenerIgnore(m) \/ LockRefused(m)
  BY <1>1, <1>5 DEF IngestSkip, ListenerIgnore, LockRefused, idxVars
<1>6. CASE IngestBegin(m)
  <2> DEFINE b == active \subseteq {job[m.id].ver} /\ status # "READY"
             r == [Begun("ingest", m.id, job[m.id].ver, b) EXCEPT !.step = "VALIDATING"]
  <2>1. r.kind = "ingest" /\ Take(m, r) /\ UNCHANGED <<points, meta>>
    BY <1>6 DEF IngestBegin, Begun, idxVars
  <2> HIDE DEF r
  <2> QED
    BY <1>2, <2>1 DEF Indexing
<1>7. CASE ListenerBegin(m)
  BY <1>4, <1>7 DEF ListenerBegin, idxVars
<1>8. CASE StageBegin(m)
  BY <1>4, <1>8 DEF StageBegin, idxVars
<1>9. CASE Promote(m)
  BY <1>4, <1>9 DEF Promote, idxVars
<1>10. CASE SyncBegin(m)
  BY <1>3, <1>10 DEF SyncBegin, idxVars
<1>11. CASE RestoreBegin(m)
  BY <1>3, <1>11 DEF RestoreBegin, idxVars
<1>12. CASE PurgeArchived(m)
  BY <1>12 DEF PurgeArchived, Tracked, PointsAreTracked
<1> QED
  BY <1>5, <1>6, <1>7, <1>8, <1>9, <1>10, <1>11, <1>12 DEF BeginWork

\* A sync that writes points settles its metadata row.
LEMMA IndexTracked ==
    ASSUME TypeOK, Known, Tracked, NEW r \in running, Indexing(r),
           NEW st \in {"COMPLETED", "FAILED"}, SetMeta(r, st),
           UNCHANGED points \/ points' = [points EXCEPT ![r.id] = r.gen],
           \A u \in running' : Indexing(u) => u \in running
    PROVE  Tracked'
<1>1. r.id \in Versions /\ meta[r.id] # "deleted"
  BY RunningType DEF Tracked
<1>2. meta' = [meta EXCEPT ![r.id] = st]
  BY <1>1 DEF SetMeta, TypeOK
<1>3. \A v \in Versions : meta'[v] = IF v = r.id THEN st ELSE meta[v]
  BY <1>1, <1>2 DEF TypeOK
<1>4. \A v \in Versions : v # r.id => points'[v] = points[v]
  BY <1>1 DEF TypeOK
<1>5. PointsAreTracked'
  BY <1>3, <1>4 DEF Tracked, PointsAreTracked
<1>6. ASSUME NEW u \in running', Indexing(u) PROVE meta'[u.id] # "deleted"
  <2>1. u \in running /\ u.id \in Versions
    BY <1>6, RunningType
  <2> QED
    BY <1>3, <1>6, <2>1 DEF Tracked
<1> QED
  BY <1>5, <1>6 DEF Tracked

LEMMA FailedIndexTracked ==
    ASSUME TypeOK, Known, Tracked, NEW r \in running, FailedIndex(r),
           running' \subseteq running
    PROVE  Tracked'
<1>1. CASE Indexing(r)
  <2>1. SetMeta(r, "FAILED")
    BY <1>1 DEF FailedIndex
  <2>2. UNCHANGED points \/ points' = [points EXCEPT ![r.id] = r.gen]
    BY DEF FailedIndex, PartialUpsert
  <2>3. \A u \in running' : Indexing(u) => u \in running
    OBVIOUS
  <2> QED
    BY <1>1, <2>1, <2>2, <2>3, IndexTracked
<1>2. CASE ~Indexing(r)
  BY <1>2, UntouchedTracked DEF FailedIndex, PartialUpsert, Untouched
<1> QED
  BY <1>1, <1>2

\* The clean-up spares the version it was sent for, which is that of every sync.
LEMMA CleanupTracked ==
    ASSUME TypeOK, Known, Tracked, NEW w \in Versions, Thread(w),
           NEW r \in running, Cleanup(r)
    PROVE  Tracked'
<1>1. r.kind = "cleanup" /\ running' \subseteq running
  BY DEF Cleanup, Finish
<1>2. r.id = w
  BY <1>1 DEF Thread, Concerns
<1>3. PICK refused \in SUBSET Obsolete(w) :
        /\ meta' = [u \in Versions |->
                      CASE u \in refused -> "CLEANUP_PENDING"
                        [] u \in Obsolete(w) \ refused -> "deleted"
                        [] OTHER -> meta[u]]
        /\ points' = [u \in Versions |->
                        IF u \in Obsolete(w) \ refused THEN 0 ELSE points[u]]
  BY <1>2 DEF Cleanup
<1>4. ASSUME NEW v \in Versions
      PROVE  \/ v \in refused /\ meta'[v] = "CLEANUP_PENDING"
             \/ v \in Obsolete(w) \ refused /\ meta'[v] = "deleted" /\ points'[v] = 0
             \/ v \notin Obsolete(w) /\ meta'[v] = meta[v] /\ points'[v] = points[v]
  <2>1. CASE v \in refused
    BY <1>3, <2>1
  <2>2. CASE v \in Obsolete(w) \ refused
    BY <1>3, <2>2
  <2>3. CASE v \notin Obsolete(w)
    BY <1>3, <2>3
  <2> QED
    BY <2>1, <2>2, <2>3
<1>5. PointsAreTracked'
  BY <1>4 DEF Tracked, PointsAreTracked
<1>6. w \notin Obsolete(w)
  BY DEF Obsolete
<1>7. ASSUME NEW u \in running', Indexing(u) PROVE meta'[u.id] # "deleted"
  <2>1. u \in running /\ u.id = w
    BY <1>1, <1>7 DEF Thread, Concerns, Indexing
  <2> QED
    BY <1>4, <1>6, <1>7, <2>1 DEF Tracked
<1> QED
  BY <1>5, <1>7 DEF Tracked

LEMMA DoTracked ==
    ASSUME TypeOK, Known, Tracked, NEW w \in Versions, Thread(w),
           NEW r \in running, DoWork(r)
    PROVE  Tracked'
<1>1. ASSUME NEW ms, Finish(r, ms), UNCHANGED <<points, meta>>
      PROVE  Tracked'
  BY <1>1, UntouchedTracked DEF Untouched, Finish
<1>2. ASSUME NEW new, NEW ms, Advance(r, new, ms), UNCHANGED <<points, meta>>, ~Indexing(new)
      PROVE  Tracked'
  BY <1>2, UntouchedTracked DEF Untouched, Advance
<1>3. r \in Activity
  BY DEF TypeOK
<1>4. \A st : [r EXCEPT !.step = st].kind = r.kind /\ [r EXCEPT !.step = st].step = st
  BY <1>3 DEF Activity
<1>5. CASE IngestExtract(r) \/ ListenerDispatch(r) \/ EmbedPublish(r)
  <2>1. PICK st, ms : /\ Advance(r, [r EXCEPT !.step = st], ms) /\ st # "begun"
                      /\ UNCHANGED <<points, meta>>
    BY <1>5 DEF IngestExtract, ListenerDispatch, EmbedPublish, idxVars
  <2> DEFINE new == [r EXCEPT !.step = st]
  <2>2. Advance(r, new, ms) /\ new.step = st
    BY <1>4, <2>1
  <2> HIDE DEF new
  <2>3. ~Indexing(new)
    BY <2>1, <2>2 DEF Indexing
  <2> QED
    BY <1>2, <2>1, <2>2, <2>3
<1>6. CASE IngestFinish(r)
  BY <1>1, <1>6 DEF IngestFinish, idxVars
<1>7. CASE ListenerWrite(r)
  BY <1>1, <1>7 DEF ListenerWrite, idxVars
<1>8. CASE ChunkFinish(r)
  BY <1>1, <1>8 DEF ChunkFinish
<1>9. CASE EmbedRecord(r)
  <2> DEFINE new == [r EXCEPT !.gen = gen[r.id]]
  <2>1. Advance(r, new, {}) /\ new.kind = "embed" /\ UNCHANGED <<points, meta>>
    BY <1>3, <1>9 DEF EmbedRecord, Activity
  <2> HIDE DEF new
  <2> QED
    BY <1>2, <2>1 DEF Indexing
<1>10. CASE EmbedCommit(r)
  BY <1>1, <1>10 DEF EmbedCommit
<1>11. CASE SyncNothing(r)
  BY <1>1, <1>11 DEF SyncNothing, idxVars
<1>12. CASE SyncFinish(r)
  <2>1. /\ Indexing(r) /\ SetMeta(r, "COMPLETED") /\ running' \subseteq running
        /\ points' = [points EXCEPT ![r.id] = r.gen]
    BY <1>12 DEF SyncFinish, Index, Indexing, Finish
  <2> QED
    BY <2>1, IndexTracked
<1>13. CASE SyncConflict(r)
  BY <1>1, <1>13 DEF SyncConflict, idxVars
<1>14. CASE Cleanup(r)
  BY <1>14, CleanupTracked
<1>15. CASE RestoreSync(r)
  <2>1. /\ Indexing(r) /\ SetMeta(r, "COMPLETED")
        /\ points' = [points EXCEPT ![r.id] = r.gen]
        /\ running' = (running \ {r}) \cup {[r EXCEPT !.step = "published"]}
    BY <1>15 DEF RestoreSync, Index, Indexing, Advance
  <2>2. \A u \in running' : Indexing(u) => u \in running
    <3> DEFINE new == [r EXCEPT !.step = "published"]
    <3>1. new.step = "published" /\ running' = (running \ {r}) \cup {new}
      BY <1>4, <2>1
    <3> HIDE DEF new
    <3> QED
      BY <3>1 DEF Indexing
  <2> QED
    BY <2>1, <2>2, IndexTracked
<1>16. CASE RestoreFinish(r)
  BY <1>1, <1>16 DEF RestoreFinish, idxVars
<1> QED
  BY <1>5, <1>6, <1>7, <1>8, <1>9, <1>10, <1>11, <1>12, <1>13, <1>14, <1>15, <1>16
     DEF DoWork

LEMMA FailTracked ==
    ASSUME Losable \cap {"sync", "restore"} = {},
           TypeOK, Known, Tracked, NEW r \in running, FailWork(r)
    PROVE  Tracked'
<1>1. CASE IngestRetry(r) \/ IngestFail(r) \/ ListenerFail(r) \/ Redeliver(r)
  <2>1. running' \subseteq running /\ UNCHANGED <<points, meta>>
    BY <1>1 DEF IngestRetry, IngestFail, ListenerFail, Redeliver, Finish, idxVars
  <2> QED
    BY <2>1, UntouchedTracked DEF Untouched
<1>2. CASE StageRetry(r) \/ StageFail(r) \/ RestoreFail(r)
  <2>1. running' \subseteq running /\ FailedIndex(r)
    BY <1>2 DEF StageRetry, StageFail, RestoreFail, Finish
  <2> QED
    BY <2>1, FailedIndexTracked
<1>3. CASE Lose(r)
  <2>1. ~Indexing(r)
    BY <1>3 DEF Lose, Indexing
  <2>2. running' \subseteq running /\ UNCHANGED <<points, meta>>
    BY <1>3, <2>1 DEF Lose, Finish, PartialUpsert
  <2> QED
    BY <2>2, UntouchedTracked DEF Untouched
<1> QED
  BY <1>1, <1>2, <1>3 DEF FailWork

LEMMA UserTracked ==
    ASSUME ~Overlap, TypeOK, Tracked, UserStep
    PROVE  Tracked'
<1>1. CASE UploadBegin
  <2> DEFINE u == Begun("upload", latest, latest, WillWrite("UPLOADED"))
  <2>1. running' = running \cup {u} /\ UNCHANGED <<points, meta>> /\ u.kind = "upload"
    BY <1>1 DEF UploadBegin, Begun, idxVars
  <2> HIDE DEF u
  <2> QED
    BY <2>1, UntouchedTracked DEF Untouched, Indexing
<1>2. ASSUME NEW r \in running, UploadNewVersion(r) PROVE Tracked'
  BY <1>2, UntouchedTracked DEF UploadNewVersion, CreateVersion, Untouched, idxVars
<1>3. CASE RollbackToVersion
  BY <1>3, UntouchedTracked DEF RollbackToVersion, CreateVersion, Untouched, idxVars
<1>4. CASE RetryDocument
  BY <1>4, UntouchedTracked DEF RetryDocument, RestartLatest, Untouched, idxVars
<1>5. CASE ReingestDocument
  <2>1. running' = {}
    BY <1>5 DEF ReingestDocument, Call, Settled, RestartLatest
  <2>2. CASE UNCHANGED <<points, meta>>
    BY <2>1, <2>2, UntouchedTracked DEF Untouched
  <2>3. CASE points' = [v \in Versions |-> 0]
    BY <2>1, <2>3 DEF Tracked, PointsAreTracked
  <2> QED
    BY <1>5, <2>2, <2>3 DEF ReingestDocument
<1>6. CASE ArchiveDocument
  BY <1>6, UntouchedTracked DEF ArchiveDocument, Untouched, idxVars
<1>7. CASE RestoreDocument
  BY <1>7, UntouchedTracked DEF RestoreDocument, Untouched, idxVars
<1> QED
  BY <1>1, <1>2, <1>3, <1>4, <1>5, <1>6, <1>7 DEF UserStep

LEMMA StepTracked ==
    ASSUME ~Overlap, Losable \cap {"sync", "restore"} = {},
           IInv, Serial, Tracked, [Next]_vars
    PROVE  Tracked'
<1> USE DEF IInv
<1>1. PICK w \in Versions : Thread(w)
  BY DEF Serial
<1>2. CASE UserStep
  BY <1>2, UserTracked
<1>3. ASSUME NEW m \in queue, BeginWork(m) PROVE Tracked'
  BY <1>3, BeginTracked
<1>4. ASSUME NEW m \in queue, LoseEvent(m) PROVE Tracked'
  BY <1>4, UntouchedTracked DEF LoseEvent, Untouched, idxVars
<1>5. ASSUME NEW r \in running, DoWork(r) PROVE Tracked'
  BY <1>1, <1>5, DoTracked
<1>6. ASSUME NEW r \in running, FailWork(r) PROVE Tracked'
  BY <1>6, FailTracked
<1>7. CASE Watchdog
  BY <1>7, UntouchedTracked
     DEF Watchdog, WatchdogRedispatch, WatchdogFail, Untouched, idxVars
<1>8. CASE UNCHANGED vars
  BY <1>8, UntouchedTracked DEF vars, idxVars, Untouched
<1> QED
  BY <1>2, <1>3, <1>4, <1>5, <1>6, <1>7, <1>8 DEF Next

\* No upload, failure, retry, re-ingestion, archiving or clean-up leaves points
\* without a live metadata row, as long as users wait for the document to settle,
\* no backlog passes for a stuck stage, and no sync is killed after its upsert:
\* then every sync finds or makes its row before it writes points, settles the row
\* when it raises, and keeps it until it is done.
THEOREM PointsTracked ==
    ASSUME ~Overlap, "backlog" \notin Faults, Losable \cap {"sync", "restore"} = {}
    PROVE  Spec => []PointsAreTracked
<1>1. Init => Tracked
  BY DEF Init, Tracked, PointsAreTracked
<1>2. IInv /\ Serial /\ Tracked /\ [Next]_vars => Tracked'
  BY StepTracked
<1>3. Tracked => PointsAreTracked
  BY DEF Tracked
<1> QED
  BY <1>1, <1>2, <1>3, SerialInvariance, PTL DEF Spec

--------------------------------------------------------------------------------
(* What a READY document serves.                                           *)

\* Work that hands on nothing more: listeners that have sent their task, an
\* embedding that has published its event, clean-ups; and uploads.
Trailing(r) ==
    \/ r.kind \in {"upload", "cleanup"}
    \/ r.kind \in Chained /\ r.step = "dispatched"
    \/ r.kind = "embed" /\ r.step = "published"

\* A stage hands the document on to the next one: besides trailing work there is
\* one message or one activity at a time.
Sole ==
    /\ \A m \in queue : queue = {m} /\ \A r \in running : Trailing(r)
    /\ \A r \in running : Trailing(r) \/ \A s \in running : s = r \/ Trailing(s)

NoArchiving ==
    /\ \A m \in queue : m.kind \notin {"purge", "restore"}
    /\ \A r \in running : r.kind \notin {"purge", "restore"}

\* Retrieval would find the content of v if the document pointed to it.
Found(v) == points[v] = gen[v] /\ chunks[v] # "none"

\* A sync works on the chunks its version still has, has found its metadata row
\* deleted or not, and has made the version findable when it announces it; a
\* clean-up spares the active version.
Syncs ==
    /\ \A r \in running : r.kind = "sync" =>
         IF r.gen = 0 THEN r.step = "begun"
         ELSE /\ r.gen = gen[r.id] /\ chunks[r.id] # "none"
              /\ r.step = (IF meta[r.id] = "deleted" THEN "conflict" ELSE "begun")
    /\ \A m \in queue : m.kind = "indexed" => Found(m.id) /\ meta[m.id] # "deleted"
    /\ \A r \in running : r.kind = "cleanup" => active \subseteq {r.id}

\* The active version is the latest.  While the document is not READY it may be
\* unfindable as long as it is what the thread w works on, and its metadata row
\* may be deleted as long as its failure would be charged to it; work on a
\* version that is active and READY has nothing left but trailing work.
Served(w) ==
    /\ active \subseteq {latest}
    /\ status = "FAILED" => active = {}
    /\ status = "READY" => active # {}
    /\ \A v \in active : /\ Found(v) \/ (v = w /\ status # "READY")
                         /\ meta[v] # "deleted" \/ (v = Current /\ status # "READY")
    /\ status = "READY" /\ w \in active => queue = {} /\ \A r \in running : Trailing(r)

Stands(w) == Served(w) /\ Sole /\ NoArchiving /\ Syncs

Steady == status # "ARCHIVED" => \E w \in Versions : Thread(w) /\ Stands(w)

LEMMA TakeSole ==
    ASSUME Sole, NEW m, NEW r, Take(m, r)
    PROVE  Sole' /\ queue' = {} /\ \A s \in running : Trailing(s)
BY DEF Sole, Take

LEMMA FewerSole ==
    ASSUME Sole, queue' \subseteq queue, running' \subseteq running
    PROVE  Sole'
BY DEF Sole

LEMMA FirstSole ==
    ASSUME running' = {}, NEW m, queue' \subseteq {m}
    PROVE  Sole'
BY DEF Sole

\* Work that hands on has nothing but trailing work beside it.
LEMMA TokenSole ==
    ASSUME Sole, NEW r \in running, ~Trailing(r)
    PROVE  /\ queue = {} /\ \A s \in running : s = r \/ Trailing(s)
           /\ \A s \in running : s = r \/ s.kind # "sync"
<1>1. queue = {} /\ \A s \in running : s = r \/ Trailing(s)
  BY DEF Sole
<1>2. \A s : Trailing(s) => s.kind # "sync"
  BY DEF Trailing, Chained, Dispatches
<1> QED
  BY <1>1, <1>2

LEMMA FinishSole ==
    ASSUME Sole, NEW r \in running, ~Trailing(r), NEW m, Finish(r, {m})
    PROVE  Sole'
BY TokenSole DEF Sole, Finish

LEMMA AdvanceSole ==
    ASSUME Sole, NEW r \in running, ~Trailing(r), NEW new, NEW m, NEW ms,
           ms = {} \/ (ms = {m} /\ Trailing(new)), Advance(r, new, ms)
    PROVE  Sole'
<1>1. queue = {} /\ \A s \in running : s = r \/ Trailing(s)
  BY TokenSole
<1> QED
  BY <1>1 DEF Sole, Advance

LEMMA CurrentKept ==
    ASSUME TypeOK, Keeps
    PROVE  Current' = Current
BY DEF TypeOK, Keeps, Current

\* A step of the work that neither promotes nor fails.
LEMMA ServedWork ==
    ASSUME TypeOK, Keeps, NEW w \in Versions, Served(w), UNCHANGED <<latest, active>>,
           status' = status \/ status' \notin {"READY", "FAILED"},
           \A v \in active : Found(v) => Found(v)' \/ (v = w /\ status' # "READY"),
           \A v \in active : meta[v] # "deleted" => meta'[v] # "deleted",
           \/ queue # {} \/ \E r \in running : ~Trailing(r)
           \/ queue' \subseteq queue /\ running' \subseteq running
    PROVE  Served(w)'
<1>1. Current' = Current
  BY CurrentKept
<1>2. status' = "READY" => status = "READY"
  OBVIOUS
<1>3. ASSUME NEW v \in active
      PROVE  /\ Found(v)' \/ (v = w /\ status' # "READY")
             /\ meta'[v] # "deleted" \/ (v = Current /\ status' # "READY")
  BY <1>2, <1>3 DEF Served
<1>4. status' = "READY" /\ w \in active => queue' = {} /\ \A r \in running' : Trailing(r)
  BY <1>2 DEF Served
<1>5. /\ active \subseteq {latest} /\ (status' = "FAILED" => active = {})
      /\ status' = "READY" => active # {}
  BY DEF Served
<1> QED
  BY <1>1, <1>3, <1>4, <1>5 DEF Served

\* A step of the work that does not touch the index.
LEMMA ServedStill ==
    ASSUME TypeOK, Keeps, NEW w \in Versions, Served(w), UNCHANGED <<latest, active, idxVars>>,
           status' = status \/ status' \notin {"READY", "FAILED"},
           \/ queue # {} \/ \E r \in running : ~Trailing(r)
           \/ queue' \subseteq queue /\ running' \subseteq running
    PROVE  Served(w)'
<1>1. \A v \in active : (Found(v) => Found(v)') /\ meta'[v] = meta[v]
  BY DEF Found, idxVars
<1> QED
  BY <1>1, ServedWork

\* A failure that is charged neither to what is findable nor to another version.
LEMMA ServedFailure ==
    ASSUME TypeOK, Keeps, NEW w \in Versions, Served(w), UNCHANGED idxVars,
           NEW j, NEW ver, RecordFailure(j, ver), active' \cap {w, Current} = {}
    PROVE  Served(w)'
<1>1. Current' = Current
  BY CurrentKept
<1>2. /\ active' \subseteq active /\ latest' = latest
      /\ status' = IF active' # {} THEN "READY" ELSE "FAILED"
  BY DEF RecordFailure, StillActive
<1>3. ASSUME NEW v \in active' PROVE Found(v)' /\ meta'[v] # "deleted"
  <2>1. Found(v) /\ meta[v] # "deleted"
    BY <1>2 DEF Served
  <2> QED
    BY <2>1 DEF Found, idxVars
<1> QED
  BY <1>2, <1>3 DEF Served

\* The version of the thread keeps what the syncs and their events say of it.
LEMMA SyncsKept ==
    ASSUME NEW w, Thread(w), Syncs, active' \subseteq active,
           \A r \in running' : r \in running \/ r.kind \notin {"sync", "cleanup"},
           \A m \in queue' : m \in queue \/ m.kind # "indexed",
           gen'[w] = gen[w], points'[w] = points[w],
           chunks[w] # "none" => chunks'[w] # "none",
           meta'[w] = "deleted" <=> meta[w] = "deleted"
    PROVE  Syncs'
<1>1. ASSUME NEW r \in running', r.kind = "sync"
      PROVE  IF r.gen = 0 THEN r.step = "begun"
             ELSE /\ r.gen = gen'[r.id] /\ chunks'[r.id] # "none"
                  /\ r.step = (IF meta'[r.id] = "deleted" THEN "conflict" ELSE "begun")
  <2>1. r \in running /\ r.id = w
    BY <1>1 DEF Thread, Concerns
  <2> QED
    BY <1>1, <2>1 DEF Syncs
<1>2. ASSUME NEW m \in queue', m.kind = "indexed" PROVE Found(m.id)' /\ meta'[m.id] # "deleted"
  <2>1. m \in queue /\ m.id = w
    BY <1>2 DEF Thread, Concerns
  <2> QED
    BY <1>2, <2>1 DEF Syncs, Found
<1>3. ASSUME NEW r \in running', r.kind = "cleanup" PROVE active' \subseteq {r.id}
  BY <1>3 DEF Syncs
<1> QED
  BY <1>1, <1>2, <1>3 DEF Syncs

LEMMA SyncsStill ==
    ASSUME NEW w, Thread(w), Syncs, active' \subseteq active, UNCHANGED idxVars,
           \A r \in running' : r \in running \/ r.kind \notin {"sync", "cleanup"},
           \A m \in queue' : m \in queue \/ m.kind # "indexed"
    PROVE  Syncs'
BY SyncsKept DEF idxVars

LEMMA SyncsNone ==
    ASSUME Syncs, active' \subseteq active,
           \A r \in running' : r.kind # "sync" /\ (r \in running \/ r.kind # "cleanup"),
           \A m \in queue' : m.kind # "indexed"
    PROVE  Syncs'
BY DEF Syncs

LEMMA BeginStands ==
    ASSUME TypeOK, Keeps, NEW w \in Versions, Thread(w), Stands(w),
           NEW m \in queue, BeginWork(m)
    PROVE  Stands(w)'
<1> USE DEF Stands
<1>1. m.kind \notin {"purge", "restore"} /\ (m.kind # "ingest" => m.id = w)
  BY DEF NoArchiving, Thread, Concerns
<1>2. ASSUME queue' = queue \ {m}, UNCHANGED <<docVars, idxVars, running>>
      PROVE  Stands(w)'
  <2>1. Served(w)'
    BY <1>2, ServedStill DEF docVars
  <2>2. Sole' /\ NoArchiving' /\ Syncs'
    BY <1>2, FewerSole, SyncsStill DEF NoArchiving, docVars
  <2> QED
    BY <2>1, <2>2
<1>3. ASSUME NEW r, Take(m, r), r.kind \notin {"sync", "cleanup", "purge", "restore"},
             UNCHANGED <<latest, active, idxVars>>,
             status' = status \/ status' \notin {"READY", "FAILED"}
      PROVE  Stands(w)'
  <2>1. Served(w)'
    BY <1>3, ServedStill
  <2>2. queue' \subseteq queue /\ running' = running \cup {r}
    BY <1>3 DEF Take
  <2>3. Sole'
    BY <1>3, TakeSole
  <2>4. NoArchiving'
    BY <1>3, <2>2 DEF NoArchiving
  <2>5. Syncs'
    BY <1>3, <2>2, SyncsStill
  <2> QED
    BY <2>1, <2>3, <2>4, <2>5
<1>4. CASE IngestSkip(m) \/ ListenerIgnore(m) \/ LockRefused(m)
  BY <1>2, <1>4 DEF IngestSkip, ListenerIgnore, LockRefused
<1>5. CASE IngestBegin(m)
  <2> DEFINE b == active \subseteq {job[m.id].ver} /\ status # "READY"
             r == [Begun("ingest", m.id, job[m.id].ver, b) EXCEPT !.step = "VALIDATING"]
  <2>1. Take(m, r) /\ r.kind = "ingest" /\ UNCHANGED <<latest, active, idxVars>>
    BY <1>5 DEF IngestBegin, Begun
  <2>2. status' = status \/ status' \notin {"READY", "FAILED"}
    BY <1>5 DEF IngestBegin, Write
  <2> HIDE DEF r
  <2> QED
    BY <1>3, <2>1, <2>2
<1>6. CASE ListenerBegin(m) \/ StageBegin(m)
  <2>1. PICK b : Take(m, Begun(m.kind, m.id, m.id, b))
    BY <1>6 DEF ListenerBegin, StageBegin
  <2> DEFINE r == Begun(m.kind, m.id, m.id, b)
  <2>2. r.kind = m.kind /\ Take(m, r)
    BY <2>1 DEF Begun
  <2>3. /\ m.kind \notin {"sync", "cleanup", "purge", "restore"}
        /\ UNCHANGED <<status, latest, active, idxVars>>
    BY <1>6 DEF ListenerBegin, StageBegin, Chained, Dispatches, docVars
  <2> HIDE DEF r
  <2> QED
    BY <1>3, <2>2, <2>3
<1>7. CASE SyncBegin(m)
  <2> DEFINE r == SyncBegun("sync", w, FALSE)
  <2>1. Take(m, r) /\ UNCHANGED <<status, latest, active, idxVars>>
    BY <1>1, <1>7 DEF SyncBegin, docVars
  <2>2. /\ r.kind = "sync" /\ r.id = w
        /\ IF r.gen = 0 THEN r.step = "begun"
           ELSE /\ r.gen = gen[w] /\ chunks[w] # "none"
                /\ r.step = (IF meta[w] = "deleted" THEN "conflict" ELSE "begun")
    <3>1. gen[w] \in Nat
      BY DEF TypeOK
    <3>2. CASE chunks[w] = "embedded" /\ gen[w] > 0
      BY <3>1, <3>2 DEF SyncBegun
    <3>3. CASE ~(chunks[w] = "embedded" /\ gen[w] > 0)
      BY <3>1, <3>3 DEF SyncBegun
    <3> QED
      BY <3>2, <3>3
  <2> HIDE DEF r
  <2>3. Served(w)'
    BY <2>1, ServedStill
  <2>4. Sole' /\ queue' = {} /\ \A s \in running : Trailing(s)
    BY <2>1, TakeSole
  <2>5. NoArchiving'
    BY <2>1, <2>2 DEF NoArchiving, Take
  <2>6. running' = running \cup {r} /\ \A s \in running : s.kind # "sync"
    BY <2>1, <2>4 DEF Take, Trailing, Chained, Dispatches
  <2>7. Syncs'
    BY <2>1, <2>2, <2>4, <2>6 DEF Syncs, idxVars
  <2> QED
    BY <2>3, <2>4, <2>5, <2>7
<1>8. CASE Promote(m)
  <2>1. m.id = w /\ Supersedes(w) /\ m.kind = "indexed"
    BY <1>1, <1>8 DEF Promote, Supersedes, Thread
  <2>2. active' = {w} /\ latest' = w /\ status' = "READY" /\ UNCHANGED idxVars
    BY <1>8, <2>1 DEF Promote, OnlyActive
  <2> DEFINE r == Begun("cleanup", w, w, FALSE)
  <2>3. Take(m, r) /\ r.kind = "cleanup" /\ r.id = w
    BY <1>8, <2>2 DEF Promote, Begun
  <2> HIDE DEF r
  <2>4. Sole' /\ queue' = {} /\ \A s \in running : Trailing(s)
    BY <2>3, TakeSole
  <2>5. running' = running \cup {r} /\ \A s \in running' : Trailing(s) /\ s.kind # "sync"
    BY <2>3, <2>4 DEF Take, Trailing, Chained, Dispatches
  <2>6. Found(w)' /\ meta'[w] # "deleted"
    BY <2>1, <2>2 DEF Syncs, Found, idxVars
  <2>7. Served(w)'
    BY <2>2, <2>4, <2>5, <2>6 DEF Served
  <2>8. \A s \in running' : s.kind = "cleanup" => s.id = w
    BY <2>3, <2>5 DEF Thread, Concerns
  <2>9. Syncs'
    BY <2>2, <2>4, <2>5, <2>8 DEF Syncs
  <2>10. NoArchiving'
    BY <2>3, <2>4, <2>5 DEF NoArchiving
  <2> QED
    BY <2>4, <2>7, <2>9, <2>10
<1>9. ~PurgeArchived(m) /\ ~RestoreBegin(m)
  BY <1>1 DEF PurgeArchived, RestoreBegin
<1> QED
  BY <1>4, <1>5, <1>6, <1>7, <1>8, <1>9 DEF BeginWork

LEMMA DoStands ==
    ASSUME TypeOK, Keeps, NEW w \in Versions, Thread(w), Stands(w),
           NEW r \in running, DoWork(r)
    PROVE  Stands(w)'
<1> USE DEF Stands
<1>1. /\ r.kind \notin {"purge", "restore"} /\ (r.kind # "ingest" => r.id = w)
      /\ r \in Activity
  <2>1. r \in Activity
    BY DEF TypeOK
  <2> QED
    BY <2>1 DEF NoArchiving, Thread, Concerns
<1>2. \A st : [r EXCEPT !.step = st].kind = r.kind /\ [r EXCEPT !.step = st].step = st
  BY <1>1 DEF Activity
\* The last act of work that hands nothing on.
<1>3. ASSUME Finish(r, {}), Served(w)', Syncs' PROVE Stands(w)'
  <2>1. queue' \subseteq queue /\ running' \subseteq running
    BY <1>3 DEF Finish
  <2> QED
    BY <1>3, <2>1, FewerSole DEF NoArchiving
<1>4. ASSUME Finish(r, {}), UNCHANGED <<latest, active, idxVars>>,
             status' = status \/ status' \notin {"READY", "FAILED"}
      PROVE  Stands(w)'
  <2>1. queue' \subseteq queue /\ running' \subseteq running
    BY <1>4 DEF Finish
  <2> QED
    BY <1>3, <1>4, <2>1, ServedStill, SyncsStill
\* Handing the document on.
<1>5. ASSUME ~Trailing(r), NEW k, k \notin {"indexed", "purge", "restore"},
             NEW i, Finish(r, {Msg(k, i)}), Served(w)', UNCHANGED active
      PROVE  Stands(w)'
  <2> DEFINE m == Msg(k, i)
  <2>1. m.kind = k /\ Finish(r, {m})
    BY <1>5 DEF Msg
  <2> HIDE DEF m
  <2>2. /\ queue' = {m} /\ running' \subseteq running
        /\ \A s \in running' : s.kind # "sync"
    BY <1>5, <2>1, TokenSole DEF Finish
  <2>3. Sole' /\ NoArchiving'
    BY <1>5, <2>1, <2>2, FinishSole DEF NoArchiving
  <2>4. Syncs'
    BY <1>5, <2>1, <2>2, SyncsNone
  <2> QED
    BY <1>5, <2>3, <2>4
<1>6. ASSUME ~Trailing(r), NEW new, new.kind \notin {"sync", "cleanup", "purge", "restore"},
             NEW m, m.kind \notin {"indexed", "purge", "restore"},
             NEW ms, ms = {} \/ (ms = {m} /\ Trailing(new)), Advance(r, new, ms),
             Served(w)', UNCHANGED active
      PROVE  Stands(w)'
  <2>1. /\ queue' \subseteq {m} /\ running' = (running \ {r}) \cup {new}
        /\ \A s \in running' : s.kind # "sync"
    BY <1>6, TokenSole DEF Advance
  <2>2. Sole'
    BY <1>6, AdvanceSole
  <2>3. NoArchiving'
    BY <1>6, <2>1 DEF NoArchiving
  <2>4. Syncs'
    BY <1>6, <2>1, SyncsNone
  <2> QED
    BY <1>6, <2>2, <2>3, <2>4
<1>7. CASE IngestExtract(r)
  <2> DEFINE new == [r EXCEPT !.step = "EXTRACTING"]
  <2>1. /\ r.kind = "ingest" /\ Advance(r, new, {}) /\ UNCHANGED <<latest, active, idxVars>>
        /\ status' = status \/ status' \notin {"READY", "FAILED"}
    BY <1>7 DEF IngestExtract, Write
  <2>2. new.kind = "ingest" /\ ~Trailing(r)
    BY <1>2, <2>1 DEF Trailing, Chained, Dispatches
  <2>3. Served(w)'
    BY <2>1, <2>2, ServedStill
  <2>4. Msg("chunk", w).kind = "chunk"
    BY DEF Msg
  <2> HIDE DEF new
  <2> QED
    BY <1>6, <2>1, <2>2, <2>3, <2>4
<1>8. CASE IngestFinish(r)
  <2>1. /\ r.kind = "ingest" /\ Finish(r, {Msg("processed", r.ver)})
        /\ UNCHANGED <<latest, active, idxVars>>
        /\ status' = status \/ status' \notin {"READY", "FAILED"}
    BY <1>8 DEF IngestFinish, Write
  <2>2. ~Trailing(r)
    BY <2>1 DEF Trailing, Chained, Dispatches
  <2>3. Served(w)'
    BY <2>1, <2>2, ServedStill
  <2> QED
    BY <1>5, <2>1, <2>2, <2>3
<1>9. CASE ListenerDispatch(r)
  <2> DEFINE new == [r EXCEPT !.step = "dispatched"]
             m == Msg(Dispatches[r.kind], r.id)
  <2>1. /\ r.kind \in Chained /\ r.step = "begun" /\ Advance(r, new, {m})
        /\ UNCHANGED <<status, latest, active, idxVars>>
    BY <1>9 DEF ListenerDispatch, docVars
  <2>2. /\ new.kind = r.kind /\ Trailing(new) /\ ~Trailing(r)
        /\ r.kind \notin {"sync", "cleanup", "purge", "restore"}
    BY <1>2, <2>1 DEF Trailing, Chained, Dispatches
  <2>3. m.kind \notin {"indexed", "purge", "restore"}
    BY <2>1 DEF Msg, Chained, Dispatches
  <2>4. Served(w)'
    BY <2>1, <2>2, ServedStill
  <2> HIDE DEF new, m
  <2> QED
    BY <1>6, <2>1, <2>2, <2>3, <2>4
<1>10. CASE ListenerWrite(r)
  <2>1. r.kind \in {"processed", "chunked", "embedded"}
    BY <1>10 DEF ListenerWrite, Chained, Dispatches
  <2>2. status' = status \/ status' \notin {"READY", "FAILED"}
    BY <1>10, <2>1 DEF ListenerWrite, Write, StatusAfter
  <2> QED
    BY <1>4, <1>10, <2>2 DEF ListenerWrite
<1>11. CASE ChunkFinish(r)
  <2>1. /\ r.kind = "chunk" /\ r.id = w /\ Finish(r, {Msg("chunked", r.id)})
        /\ UNCHANGED <<latest, active, points, meta>>
        /\ status' = status \/ status' \notin {"READY", "FAILED"}
        /\ \A v \in Versions : v # w => gen'[v] = gen[v] /\ chunks'[v] = chunks[v]
    BY <1>1, <1>11 DEF ChunkFinish, Write, TypeOK
  <2>2. ~Trailing(r)
    BY <2>1 DEF Trailing, Chained, Dispatches
  <2>3. ~(status = "READY" /\ w \in active)
    BY <2>2 DEF Served
  <2>4. ASSUME NEW v \in active, Found(v) PROVE Found(v)' \/ (v = w /\ status' # "READY")
    <3>1. CASE v = w
      BY <2>1, <2>3, <3>1
    <3>2. CASE v # w
      <4>1. v \in Versions
        BY DEF TypeOK
      <4> QED
        BY <2>1, <2>4, <3>2, <4>1 DEF Found
    <3> QED
      BY <3>1, <3>2
  <2>5. Served(w)'
    BY <2>1, <2>2, <2>4, ServedWork
  <2> QED
    BY <1>5, <2>1, <2>2, <2>5
<1>12. CASE EmbedRecord(r)
  <2> DEFINE new == [r EXCEPT !.gen = gen[r.id]]
  <2>1. /\ r.kind = "embed" /\ r.step = "begun" /\ r.id = w /\ Advance(r, new, {})
        /\ UNCHANGED <<status, latest, active, gen, points, meta>>
        /\ \A v \in Versions : chunks[v] # "none" => chunks'[v] # "none"
        /\ new.kind = "embed"
    BY <1>1, <1>12 DEF EmbedRecord, TypeOK, Activity, docVars
  <2>2. ~Trailing(r)
    BY <2>1 DEF Trailing, Chained, Dispatches
  <2>3. \A v \in active : Found(v) => Found(v)'
    BY <2>1 DEF Found, TypeOK
  <2>4. Served(w)'
    BY <2>1, <2>2, <2>3, ServedWork
  <2>5. Msg("chunk", w).kind = "chunk"
    BY DEF Msg
  <2> HIDE DEF new
  <2> QED
    BY <1>6, <2>1, <2>2, <2>4, <2>5
<1>13. CASE EmbedPublish(r)
  <2> DEFINE new == [r EXCEPT !.step = "published"]
             m == Msg("embedded", r.id)
  <2>1. /\ r.kind = "embed" /\ r.step = "begun" /\ Advance(r, new, {m})
        /\ UNCHANGED <<status, latest, active, idxVars>>
    BY <1>13 DEF EmbedPublish, docVars
  <2>2. /\ new.kind = "embed" /\ Trailing(new) /\ ~Trailing(r) /\ m.kind = "embedded"
    BY <1>2, <2>1 DEF Trailing, Chained, Dispatches, Msg
  <2>3. Served(w)'
    BY <2>1, <2>2, ServedStill
  <2> HIDE DEF new, m
  <2> QED
    BY <1>6, <2>1, <2>2, <2>3
<1>14. CASE EmbedCommit(r)
  <2>1. /\ Finish(r, {}) /\ UNCHANGED <<status, latest, active, gen, points, meta>>
        /\ \A v \in Versions : chunks[v] # "none" => chunks'[v] # "none"
    BY <1>14 DEF EmbedCommit, TypeOK, docVars
  <2>2. \A v \in active : Found(v) => Found(v)'
    BY <2>1 DEF Found, TypeOK
  <2>3. queue' \subseteq queue /\ running' \subseteq running
    BY <2>1 DEF Finish
  <2>4. Served(w)'
    BY <2>1, <2>2, <2>3, ServedWork
  <2>5. Syncs'
    BY <2>1, <2>3, SyncsKept
  <2> QED
    BY <1>3, <2>1, <2>4, <2>5
<1>15. CASE SyncNothing(r)
  BY <1>4, <1>15 DEF SyncNothing, docVars
<1>16. CASE SyncFinish(r)
  <2> DEFINE m == Msg("indexed", w)
  <2>1. /\ r.kind = "sync" /\ r.step = "begun" /\ r.gen > 0 /\ r.id = w
        /\ Finish(r, {m}) /\ m.kind = "indexed" /\ m.id = w
        /\ UNCHANGED <<status, latest, active, chunks, gen>>
    BY <1>1, <1>16 DEF SyncFinish, Index, Msg, docVars
  <2>2. ~Trailing(r)
    BY <2>1 DEF Trailing, Chained, Dispatches
  <2>3. r.gen = gen[w] /\ chunks[w] # "none" /\ meta[w] # "deleted"
    BY <2>1 DEF Syncs
  <2>4. points' = [points EXCEPT ![w] = gen[w]] /\ meta' = [meta EXCEPT ![w] = "COMPLETED"]
    BY <1>16, <2>1, <2>3 DEF SyncFinish, Index, SetMeta, TypeOK
  <2>5. points'[w] = gen[w] /\ meta'[w] = "COMPLETED" /\ Found(w)'
    BY <2>1, <2>3, <2>4 DEF TypeOK, Found
  <2>6. ASSUME NEW v \in active
        PROVE  (Found(v) => Found(v)') /\ (meta[v] # "deleted" => meta'[v] # "deleted")
    <3>1. CASE v = w
      BY <2>5, <3>1
    <3>2. CASE v # w
      <4>1. points'[v] = points[v] /\ meta'[v] = meta[v]
        BY <2>4, <3>2 DEF TypeOK
      <4> QED
        BY <2>1, <4>1 DEF Found
    <3> QED
      BY <3>1, <3>2
  <2> HIDE DEF m
  <2>7. Served(w)'
    BY <2>1, <2>2, <2>6, ServedWork
  <2>8. /\ queue' = {m} /\ running' \subseteq running
        /\ \A s \in running' : s.kind # "sync"
    BY <2>1, <2>2, TokenSole DEF Finish
  <2>9. Sole' /\ NoArchiving'
    BY <2>1, <2>2, <2>8, FinishSole DEF NoArchiving
  <2>10. Found(m.id)' /\ meta'[m.id] # "deleted"
    BY <2>1, <2>5
  <2>11. Syncs'
    BY <2>1, <2>8, <2>10 DEF Syncs
  <2> QED
    BY <2>7, <2>9, <2>11
<1>17. CASE SyncConflict(r)
  <2>1. /\ r.kind = "sync" /\ r.step = "conflict" /\ r.id = w /\ Finish(r, {})
        /\ UNCHANGED idxVars /\ RecordFailure(nver, 0)
    BY <1>1, <1>17 DEF SyncConflict
  <2>2. meta[w] = "deleted"
    BY <2>1 DEF Syncs
  <2>3. active' = active \ {Current}
    BY <2>1 DEF RecordFailure, StillActive, Current
  <2>4. active' \cap {w, Current} = {}
    BY <2>2, <2>3 DEF Served
  <2>5. Served(w)'
    BY <2>1, <2>4, ServedFailure
  <2>6. Syncs'
    BY <2>1, <2>3, SyncsStill DEF Finish
  <2> QED
    BY <1>3, <2>1, <2>5, <2>6
<1>18. CASE Cleanup(r)
  <2>1. /\ r.kind = "cleanup" /\ r.id = w /\ Finish(r, {})
        /\ UNCHANGED <<status, latest, active, chunks, gen>>
    BY <1>1, <1>18 DEF Cleanup, docVars
  <2>2. meta'[w] = meta[w] /\ points'[w] = points[w]
    <3>1. w \notin Obsolete(w)
      BY DEF Obsolete
    <3>2. PICK refused \in SUBSET Obsolete(w) :
            /\ meta' = [u \in Versions |->
                          CASE u \in refused -> "CLEANUP_PENDING"
                            [] u \in Obsolete(w) \ refused -> "deleted"
                            [] OTHER -> meta[u]]
            /\ points' = [u \in Versions |->
                            IF u \in Obsolete(w) \ refused THEN 0 ELSE points[u]]
      BY <1>18, <2>1 DEF Cleanup
    <3> QED
      BY <3>1, <3>2
  <2>3. active \subseteq {w}
    BY <2>1 DEF Syncs
  <2>4. \A v \in active : (Found(v) => Found(v)') /\ meta'[v] = meta[v]
    BY <2>1, <2>2, <2>3 DEF Found
  <2>5. queue' \subseteq queue /\ running' \subseteq running
    BY <2>1 DEF Finish
  <2>6. Served(w)'
    BY <2>1, <2>4, <2>5, ServedWork
  <2>7. Syncs'
    BY <2>1, <2>2, <2>5, SyncsKept
  <2> QED
    BY <1>3, <2>1, <2>6, <2>7
<1>19. ~RestoreSync(r) /\ ~RestoreFinish(r)
  BY <1>1 DEF RestoreSync, RestoreFinish
<1> QED
  BY <1>7, <1>8, <1>9, <1>10, <1>11, <1>12, <1>13, <1>14, <1>15, <1>16, <1>17, <1>18, <1>19
     DEF DoWork

LEMMA FailStands ==
    ASSUME "fail" \notin Faults, "redeliver" \notin Faults,
           TypeOK, Keeps, NEW w \in Versions, Thread(w), Stands(w),
           NEW r \in running, FailWork(r)
    PROVE  Stands(w)'
<1> USE DEF Stands
<1>1. r.kind \notin {"purge", "restore"} /\ (r.kind # "ingest" => r.id = w)
  BY DEF NoArchiving, Thread, Concerns
<1>2. ASSUME Finish(r, {}), Served(w)', Syncs' PROVE Stands(w)'
  <2>1. queue' \subseteq queue /\ running' \subseteq running
    BY <1>2 DEF Finish
  <2> QED
    BY <1>2, <2>1, FewerSole DEF NoArchiving
<1>3. ~IngestFail(r) /\ ~StageFail(r) /\ ~Redeliver(r)
  BY DEF IngestFail, StageFail, Redeliver, Inject
<1>4. ~RestoreFail(r)
  BY <1>1 DEF RestoreFail
<1>5. CASE ListenerFail(r)
  <2>1. RecordFailure(nver, r.ver) /\ Finish(r, {}) /\ UNCHANGED idxVars
    BY <1>5 DEF ListenerFail
  <2>2. r.ver = w /\ w # 0 /\ (Current \in active => Current = w)
    BY MaxVersionAssumption DEF Thread, Versions
  <2>3. active' = active \ {w}
    BY <2>1, <2>2 DEF RecordFailure, StillActive
  <2>4. active' \cap {w, Current} = {}
    BY <2>2, <2>3
  <2>5. Served(w)'
    BY <2>1, <2>4, ServedFailure
  <2>6. Syncs'
    BY <2>1, <2>3, SyncsStill DEF Finish
  <2> QED
    BY <1>2, <2>1, <2>5, <2>6
<1>6. ASSUME PartialUpsert(r), Indexing(r), queue' = {} \/ (\E m : queue' = {m} /\ m.kind = "sync"),
             UNCHANGED <<status, latest, active, chunks, gen>>,
             \A v \in Versions : meta'[v] = "deleted" => meta[v] = "deleted",
             running' = running \ {r}
      PROVE  Served(w)' /\ Syncs'
  <2>1. r.kind = "sync" /\ r.step = "begun" /\ r.gen > 0 /\ r.id = w
    BY <1>1, <1>6 DEF Indexing
  <2>2. ~Trailing(r) /\ r.gen = gen[w]
    BY <1>6, <2>1 DEF Trailing, Chained, Dispatches, Syncs
  <2>3. \A v \in Versions : points'[v] = points[v] \/ (v = w /\ points'[v] = gen[v])
    BY <1>6, <2>1, <2>2 DEF PartialUpsert, TypeOK
  <2>4. active \subseteq Versions
    BY DEF TypeOK
  <2>5. \A v \in active : (Found(v) => Found(v)') /\ (meta[v] # "deleted" => meta'[v] # "deleted")
    BY <1>6, <2>3, <2>4 DEF Found
  <2>6. Served(w)'
    BY <1>6, <2>2, <2>5, ServedWork
  <2>7. \A s \in running' : s.kind # "sync" /\ s \in running
    BY <1>6, <2>2, TokenSole
  <2>8. \A m \in queue' : m.kind # "indexed"
    BY <1>6
  <2>9. Syncs'
    BY <1>6, <2>7, <2>8, SyncsNone
  <2> QED
    BY <2>6, <2>9
<1>7. CASE Lose(r)
  <2>1. /\ Finish(r, {}) /\ PartialUpsert(r)
        /\ UNCHANGED <<status, latest, active, chunks, gen, meta>>
    BY <1>7 DEF Lose, docVars
  <2>2. queue' = queue /\ running' = running \ {r}
    BY <2>1 DEF Finish
  <2>3. CASE Indexing(r)
    <3>1. ~Trailing(r)
      BY <2>3 DEF Indexing, Trailing, Chained, Dispatches
    <3>2. queue' = {}
      BY <2>2, <3>1, TokenSole
    <3>3. Served(w)' /\ Syncs'
      BY <1>6, <2>1, <2>2, <2>3, <3>2
    <3> QED
      BY <1>2, <2>1, <3>3
  <2>4. CASE ~Indexing(r)
    <3>1. UNCHANGED idxVars
      BY <2>1, <2>4 DEF PartialUpsert, idxVars
    <3>2. Served(w)'
      BY <2>1, <2>2, <3>1, ServedStill
    <3>3. Syncs'
      BY <2>1, <2>2, <3>1, SyncsStill
    <3> QED
      BY <1>2, <2>1, <3>2, <3>3
  <2> QED
    BY <2>3, <2>4
<1>8. CASE IngestRetry(r)
  <2> DEFINE m == Msg("ingest", r.id)
  <2>1. /\ r.kind = "ingest" /\ Finish(r, {m})
        /\ UNCHANGED <<status, latest, active, idxVars>>
    BY <1>8 DEF IngestRetry, docVars
  <2>2. m.kind = "ingest" /\ ~Trailing(r)
    BY <2>1 DEF Msg, Trailing, Chained, Dispatches
  <2> HIDE DEF m
  <2>3. Served(w)'
    BY <2>1, <2>2, ServedStill
  <2>4. queue' = {m} /\ running' = running \ {r}
    BY <2>1, <2>2, TokenSole DEF Finish
  <2>5. Syncs'
    BY <2>1, <2>2, <2>4, SyncsStill
  <2>6. Sole' /\ NoArchiving'
    BY <2>1, <2>2, <2>4, FinishSole DEF NoArchiving
  <2> QED
    BY <2>3, <2>5, <2>6
<1>9. CASE StageRetry(r)
  <2> DEFINE m == Msg(r.kind, r.id)
  <2>1. /\ r.kind \in {"chunk", "embed", "sync"} /\ r.step = "begun" /\ Finish(r, {m})
        /\ FailedIndex(r) /\ UNCHANGED <<status, latest, active>>
    BY <1>9 DEF StageRetry, docVars
  <2>2. m.kind = r.kind /\ ~Trailing(r)
    BY <2>1 DEF Msg, Trailing, Chained, Dispatches
  <2> HIDE DEF m
  <2>3. queue' = {m} /\ running' = running \ {r}
    BY <2>1, <2>2, TokenSole DEF Finish
  <2>4. Sole' /\ NoArchiving'
    BY <2>1, <2>2, <2>3, FinishSole DEF NoArchiving
  <2>5. CASE Indexing(r)
    <3>1. \A v \in Versions : meta'[v] = "deleted" => meta[v] = "deleted"
      BY <2>1, <2>5 DEF FailedIndex, SetMeta, TypeOK
    <3>2. m.kind = "sync"
      BY <1>1, <2>2, <2>5 DEF Indexing
    <3>3. Served(w)' /\ Syncs'
      BY <1>6, <2>1, <2>3, <2>5, <3>1, <3>2 DEF FailedIndex
    <3> QED
      BY <2>4, <3>3
  <2>6. CASE ~Indexing(r)
    <3>1. UNCHANGED idxVars
      BY <2>1, <2>6 DEF FailedIndex, PartialUpsert, idxVars
    <3>2. Served(w)'
      BY <2>1, <2>2, <3>1, ServedStill
    <3>3. Syncs'
      BY <2>1, <2>2, <2>3, <3>1, SyncsStill
    <3> QED
      BY <2>4, <3>2, <3>3
  <2> QED
    BY <2>5, <2>6
<1> QED
  BY <1>3, <1>4, <1>5, <1>7, <1>8, <1>9 DEF FailWork

LEMMA LoseEventStands ==
    ASSUME TypeOK, Keeps, NEW w \in Versions, Thread(w), Stands(w),
           NEW m \in queue, LoseEvent(m)
    PROVE  Stands(w)'
<1>1. queue' = queue \ {m} /\ UNCHANGED <<status, latest, active, idxVars, running>>
  BY DEF LoseEvent, docVars
<1>2. Served(w)'
  BY <1>1, ServedStill DEF Stands
<1>3. Sole' /\ NoArchiving' /\ Syncs'
  BY <1>1, FewerSole, SyncsStill DEF Stands, NoArchiving
<1> QED
  BY <1>2, <1>3 DEF Stands

\* The watchdog may leave the thread old for the latest version.
LEMMA WatchdogStands ==
    ASSUME TypeOK, Known, Serial, Keeps, "backlog" \notin Faults, Watchdog,
           NEW old \in Versions, Stands(old), NEW w \in {old, latest}, w \in Versions
    PROVE  Stands(w)'
<1> USE DEF Stands
<1>1. /\ queue = {} /\ status \in DOMAIN StuckStage
      /\ \A r \in running : r.kind = "upload"
      /\ UNCHANGED <<idxVars, running>>
  BY DEF Watchdog, WatchdogRedispatch, WatchdogFail, Stale
<1>2. running = {}
  BY <1>1 DEF StuckStage, Serial, Uploading
<1>3. status \notin {"READY", "FAILED"}
  BY <1>1 DEF StuckStage
<1>4. Current' = Current
  BY CurrentKept
<1>5. CASE WatchdogRedispatch
  <2>1. queue' = {WatchdogTarget} /\ UNCHANGED <<status, latest, active>>
    BY <1>1, <1>5 DEF WatchdogRedispatch, docVars
  <2>2. WatchdogTarget.kind \in {"chunk", "embed", "sync"}
    BY <1>1 DEF WatchdogTarget, Msg, StuckStage
  <2>3. Sole' /\ NoArchiving' /\ Syncs'
    BY <1>1, <1>2, <2>1, <2>2, FirstSole DEF NoArchiving, Syncs
  <2>4. ASSUME NEW v \in active
        PROVE  /\ Found(v)' \/ (v = w /\ status' # "READY")
               /\ meta'[v] # "deleted" \/ (v = Current /\ status' # "READY")
    BY <1>1, <1>3, <2>1 DEF Served, Found, idxVars
  <2>5. Served(w)'
    BY <1>3, <1>4, <2>1, <2>4 DEF Served
  <2> QED
    BY <2>3, <2>5
<1>6. CASE WatchdogFail
  <2>1. latest # 0
    BY MaxVersionAssumption DEF TypeOK, Versions
  <2>2. active' = {} /\ status' = "FAILED" /\ queue' = {}
    BY <1>1, <1>6, <2>1 DEF WatchdogFail, RecordFailure, StillActive, Served
  <2>3. Served(w)'
    BY <2>2 DEF Served
  <2>4. Sole' /\ NoArchiving' /\ Syncs'
    BY <1>1, <1>2, <2>2 DEF Sole, NoArchiving, Syncs
  <2> QED
    BY <2>3, <2>4
<1> QED
  BY <1>5, <1>6 DEF Watchdog

\* Users who find the document settled leave its active version as it is, or give
\* it to the next thread.
LEMMA UserStands ==
    ASSUME ~Overlap, "rollback" \notin Ops, "restore" \notin Ops, IInv, Serial,
           NEW old \in Versions, Stands(old), UserStep,
           status # "ARCHIVED", status' # "ARCHIVED",
           NEW w \in Versions, Thread(w)'
    PROVE  Stands(w)'
<1> USE DEF Stands, IInv
<1>1. ASSUME status \in {"READY", "FAILED"}, NEW v \in active
      PROVE  Found(v) /\ meta[v] # "deleted" /\ status = "READY"
  BY <1>1 DEF Served
<1>2. CASE UploadBegin
  <2> DEFINE u == Begun("upload", latest, latest, WillWrite("UPLOADED"))
  <2>1. /\ queue = {} /\ running = {} /\ status \in {"READY", "FAILED"}
        /\ running' = {u} /\ u.kind = "upload" /\ queue' = {}
        /\ UNCHANGED <<status, latest, active, nver, job, idxVars>>
    BY <1>2 DEF UploadBegin, Creatable, Call, Settled, Begun, docVars, jobVars
  <2> HIDE DEF u
  <2>2. Sole' /\ NoArchiving' /\ Syncs'
    BY <2>1 DEF Sole, Trailing, NoArchiving, Syncs
  <2>3. \A v \in active : Found(v)' /\ meta'[v] # "deleted"
    BY <1>1, <2>1 DEF Found, idxVars
  <2>4. Served(w)'
    BY <2>1, <2>3 DEF Served, Trailing
  <2> QED
    BY <2>2, <2>4
<1>3. ASSUME NEW r \in running, UploadNewVersion(r) PROVE Stands(w)'
  <2>1. /\ queue = {} /\ running' = {} /\ status \in {"READY", "FAILED"}
        /\ status' \in {status, "UPLOADED"}
    BY <1>3 DEF UploadNewVersion, Write, Serial, Uploading
  <2>2. UNCHANGED <<latest, active, idxVars>> /\ CreateVersion
    BY <1>3 DEF UploadNewVersion, CreateVersion
  <2>3. /\ queue' = {Msg("ingest", nver')} /\ nver' = nver + 1 /\ nver' \in Versions
        /\ job'[nver'].ver = nver'
    BY <2>1, <2>2, CreateVersionType
  <2>4. PICK m : m = Msg("ingest", nver')
    OBVIOUS
  <2>5. m.kind = "ingest" /\ m.id = nver' /\ queue' = {m}
    BY <2>3, <2>4 DEF Msg
  <2>6. w = nver'
    BY <2>3, <2>5 DEF Thread, Concerns
  <2>7. w \notin active
    <3>1. nver \in Int /\ latest \in Int /\ latest <= nver
      BY MaxVersionAssumption DEF TypeOK, Known, Versions
    <3> QED
      BY <2>3, <2>6, <3>1 DEF Served
  <2>8. Sole' /\ NoArchiving' /\ Syncs'
    BY <2>1, <2>5, FirstSole DEF NoArchiving, Syncs
  <2>9. \A v \in active : Found(v)' /\ meta'[v] # "deleted" /\ status = "READY"
    BY <1>1, <2>1, <2>2 DEF Found, idxVars
  <2>10. Served(w)'
    BY <2>1, <2>2, <2>7, <2>9 DEF Served
  <2> QED
    BY <2>8, <2>10
<1>4. CASE RetryDocument
  <2>1. /\ queue = {} /\ running = {} /\ status = "FAILED" /\ RestartLatest
        /\ UNCHANGED idxVars
    BY <1>4 DEF RetryDocument, Call, Settled
  <2>2. /\ queue' = {Msg("ingest", nver)} /\ running' = {} /\ status' = "UPLOADED"
        /\ UNCHANGED <<latest, active>>
    BY <2>1 DEF RestartLatest
  <2>3. active = {}
    BY <2>1 DEF Served
  <2>4. Sole' /\ NoArchiving' /\ Syncs'
    <3>1. PICK m : m = Msg("ingest", nver)
      OBVIOUS
    <3>2. m.kind = "ingest" /\ queue' = {m}
      BY <2>2, <3>1 DEF Msg
    <3> QED
      BY <2>2, <3>2, FirstSole DEF NoArchiving, Syncs
  <2>5. Served(w)'
    BY <2>2, <2>3 DEF Served
  <2> QED
    BY <2>4, <2>5
<1>5. CASE ReingestDocument
  <2>1. queue = {} /\ running = {} /\ RestartLatest
    BY <1>5 DEF ReingestDocument, Call, Settled
  <2>2. /\ queue' = {Msg("ingest", nver)} /\ running' = {} /\ status' = "UPLOADED"
        /\ UNCHANGED <<latest, active, nver>>
    BY <2>1 DEF RestartLatest
  <2>3. Current' = latest
    BY <2>1, <2>2, RestartLatestType DEF Current, TypeOK
  <2>4. \A v \in active : v = latest /\ v = Current' /\ v = w
    BY <2>2, <2>3 DEF Served, Thread
  <2>5. Sole' /\ NoArchiving' /\ Syncs'
    <3>1. PICK m : m = Msg("ingest", nver)
      OBVIOUS
    <3>2. m.kind = "ingest" /\ queue' = {m}
      BY <2>2, <3>1 DEF Msg
    <3> QED
      BY <2>2, <3>2, FirstSole DEF NoArchiving, Syncs
  <2>6. Served(w)'
    BY <2>2, <2>4 DEF Served
  <2> QED
    BY <2>5, <2>6
<1>6. ~RollbackToVersion /\ ~RestoreDocument /\ ~ArchiveDocument
  BY DEF RollbackToVersion, RestoreDocument, ArchiveDocument, Call
<1> QED
  BY <1>2, <1>3, <1>4, <1>5, <1>6 DEF UserStep

LEMMA InitSteady == Init => Steady
<1> SUFFICES ASSUME Init PROVE Steady
  OBVIOUS
<1>1. 1 \in Versions
  BY MaxVersionAssumption DEF Versions
<1>2. PICK w \in Versions : Thread(w)
  BY InitSerial DEF Serial
<1>3. /\ running = {} /\ latest = 1 /\ active = {1} /\ status = "UPLOADED" /\ meta[1] = "none"
      /\ queue = {Msg("ingest", 1)}
  BY <1>1 DEF Init
<1>4. Current = 1 /\ w = 1
  <2>1. Current = 1
    BY <1>1 DEF Init, NewJob, Current
  <2> QED
    BY <1>2, <1>3, <2>1 DEF Thread
<1>5. Served(w)
  BY <1>3, <1>4 DEF Served
<1>6. Sole /\ NoArchiving /\ Syncs
  BY <1>3 DEF Sole, NoArchiving, Syncs, Msg
<1> QED
  BY <1>2, <1>5, <1>6 DEF Steady, Stands

LEMMA StepSteady ==
    ASSUME ~Overlap, {"fail", "redeliver", "backlog"} \cap Faults = {},
           {"rollback", "restore"} \cap Ops = {},
           IInv, Serial, Hidden, Steady, [Next]_vars, Serial'
    PROVE  Steady'
<1> USE DEF IInv
<1>1. CASE Next /\ status = "ARCHIVED"
  <2>1. ~RestoreDocument
    BY DEF RestoreDocument, Call
  <2> QED
    BY <1>1, <2>1, ArchivedStep DEF Steady
<1>2. CASE status' = "ARCHIVED"
  BY <1>2 DEF Steady
<1>3. CASE Next /\ status # "ARCHIVED" /\ status' # "ARCHIVED"
  <2>1. PICK old \in Versions : Thread(old) /\ Stands(old)
    BY <1>3 DEF Steady
  <2>2. ASSUME NEW w \in Versions, Thread(w)', Stands(w)' PROVE Steady'
    BY <2>2 DEF Steady
  <2>3. CASE UserStep
    <3>1. PICK w \in Versions : Thread(w)'
      BY DEF Serial
    <3>2. Stands(w)'
      BY <1>3, <2>1, <2>3, <3>1, UserStands
    <3> QED
      BY <2>2, <3>1, <3>2
  <2>4. ASSUME NEW m \in queue, BeginWork(m) PROVE Steady'
    <3>1. Keeps /\ WorkStep(old)
      BY <2>1, <2>4, BeginKeeps, BeginWorkStep
    <3> QED
      BY <2>1, <2>2, <2>4, <3>1, WorkSerial, BeginStands
  <2>5. ASSUME NEW m \in queue, LoseEvent(m) PROVE Steady'
    <3>1. Keeps /\ WorkStep(old)
      BY <2>1, <2>5, LoseEventKeeps, LoseEventStep
    <3> QED
      BY <2>1, <2>2, <2>5, <3>1, WorkSerial, LoseEventStands
  <2>6. ASSUME NEW r \in running, DoWork(r) PROVE Steady'
    <3>1. Keeps /\ WorkStep(old)
      BY <2>1, <2>6, DoKeeps, DoWorkStep
    <3> QED
      BY <2>1, <2>2, <2>6, <3>1, WorkSerial, DoStands
  <2>7. ASSUME NEW r \in running, FailWork(r) PROVE Steady'
    <3>1. Keeps /\ WorkStep(old)
      BY <2>1, <2>7, FailKeeps, FailWorkStep
    <3> QED
      BY <2>1, <2>2, <2>7, <3>1, WorkSerial, FailStands
  <2>8. CASE Watchdog
    <3>1. Keeps /\ "backlog" \notin Faults
      BY <2>8, WatchdogKeeps
    <3>2. PICK w \in {old, latest} : w \in Versions /\ Thread(w) /\ WorkStep(w)
      BY <2>1, <2>8, <3>1, WatchdogStep
    <3>3. Thread(w)' /\ Stands(w)'
      BY <2>1, <2>8, <3>1, <3>2, WorkSerial, WatchdogStands
    <3> QED
      BY <2>2, <3>2, <3>3
  <2> QED
    BY <1>3, <2>3, <2>4, <2>5, <2>6, <2>7, <2>8 DEF Next
<1>4. CASE UNCHANGED vars
  <2>1. UNCHANGED <<status, latest, active, nver, job, lastEmb, chunks, gen, points, meta,
                    queue, running>>
    BY <1>4 DEF vars, docVars, jobVars, idxVars
  <2> QED
    BY <2>1 DEF Steady, Stands, Served, Sole, NoArchiving, Syncs, Found, Thread, Concerns,
         Current
<1> QED
  BY <1>1, <1>2, <1>3, <1>4

LEMMA SteadyServes == IInv /\ Steady => ReadyIsServable
BY DEF IInv, Steady, Stands, Served, Found, ReadyIsServable, Servable

\* A READY document has an active version that retrieval finds, through uploads
\* of new versions, retries, re-ingestions and archivings, errors that are retried,
\* refused dispatches, killed tasks, lost events and refused purges, in any number.  What it takes is
\* that users wait for the document to settle; that no ingestion or stage fails
\* for good (a fatal ingestion leaves the active flag of a version that holds
\* nothing, the other stages charge their failure to the newest job); that no
\* task is delivered twice and no backlog passes for a stuck stage, whose second
\* chunking replaces the chunks under the index; and that there is no rollback,
\* which moves latest_version_id at once, and no restoration, which declares READY
\* a document that had failed.
THEOREM ReadyServes ==
    ASSUME ~Overlap, {"fail", "redeliver", "backlog"} \cap Faults = {},
           {"rollback", "restore"} \cap Ops = {}
    PROVE  Spec => []ReadyIsServable
<1>1. Init => Hidden /\ Serial /\ Steady
  BY InitSerial, InitSteady DEF Init, Hidden
<1>2. IInv /\ Hidden /\ Serial /\ Steady /\ [Next]_vars => (Hidden /\ Serial /\ Steady)'
  BY HiddenKept, StepSerial, StepSteady
<1>3. IInv /\ Steady => ReadyIsServable
  BY SteadyServes
<1> QED
  BY <1>1, <1>2, <1>3, Invariance, PTL DEF Spec
================================================================================
