---------------------------- MODULE VersionPipeline ----------------------------
(***************************************************************************)
(* The life of ONE document and its versions in the ingestion pipeline:    *)
(* the REST operations of DocumentService, the Celery stage tasks (ingest, *)
(* chunk, embed, sync), the event listeners that chain them, the failure   *)
(* synchroniser, the pipeline watchdog and the vector index.               *)
(*                                                                         *)
(* A stage task or listener is a queued message, then a running activity   *)
(* that holds what its database session read when it began (the session    *)
(* factory sets expire_on_commit=False, so those values are never          *)
(* refreshed), then its writes.  Everything else may happen in between.    *)
(***************************************************************************)
EXTENDS Integers, FiniteSets

CONSTANTS
    MaxVersion,   \* bound: versions one document may get
    MaxRetries,   \* ProcessingJob.max_retries
    Ops,          \* the REST operations users call
    MaxOps,       \* bound: number of such calls, new versions included
    Faults,       \* the faults the environment injects
    MaxFaults,    \* bound: number of faults
    Losable,      \* the kinds of work a "lose" fault may strike
    Overlap       \* may users act while the document is still being worked on?

ASSUME MaxVersionAssumption == MaxVersion \in Nat \ {0}
ASSUME BudgetAssumption == MaxRetries \in Nat /\ MaxOps \in Nat /\ MaxFaults \in Nat
ASSUME OverlapAssumption == Overlap \in BOOLEAN

Versions == 1 .. MaxVersion

\* EXTRACTING also stands for OCR and MANIFEST_GENERATING: the same guarded
\* write of doc.status, which nothing in the pipeline tells from EXTRACTING.
IngestSteps == {"VALIDATING", "EXTRACTING"}
Status == IngestSteps \cup
          {"UPLOADED", "PROCESSED", "CHUNKING", "CHUNKED", "EMBEDDING",
           "VECTOR_SYNC", "READY", "FAILED", "ARCHIVED"}
JobStatus == {"NONE", "PENDING", "VALIDATING", "EXTRACTING", "RETRYING",
              "QUEUED", "COMPLETED", "FAILED"}
MetaStatus == {"none", "COMPLETED", "FAILED", "CLEANUP_PENDING", "deleted"}

Tasks  == {"ingest", "chunk", "embed", "sync", "purge", "restore"}
Events == {"processed", "chunked", "embedded", "indexed"}
Kinds  == Tasks \cup Events \cup {"cleanup", "upload"}

\* "ingest" names a job, every other kind a version.
Message == [kind : Kinds, id : Versions]
\* writes: will it assign doc.status?  gen: chunk generation whose embeddings it
\* read or has committed, 0 if none.
Activity == [kind : Kinds, id : Versions, ver : Versions, writes : BOOLEAN, gen : Nat,
             step : IngestSteps \cup {"begun", "conflict", "dispatched", "published"}]

VARIABLES
    status,    \* Document.status
    latest,    \* version number behind Document.latest_version_id
    active,    \* versions whose is_active_vector is TRUE
    nver,      \* versions created; the n-th creation also created job n
    job,       \* ProcessingJob rows; the newest is job nver
    lastEmb,   \* version of the newest EmbeddingJob, 0 if there is none
    chunks,    \* per version: no chunk rows, rows, or rows with embeddings
    gen,       \* per version: generation of its chunk ids (uuid4 per chunking)
    points,    \* per version: chunk generation of its Qdrant points, 0 if none
    meta,      \* per version: its VectorIndexMetadata row
    queue,     \* work sent and not yet begun
    running,   \* work begun and not yet finished
    ops,       \* REST calls left
    faults     \* faults left

docVars == <<status, latest, active>>
jobVars == <<nver, job, lastEmb>>
idxVars == <<chunks, gen, points, meta>>
vars == <<docVars, jobVars, idxVars, queue, running, ops, faults>>

Msg(k, i) == [kind |-> k, id |-> i]

\* Assigning doc.status has no effect on a document whose session-cached status
\* is READY (the guard at every assignment) or already the value assigned (the
\* ORM emits no UPDATE).  Which it is, is decided when the work begins.
WillWrite(new) == status \notin {"READY", new}
Write(r, new) == IF r.writes THEN new ELSE status

\* Work k on i, for version v, as it begins.
Begun(k, i, v, writes) ==
    [kind |-> k, id |-> i, ver |-> v, writes |-> writes, gen |-> 0, step |-> "begun"]

\* Deleting chunk rows waits for an embedding transaction that has inserted
\* against them.
ChunksLocked(v) ==
    \E r \in running : r.kind = "embed" /\ r.id = v /\ r.step = "published" /\ r.gen = 0

InProgress(k, v) == \E r \in running : r.kind = k /\ r.id = v
Pending(k, v) == Msg(k, v) \in queue \/ InProgress(k, v)

\* A listener that a running task still awaits.
Awaited(r) == /\ r.step = "published"
              /\ Pending(IF r.kind = "embed" THEN "embedded" ELSE "indexed", r.id)

Take(m, r) == m \in queue /\ queue' = queue \ {m} /\ running' = running \cup {r}
Finish(r, ms) == running' = running \ {r} /\ queue' = queue \cup ms
Advance(r, new, ms) ==
    running' = (running \ {r}) \cup {new} /\ queue' = queue \cup ms

Inject(f) == f \in Faults /\ faults > 0 /\ faults' = faults - 1

--------------------------------------------------------------------------------
(* REST operations of DocumentService, each under the Redis lock of the    *)
(* document.  An upload of a new version holds it while the file is        *)
(* scanned and stored, between its reads and its writes.                   *)

\* Nothing in flight, nothing left for the watchdog.
Settled == queue = {} /\ running = {} /\ status \in {"READY", "FAILED", "ARCHIVED"}

Call(op) ==
    /\ op \in Ops /\ ops > 0 /\ ops' = ops - 1 /\ (Overlap \/ Settled)
    /\ \A r \in running : r.kind # "upload"

NewJob(v) == [ver |-> v, status |-> "PENDING", retries |-> 0]

Init ==
    /\ status = "UPLOADED" /\ latest = 1 /\ active = {1}
    /\ nver = 1 /\ lastEmb = 0
    /\ job = [j \in Versions |->
                IF j = 1 THEN NewJob(1) ELSE [NewJob(j) EXCEPT !.status = "NONE"]]
    /\ chunks = [v \in Versions |-> "none"] /\ gen = [v \in Versions |-> 0]
    /\ points = [v \in Versions |-> 0] /\ meta = [v \in Versions |-> "none"]
    /\ queue = {Msg("ingest", 1)} /\ running = {}
    /\ ops = MaxOps /\ faults = MaxFaults

Retried(j, st) == [ver |-> job[j].ver, status |-> st, retries |-> job[j].retries + 1]

\* Bug seeded for ArchivedStaysHidden: no look at the archived status.
CreatableAlways == nver < MaxVersion

Creatable == nver < MaxVersion /\ status # "ARCHIVED"

\* The next version, its job, and the dispatch of its ingestion.
CreateVersion ==
    /\ nver < MaxVersion
    /\ nver' = nver + 1
    /\ job' = [job EXCEPT ![nver + 1] = NewJob(nver + 1)]
    /\ queue' = queue \cup {Msg("ingest", nver + 1)}
    /\ UNCHANGED <<active, lastEmb, idxVars, faults>>

UploadBegin ==
    /\ Call("version")
    /\ Creatable
    /\ running' = running \cup {Begun("upload", latest, latest, WillWrite("UPLOADED"))}
    /\ UNCHANGED <<docVars, jobVars, idxVars, queue, faults>>

\* Bug seeded for ReadyIsServable: the upload is staged as latest at once, as a
\* rollback is.
UploadStaged(r) ==
    /\ r.kind = "upload"
    /\ CreateVersion
    /\ running' = running \ {r}
    /\ status' = Write(r, "UPLOADED") /\ latest' = nver + 1
    /\ UNCHANGED ops

UploadNewVersion(r) ==
    /\ r.kind = "upload"
    /\ CreateVersion
    /\ running' = running \ {r}
    /\ status' = Write(r, "UPLOADED") /\ UNCHANGED latest
    /\ UNCHANGED ops

\* Bug seeded for TypeOK: the version number is bumped twice.
RollbackPastNewest ==
    /\ Call("rollback")
    /\ Creatable /\ CreateVersion /\ UNCHANGED running
    /\ latest' = nver' + 1
    /\ status' = "UPLOADED"

\* The clone of the target version is staged as latest at once.
RollbackToVersion ==
    /\ Call("rollback")
    /\ Creatable /\ CreateVersion /\ UNCHANGED running
    /\ latest' = nver + 1
    /\ status' = "UPLOADED"

\* The newest job is pointed at the latest version and dispatched again.
RestartLatest ==
    /\ job' = [job EXCEPT ![nver] = NewJob(latest)]
    /\ queue' = queue \cup {Msg("ingest", nver)}
    /\ status' = "UPLOADED"
    /\ UNCHANGED <<latest, active, nver, lastEmb, running>>

RetryDocument ==
    /\ Call("retry")
    /\ status = "FAILED"
    /\ RestartLatest
    /\ UNCHANGED <<idxVars, faults>>

\* delete_document_points empties the index and soft-deletes every live metadata
\* row, or raises at Qdrant before it has touched a row and is forgiven.
ReingestDocument ==
    /\ Call("reingest")
    /\ status # "ARCHIVED"
    /\ \A v \in Versions : ~ChunksLocked(v)
    /\ RestartLatest
    /\ chunks' = [v \in Versions |-> "none"]
    /\ \/ /\ points' = [v \in Versions |-> 0]
          /\ meta' = [v \in Versions |-> IF meta[v] = "none" THEN "none" ELSE "deleted"]
          /\ UNCHANGED faults
       \/ Inject("qdrant") /\ UNCHANGED <<points, meta>>
    /\ UNCHANGED gen

ArchiveDocument ==
    /\ Call("archive")
    /\ status # "ARCHIVED"
    /\ status' = "ARCHIVED"
    /\ queue' = queue \cup {Msg("purge", latest)}
    /\ UNCHANGED <<latest, active, jobVars, idxVars, running, faults>>

RestoreDocument ==
    /\ Call("restore")
    /\ status = "ARCHIVED"
    /\ status' = "VECTOR_SYNC"
    /\ queue' = queue \cup {Msg("restore", latest)}
    /\ UNCHANGED <<latest, active, jobVars, idxVars, running, faults>>

UserStep ==
    \/ UploadBegin \/ (\E r \in running : UploadNewVersion(r)) \/ RollbackToVersion \/ RetryDocument
    \/ ReingestDocument \/ ArchiveDocument \/ RestoreDocument

--------------------------------------------------------------------------------
(* PipelineFailureSynchronizer.record_pipeline_failure                     *)

\* Bug seeded for FailureIsLocal: the failure deactivates every version.
NoneActive(failing) == {}

StillActive(failing) == active \ {failing}

\* Job j fails; ver is the version the caller names, 0 when it names none and
\* the failure is charged to the version of job j.
RecordFailure(j, ver) ==
    LET failing == IF ver = 0 THEN job[j].ver ELSE ver
        others  == StillActive(failing)
    IN  /\ job' = [job EXCEPT ![j].status = "FAILED"]
        /\ active' = others
        /\ status' = IF others # {} THEN "READY" ELSE "FAILED"
        /\ UNCHANGED <<latest, nver, lastEmb>>

--------------------------------------------------------------------------------
(* process_document_job: one Celery task, a commit per stage.  There is no *)
(* lock on the job or the document.                                        *)

IngestSkip(m) ==
    /\ m.kind = "ingest" /\ m \in queue
    /\ job[m.id].status = "COMPLETED"
    /\ queue' = queue \ {m}
    /\ UNCHANGED <<docVars, jobVars, idxVars, running, ops, faults>>

\* has_active_version is computed once, here, for the whole run.
IngestBegin(m) ==
    LET v == job[m.id].ver
        r == [Begun("ingest", m.id, v,
                    active \subseteq {v} /\ status # "READY")
                EXCEPT !.step = "VALIDATING"]
    IN  /\ m.kind = "ingest" /\ job[m.id].status # "COMPLETED"
        /\ Take(m, r)
        /\ status' = Write(r, "VALIDATING")
        /\ job' = [job EXCEPT ![m.id].status = "VALIDATING"]
        /\ UNCHANGED <<latest, active, nver, lastEmb, idxVars, ops, faults>>

IngestExtract(r) ==
    /\ r.kind = "ingest" /\ r.step = "VALIDATING"
    /\ Advance(r, [r EXCEPT !.step = "EXTRACTING"], {})
    /\ status' = Write(r, "EXTRACTING")
    /\ job' = [job EXCEPT ![r.id].status = "EXTRACTING"]
    /\ UNCHANGED <<latest, active, nver, lastEmb, idxVars, ops, faults>>

IngestFinish(r) ==
    /\ r.kind = "ingest" /\ r.step = "EXTRACTING"
    /\ Finish(r, {Msg("processed", r.ver)})
    /\ status' = Write(r, "PROCESSED")
    /\ job' = [job EXCEPT ![r.id].status = "COMPLETED"]
    /\ UNCHANGED <<latest, active, nver, lastEmb, idxVars, ops, faults>>

IngestRetry(r) ==
    /\ r.kind = "ingest"
    /\ Inject("retry") /\ job[r.id].retries < MaxRetries
    /\ job' = [job EXCEPT ![r.id] = Retried(r.id, "RETRYING")]
    /\ Finish(r, {Msg("ingest", r.id)})
    /\ UNCHANGED <<docVars, nver, lastEmb, idxVars, ops>>

\* A fatal error: the handler re-reads the versions, and leaves active flags.
IngestFail(r) ==
    /\ r.kind = "ingest"
    /\ Inject("fail")
    /\ job' = [job EXCEPT ![r.id].status = "FAILED"]
    /\ status' = IF \E u \in active : u # job[r.id].ver THEN "READY" ELSE "FAILED"
    /\ Finish(r, {})
    /\ UNCHANGED <<latest, active, nver, lastEmb, idxVars, ops>>

--------------------------------------------------------------------------------
(* The listeners of backend/tasks/listeners.py chain the stages.  They run *)
(* in the worker that published the event; an exception is only logged.    *)

\* Task each listener sends, and the status it writes after sending it.
Dispatches == [processed |-> "chunk", chunked |-> "embed", embedded |-> "sync"]
StatusAfter ==
    [processed |-> "CHUNKING", chunked |-> "EMBEDDING", embedded |-> "VECTOR_SYNC"]
Chained == DOMAIN Dispatches

\* Nothing left to embed makes initiate_embedding_job raise, and a document in
\* VECTOR_SYNC makes handle_embedding_completed return.
ListenerIgnores(m) ==
    \/ m.kind = "chunked" /\ chunks[m.id] # "chunked"
    \/ m.kind = "embedded" /\ status = "VECTOR_SYNC"

ListenerBegin(m) ==
    /\ m.kind \in Chained
    /\ Take(m, Begun(m.kind, m.id, m.id, WillWrite(StatusAfter[m.kind])))
    /\ ~ListenerIgnores(m)
    /\ UNCHANGED <<docVars, jobVars, idxVars, ops, faults>>

ListenerIgnore(m) ==
    /\ m.kind \in Chained /\ m \in queue
    /\ ListenerIgnores(m)
    /\ queue' = queue \ {m}
    /\ UNCHANGED <<docVars, jobVars, idxVars, running, ops, faults>>

ListenerDispatch(r) ==
    /\ r.kind \in Chained /\ r.step = "begun"
    /\ Advance(r, [r EXCEPT !.step = "dispatched"], {Msg(Dispatches[r.kind], r.id)})
    /\ lastEmb' = IF r.kind = "chunked" THEN r.id ELSE lastEmb
    /\ UNCHANGED <<docVars, nver, job, idxVars, ops, faults>>

ListenerWrite(r) ==
    /\ r.kind \in Chained /\ r.step = "dispatched"
    /\ Finish(r, {})
    /\ status' = Write(r, StatusAfter[r.kind])
    /\ UNCHANGED <<latest, active, jobVars, idxVars, ops, faults>>

\* The broker refuses the task, or the workspace has spent its token quota.
ListenerFail(r) ==
    /\ r.kind \in Chained /\ r.step = "begun"
    /\ Inject("broker")
    /\ RecordFailure(nver, r.ver)
    /\ Finish(r, {})
    /\ UNCHANGED <<idxVars, ops>>

--------------------------------------------------------------------------------
(* Chunking, embedding and vector synchronisation tasks, each under a      *)
(* Redis lock of its version.                                              *)

StageBegin(m) ==
    /\ m.kind \in {"chunk", "embed"}
    /\ ~InProgress(m.kind, m.id)
    /\ Take(m, Begun(m.kind, m.id, m.id, m.kind = "chunk" /\ WillWrite("CHUNKED")))
    /\ UNCHANGED <<docVars, jobVars, idxVars, ops, faults>>

\* sync_document_vectors reads the embeddings committed by now and gets or
\* creates its metadata row.  A soft-deleted row is not found and still occupies
\* the UNIQUE key of the one to create.
SyncBegun(k, v, writes) ==
    LET found == IF chunks[v] = "embedded" THEN gen[v] ELSE 0
    IN  [kind |-> k, id |-> v, ver |-> v, writes |-> writes, gen |-> found,
         step |-> IF found > 0 /\ meta[v] = "deleted" THEN "conflict" ELSE "begun"]

SyncBegin(m) ==
    /\ m.kind = "sync"
    /\ ~InProgress("sync", m.id)
    /\ Take(m, SyncBegun("sync", m.id, FALSE))
    /\ UNCHANGED <<docVars, jobVars, idxVars, ops, faults>>

\* A duplicate that finds the lock taken retries, and after the last retry is
\* dropped without a trace.
LockRefused(m) ==
    /\ m.kind \in {"chunk", "embed", "sync"} /\ m \in queue
    /\ InProgress(m.kind, m.id)
    /\ queue' = queue \ {m}
    /\ UNCHANGED <<docVars, jobVars, idxVars, running, ops, faults>>

\* Old chunk rows go, their embeddings with them (ON DELETE CASCADE).
ChunkFinish(r) ==
    /\ r.kind = "chunk"
    /\ ~ChunksLocked(r.id)
    /\ gen' = [gen EXCEPT ![r.id] = @ + 1]
    /\ chunks' = [chunks EXCEPT ![r.id] = "chunked"]
    /\ status' = Write(r, "CHUNKED")
    /\ Finish(r, {Msg("chunked", r.id)})
    /\ UNCHANGED <<latest, active, jobVars, points, meta, ops, faults>>

\* Recording the tokens the provider has charged commits the batch with them;
\* vectors found in the cache cost nothing and are left to EmbedCommit.
EmbedRecord(r) ==
    /\ r.kind = "embed" /\ r.step = "begun" /\ chunks[r.id] = "chunked"
    /\ chunks' = [chunks EXCEPT ![r.id] = "embedded"]
    /\ Advance(r, [r EXCEPT !.gen = gen[r.id]], {})
    /\ UNCHANGED <<docVars, jobVars, gen, points, meta, ops, faults>>

\* EMBEDDING_COMPLETED is published before what is left is committed.
EmbedPublish(r) ==
    /\ r.kind = "embed" /\ r.step = "begun"
    /\ Advance(r, [r EXCEPT !.step = "published"], {Msg("embedded", r.id)})
    /\ UNCHANGED <<docVars, jobVars, idxVars, ops, faults>>

\* publish() awaits its listeners, then the worker commits.
EmbedCommit(r) ==
    /\ r.kind = "embed" /\ r.step = "published"
    /\ ~Awaited(r)
    /\ chunks' = [chunks EXCEPT ![r.id] = IF @ = "none" \/ r.gen > 0 THEN @ ELSE "embedded"]
    /\ Finish(r, {})
    /\ UNCHANGED <<docVars, jobVars, gen, points, meta, ops, faults>>

\* No committed embeddings when it looked: the task succeeds without an event.
SyncNothing(r) ==
    /\ r.kind = "sync" /\ r.gen = 0
    /\ Finish(r, {})
    /\ UNCHANGED <<docVars, jobVars, idxVars, ops, faults>>

\* The sync settles its metadata row, unless the row was soft-deleted meanwhile.
SetMeta(r, st) ==
    meta' = [meta EXCEPT ![r.id] = IF @ = "deleted" THEN "deleted" ELSE st]

\* The upsert, the COMPLETED metadata row, the commit and VECTORS_INDEXED.
Index(r) ==
    /\ r.step = "begun" /\ r.gen > 0
    /\ points' = [points EXCEPT ![r.id] = r.gen]
    /\ SetMeta(r, "COMPLETED")

SyncFinish(r) ==
    /\ r.kind = "sync"
    /\ Index(r)
    /\ Finish(r, {Msg("indexed", r.id)})
    /\ UNCHANGED <<docVars, jobVars, chunks, gen, ops, faults>>

\* The conflict raises on every retry until the failure is recorded.
SyncConflict(r) ==
    /\ r.kind = "sync" /\ r.step = "conflict"
    /\ RecordFailure(nver, 0)
    /\ Finish(r, {})
    /\ UNCHANGED <<idxVars, ops, faults>>

Indexing(r) == r.kind \in {"sync", "restore"} /\ r.step = "begun" /\ r.gen > 0

\* Points may have been upserted by a sync that does not complete.
PartialUpsert(r) ==
    \/ UNCHANGED points
    \/ Indexing(r) /\ points' = [points EXCEPT ![r.id] = r.gen]

\* Bug seeded for PointsAreTracked: a sync that raises leaves no metadata row.
FailedIndexUntracked(r) == PartialUpsert(r) /\ UNCHANGED <<meta, chunks, gen>>

\* A sync that raises settles its metadata row too.
FailedIndex(r) ==
    /\ PartialUpsert(r)
    /\ IF Indexing(r) THEN SetMeta(r, "FAILED") ELSE UNCHANGED meta
    /\ UNCHANGED <<chunks, gen>>

StageRetry(r) ==
    /\ r.kind \in {"chunk", "embed", "sync"} /\ r.step = "begun"
    /\ Inject("retry")
    /\ FailedIndex(r)
    /\ Finish(r, {Msg(r.kind, r.id)})
    /\ UNCHANGED <<docVars, jobVars, ops>>

\* None of the three workers tells the synchroniser which version it was on.
StageFail(r) ==
    /\ r.kind \in {"chunk", "embed", "sync"} /\ r.step = "begun"
    /\ Inject("fail")
    /\ RecordFailure(nver, 0)
    /\ FailedIndex(r)
    /\ Finish(r, {})
    /\ UNCHANGED ops

--------------------------------------------------------------------------------
(* handle_vector_sync_completed: promotion under a row lock on the         *)
(* document, committed, then the purge of every other version's points.    *)

\* Bug seeded for VersionsNeverRegress and ServesVersions: no out-of-order check.
SupersedesAny(v) == TRUE

Supersedes(v) == v >= latest

\* Bug seeded for SingleActiveVersion: the other versions keep their flag.
AlsoActive(v) == active \cup {v}

\* set_active_version clears the flag of every other version.
OnlyActive(v) == {v}

Promote(m) ==
    /\ m.kind = "indexed"
    /\ IF Supersedes(m.id)
         THEN active' = OnlyActive(m.id) /\ latest' = m.id /\ status' = "READY"
         ELSE active' = active \ {m.id} /\ UNCHANGED <<latest, status>>
    /\ Take(m, Begun("cleanup", latest', latest', FALSE))
    /\ UNCHANGED <<jobVars, idxVars, ops, faults>>

\* cleanup_old_versions_vectors keeps the version that was latest at promotion.
\* Purging a version Qdrant refuses to purge is left to reconciliation.
Obsolete(keep) == {u \in Versions : u # keep /\ meta[u] \notin {"none", "deleted"}}

Cleanup(r) ==
    /\ r.kind = "cleanup"
    /\ \E refused \in SUBSET Obsolete(r.id) :
         /\ IF refused = {} THEN UNCHANGED faults ELSE Inject("qdrant")
         /\ meta' = [u \in Versions |->
                       CASE u \in refused -> "CLEANUP_PENDING"
                         [] u \in Obsolete(r.id) \ refused -> "deleted"
                         [] OTHER -> meta[u]]
         /\ points' = [u \in Versions |->
                         IF u \in Obsolete(r.id) \ refused THEN 0 ELSE points[u]]
    /\ Finish(r, {})
    /\ UNCHANGED <<docVars, jobVars, chunks, gen, ops>>

--------------------------------------------------------------------------------
(* Archive and restore jobs.  The purge flushes but never commits, so the  *)
(* metadata rows survive it; Qdrant may refuse it to the last retry.       *)

PurgeArchived(m) ==
    /\ m.kind = "purge" /\ m \in queue
    /\ queue' = queue \ {m}
    /\ \/ points' = [v \in Versions |-> 0] /\ UNCHANGED faults
       \/ Inject("qdrant") /\ UNCHANGED points
    /\ UNCHANGED <<docVars, jobVars, chunks, gen, meta, running, ops>>

RestoreBegin(m) ==
    /\ m.kind = "restore"
    /\ Take(m, SyncBegun("restore", m.id, WillWrite("READY")))
    /\ UNCHANGED <<docVars, jobVars, idxVars, ops, faults>>

RestoreSync(r) ==
    /\ r.kind = "restore"
    /\ Index(r)
    /\ Advance(r, [r EXCEPT !.step = "published"], {Msg("indexed", r.id)})
    /\ UNCHANGED <<docVars, jobVars, chunks, gen, ops, faults>>

\* Whether or not there was anything to sync, the document is then READY; only
\* the sync leaves a status cached in the session.
RestoreFinish(r) ==
    /\ r.kind = "restore"
    /\ r.gen = 0 \/ r.step = "published"
    /\ ~Awaited(r)
    /\ status' = IF r.gen = 0 THEN "READY" ELSE Write(r, "READY")
    /\ Finish(r, {})
    /\ UNCHANGED <<latest, active, jobVars, idxVars, ops, faults>>

\* Every attempt raised: the UNIQUE conflict, or Qdrant.
RestoreFail(r) ==
    /\ r.kind = "restore" /\ r.gen > 0 /\ r.step # "published"
    /\ IF r.step = "conflict" THEN UNCHANGED faults ELSE Inject("fail")
    /\ FailedIndex(r)
    /\ status' = "FAILED"
    /\ Finish(r, {})
    /\ UNCHANGED <<latest, active, jobVars, ops>>

--------------------------------------------------------------------------------
(* sweep_stale_pipeline_documents                                          *)

\* Bug seeded for Settles: VECTOR_SYNC is not looked for.
StuckStageNoSync == [CHUNKING |-> "chunk", EMBEDDING |-> "embed"]

StuckStage == [CHUNKING |-> "chunk", EMBEDDING |-> "embed", VECTOR_SYNC |-> "sync"]

\* It works on the latest version, or on that of the newest embedding job.
WatchdogTarget ==
    IF status = "EMBEDDING" /\ lastEmb # 0 THEN Msg("embed", lastEmb)
    ELSE Msg(IF status = "EMBEDDING" THEN "chunk" ELSE StuckStage[status], latest)

\* Fifteen minutes without an update: nothing waits for the document or works
\* on it, unless the queues are that far behind.  The watchdog passes over a
\* document whose stuck task holds its Redis lock.
Stale ==
    /\ status \in DOMAIN StuckStage
    /\ (queue = {} /\ \A r \in running : r.kind = "upload") \/ "backlog" \in Faults
    /\ ~InProgress(WatchdogTarget.kind, WatchdogTarget.id)

\* Bug seeded for NewestServed: the job is requeued and nothing dispatched.
WatchdogForgets ==
    /\ Stale /\ job[nver].retries < MaxRetries
    /\ job' = [job EXCEPT ![nver] = Retried(nver, "QUEUED")]
    /\ UNCHANGED <<docVars, nver, lastEmb, idxVars, queue, running, ops, faults>>

WatchdogRedispatch ==
    /\ Stale /\ job[nver].retries < MaxRetries
    /\ job' = [job EXCEPT ![nver] = Retried(nver, "QUEUED")]
    /\ queue' = queue \cup {WatchdogTarget}
    /\ UNCHANGED <<docVars, nver, lastEmb, idxVars, running, ops, faults>>

WatchdogFail ==
    /\ Stale /\ job[nver].retries >= MaxRetries
    /\ RecordFailure(nver, latest)
    /\ UNCHANGED <<idxVars, queue, running, ops, faults>>

--------------------------------------------------------------------------------
(* Faults of the workers and the broker.                                   *)

\* The hard time limit kills a task whose message is then acknowledged; a
\* listener's exception is logged and dropped.
Lose(r) ==
    /\ r.kind \in Losable /\ Inject("lose")
    /\ ~Awaited(r)
    /\ PartialUpsert(r)
    /\ Finish(r, {})
    /\ UNCHANGED <<docVars, jobVars, chunks, gen, meta, ops>>

LoseEvent(m) ==
    /\ m.kind \in Losable \cap Events /\ m \in queue /\ Inject("lose")
    /\ queue' = queue \ {m}
    /\ UNCHANGED <<docVars, jobVars, idxVars, running, ops>>

\* acks_late: a task still running is delivered a second time.
Redeliver(r) ==
    /\ r.kind \in Tasks /\ Inject("redeliver")
    /\ queue' = queue \cup {Msg(r.kind, r.id)}
    /\ UNCHANGED <<docVars, jobVars, idxVars, running, ops>>

--------------------------------------------------------------------------------
BeginWork(m) ==
    \/ IngestSkip(m) \/ IngestBegin(m)
    \/ ListenerBegin(m) \/ ListenerIgnore(m)
    \/ StageBegin(m) \/ SyncBegin(m) \/ LockRefused(m) \/ Promote(m)
    \/ PurgeArchived(m) \/ RestoreBegin(m)

DoWork(r) ==
    \/ IngestExtract(r) \/ IngestFinish(r)
    \/ ListenerDispatch(r) \/ ListenerWrite(r)
    \/ ChunkFinish(r) \/ EmbedRecord(r) \/ EmbedPublish(r) \/ EmbedCommit(r)
    \/ SyncNothing(r) \/ SyncFinish(r) \/ SyncConflict(r) \/ Cleanup(r)
    \/ RestoreSync(r) \/ RestoreFinish(r)

FailWork(r) ==
    \/ IngestRetry(r) \/ IngestFail(r) \/ ListenerFail(r)
    \/ StageRetry(r) \/ StageFail(r) \/ RestoreFail(r)
    \/ Lose(r) \/ Redeliver(r)

Watchdog == WatchdogRedispatch \/ WatchdogFail

Next ==
    \/ UserStep
    \/ \E m \in queue : BeginWork(m) \/ LoseEvent(m)
    \/ \E r \in running : DoWork(r) \/ FailWork(r)
    \/ Watchdog

Spec == Init /\ [][Next]_vars

\* Workers keep consuming their queues and Celery beat keeps running the
\* watchdog; users and faults owe nothing.
Fairness ==
    /\ WF_vars(\E m \in queue : BeginWork(m))
    /\ WF_vars(\E r \in running : DoWork(r))
    /\ WF_vars(Watchdog)

FairSpec == Spec /\ Fairness

\* Every row and message of the document, its jobs and its versions stays within
\* its domain: version numbers, job and version statuses, task arguments.
TypeOK ==
    /\ status \in Status /\ latest \in Versions /\ active \in SUBSET Versions
    /\ nver \in Versions /\ lastEmb \in 0 .. MaxVersion
    /\ job \in [Versions -> [ver : Versions, status : JobStatus, retries : Nat]]
    /\ chunks \in [Versions -> {"none", "chunked", "embedded"}]
    /\ gen \in [Versions -> Nat] /\ points \in [Versions -> Nat]
    /\ meta \in [Versions -> MetaStatus]
    /\ queue \in SUBSET Message /\ running \in SUBSET Activity
    /\ ops \in Nat /\ faults \in Nat

--------------------------------------------------------------------------------
(* Properties.                                                             *)

\* What retrieval needs to find the content of version v: the document points
\* to it, and its points in the index carry the ids of its present chunk rows.
Servable(v) == latest = v /\ chunks[v] # "none" /\ points[v] = gen[v]

\* Whatever versions are in flight, at most one is flagged is_active_vector, and
\* it is never newer than the version the document points to, whichever of the
\* uploads, rollbacks, failures and late promotions comes last.
SingleActiveVersion == \A v \in active : active = {v} /\ v <= latest

\* Out-of-order completions (the "P0-3F" check of handle_vector_sync_completed):
\* no step moves latest_version_id, or the active flag, to an older version.
VersionsNeverRegress ==
    [][latest' >= latest /\ \A u \in active, v \in active' : u <= v]_vars

\* The pipeline implements what it promises its readers.
Promise == INSTANCE VersionedServing WITH current <- latest, live <- active
ServesVersions == Promise!ServingSpec

\* A READY document has an active version that retrieval really finds, through
\* the indexing, failure, retry and clean-up of its other versions.
ReadyIsServable == status = "READY" => \E v \in active : Servable(v)

\* A failure of the work on one version never deactivates another version.
FailureIsLocal ==
    [][\A r \in running : FailWork(r) => active \ {r.ver} \subseteq active']_vars

\* Every point left in Qdrant has a live metadata row, so that a later clean-up
\* or reconciliation can find it: a failed or partial sync leaks no vectors.
PointsAreTracked ==
    \A v \in Versions : points[v] > 0 => meta[v] \notin {"none", "deleted"}

\* An archived document stays hidden until it is restored.
ArchivedStaysHidden ==
    [][status = "ARCHIVED" => status' = "ARCHIVED" \/ RestoreDocument]_vars

\* Nothing stays in an intermediate state for ever: tasks retry, the failure
\* synchroniser records what cannot be retried, the watchdog finds what is stuck.
Settles == <>[](status \in {"READY", "FAILED"})

\* In the end the newest version is the one that is served.
NewestServed ==
    <>[](status = "READY" /\ active = {nver} /\ Servable(nver))
================================================================================
