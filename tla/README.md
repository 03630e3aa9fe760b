# Veritas-RAG: a TLA+ model of its concurrent core

TLA+ modules, TLC configurations and TLAPS proofs for the parts of the Veritas-RAG
backend (`src/backend`) in which several processes meet over shared state: how a document
and its versions travel from an upload to the vector index, how jobs reach the broker, the
Redis lock of the workers, the circuit breakers in front of the language models, who may
enter a workspace, the sessions and passwords of an account, and how a question is streamed,
replayed and charged. `PROJECT.json` maps every definition to the lines it models; this
file is the guide.

## 1. Inventory

| Component | State it keeps | Operations | Interacts with | What is hard | Correct when |
|---|---|---|---|---|---|
| Document lifecycle (`document/services/document_service.py`) | `documents` (status, `latest_version_id`), `document_versions` (`is_active_vector`), `processing_jobs` | upload, new version, rollback, retry, re-ingest, archive, restore, refresh URL, delete | commits, then `JobDispatcher`; deletes points through the vector service | calls while versions are in flight; a read-to-write window around the file scan | versions never regress, an archived document stays hidden, a version is served once indexed |
| Ingestion worker (`document/workers/ingestion.py`) | job status and retry count, document status | one commit per stage; retry, fatal failure | publishes `DOCUMENT_PROCESSED` | no lock; two deliveries of one job; one `has_active_version` for the whole run | never hides a version that is served |
| Listeners and dispatcher (`tasks/listeners.py`, `core/events/dispatcher.py`) | nothing but a session | four handlers that chain chunk, embed, sync and promotion | run inside the worker that publishes | exceptions are logged and dropped; stale session reads; order of completions | a stage finished starts the next one; no version is overtaken |
| Chunking, embedding, vector sync (`modules/chunking`, `modules/embedding`, `modules/vector`) | chunk and embedding rows, `vector_index_metadata`, Qdrant points | the stage tasks, clean-up of other versions | Redis lock per version, events, Qdrant | event before commit; partial upserts; re-chunking changes ids; soft-deleted unique keys | the points of the active version match its chunk rows |
| Failure synchroniser and watchdog (`document/services/failure_service.py`, `document/workers/watchdog_worker.py`) | status, job, active flags | record a failure; sweep stuck documents | called by workers and listeners; Celery beat | which version failed; work that is only late | failures stay local; nothing stays in between |
| Archive and restore jobs (`document/workers/archive.py`) | Qdrant points, status | purge, re-sync | queued by the service | two queued jobs of opposite intent | a restored document is found again |
| Job dispatch, sweeper (`document/services/job_dispatcher.py`, `processing_job_service.py`) | `dispatch_state`, `status`, `retry_count` | create, dispatch, acknowledge, requeue, operator retry | broker, Redis cron lock | crash between two commits; refusal; a sweep racing a worker | no pending job is lost |
| Redis lock (`cache/locks.py`) | one key per name | acquire (poll), release (compare and delete) | every stage worker and REST operation | lost answers, expired leases, dead holders | a body inside its lease is alone |
| Circuit breakers and canaries (`modules/reliability`), failover (`ai/manager.py`) | state, counter, probe counter, cooldown and canary in separate Redis keys | check, record success and failure, half-open, trip, reset; the walk over the priority list | provider calls and searches of all processes | read-then-write on several keys; a canary whose owner died; a stream that fails half way | one probe at a time; a threshold reached trips; a text comes from one provider |
| Membership, ownership, join codes, invitations, workspace life (`services/workspace`) | `workspace_members`, settings JSON, invitations, access requests, `workspaces.status` | change role, suspend, remove; join by code, openly, by request, by invitation; archive, suspend, delete, restore, purge | REST, workers | counts checked without a lock, rows checked and then written, a purge of two commits with deletions elsewhere between them | the last owner stays; owners answer to owners; an invitation is used once; a purge that is not cut short ends |
| Sessions and passwords (`services/auth`, `services/user_lifecycle.py`) | `user_sessions`, `password_recovery_otps`, the user's row and its reset token | login, rotation, reuse detection, logout, change and reset of the password by link or code, deactivation | REST | overlapping transactions under READ COMMITTED | what was signed out stays out, and has no late successor; tokens and codes are spent |
| Quota accounting (`modules/analytics`) | usage records, durable counters, cached counters | check, record, reconcile | every model call | check-then-spend, stale caches, two commits of one recording, the turn of the month | nobody is billed beyond the records; a reconciliation repairs |
| Chat orchestration (`modules/chat`) | a stream, its replay list in Redis, messages, `query_analytics` | stream, buffer, replay, save, charge | governor, failover, Redis, database | a client that leaves at any await; reused correlation ids | a replay is one whole answer; what is delivered is charged, once |
| Folders (`services/folder_service.py`, `tasks/folders.py`) | folder tree, depth, soft deletion | delete, restore, move, cascades | Celery, Redis lock | | not modelled, section 7 |
| Retry state machine (`modules/retry`) | one state per request, in memory | transitions | chat | | not modelled, section 7 |
| Retrieval, feature flags, webhooks, e-mails, retention jobs, dashboards, scoring, frontend | | | | I/O, CRUD or pure computation | not modelled, section 7 |

Of documents: REST call -> commit -> Celery `ingest` -> event `processed` -> listener
-> Celery `chunk` -> `chunked` -> `embed` -> `embedded` -> `sync` -> `indexed` -> promotion
and clean-up. Any stage may fail through the synchroniser; the watchdog re-enters at
`chunk`, `embed` or `sync`; the job sweeper re-enters at `ingest`.
Of questions: REST call -> quota governor -> retrieval (breaker of the index) -> stream over
the providers (breaker and canary of each) -> replay list and client -> message, analytics
row, usage record and counters; a reconciliation compares records with counters.

## 2. Modules

| Module | What it is |
|---|---|
| `VersionPipeline` | one document, its versions, jobs, stage tasks, events, failures, watchdog, archive jobs and index |
| `VersionedServing` | the abstract promise to readers: one live version, promoted, never older |
| `JobDispatch` | how jobs reach the broker: REST call, dispatcher, worker acknowledgement, sweeper, operator retry |
| `RedisLock` | `acquire_lock`: fresh token, NX, lease, compare-and-delete |
| `ProviderFailover` | breakers as Redis keys, one step per command; generation and streaming over the priority list, guarded searches, operator resets |
| `WorkspaceAccess` | one workspace: members, four ways in, invitations, and its life up to the purge |
| `AccountSessions` | one account: sessions, tokens, codes, as overlapping transactions under row locks |
| `TokenLedger` | the monthly budget: check through a cache, record, reconcile |
| `ChatStream` | extends `TokenLedger`: a stream, its replay list, its ends, the message and the charge |
| `VersionPipelineProofs`, `JobDispatchProofs`, `RedisLockProofs`, `ProviderFailoverProofs`, `AccountSessionsProofs`, `WorkspaceAccessProofs`, `TokenLedgerProofs`, `ChatStreamProofs` | TLAPS, section 5 |
| `MC...` | the same modules with a symmetry, for TLC |

Definitions introduced by "Bug seeded for ..." are variants of the definition after
them. No specification uses them: each property is tried against one of these plausible
bugs, to see that it would be noticed.

### How `VersionPipeline` reads the code

* A Celery message or event is a member of `queue`; work begun is a member of `running`
  and carries what its session has read (`writes`, `gen`, `step`). Sessions are made with
  `expire_on_commit=False`, so a status read at the beginning is never refreshed: whether
  a later assignment reaches the database is decided at the beginning (`WillWrite`).
* One document is enough: no transaction of the pipeline reads another document.
  Version n is created together with job n; `job[j].ver` may later be pointed at another
  version by a retry (`RestartLatest`).
* `chunks`, `gen` and `points` say which generation of chunk ids (a fresh uuid4 at each
  chunking) the rows have and which one Qdrant holds. Retrieval resolves a point through
  its chunk row, hence `Servable`.
* `meta` is the `VectorIndexMetadata` row. `deleted` is the soft-deleted row that the
  lookup no longer finds and that still occupies the unique key.
* `publish()` awaits its listeners: a worker that has published goes on when its listener
  is done (`Awaited`). Chunk and sync publish as the last thing they do. Embedding publishes
  before the worker's own commit; recording the usage of a batch has committed its rows
  already, so that only a batch that was cached or deduplicated or that cost nothing is
  still uncommitted when its event is handled.
* Small liberties no property depends on: `RecordFailure` is one step for the several statements
  the failure synchroniser awaits (`failure_service.py:116-198`), and a `Listener` that dies after its
  EmbeddingJob was committed leaves `lastEmb` as it was (`listeners.py:181-204`).
* Identical messages or activities collapse: the set of messages cannot tell two copies of
  one task from one. A redelivered task is told apart from the running one.
* `EXTRACTING` stands also for `FETCHING`, `OCR` and `MANIFEST_GENERATING`, which write the
  document's status under the same guard and which nothing tells apart.
* `upload_new_version` has its read-to-write window (`UploadBegin`, `UploadNewVersion`);
  the other operations are one step, under the document's lock, whose lease is taken to be
  long enough (its expiry is the subject of `RedisLock`).
* Chunk and sync locks are modelled as released with the last write, embedding's with its
  commit.

### How `JobDispatch` reads the code

* Messages and runs are counted per job, so that duplicates count. `api` is the place of
  the REST call between its two commits. `VALIDATING` stands for every ingestion stage.
* The sweeper is one pass at a time: it holds `cron_lock:requeue_stale_jobs` for up to
  120 s, and a pass is taken to be shorter. In the code two passes may still overlap: on a Redis
  error the sweep goes on without the lock (`processing_job_service.py:265-266`), and it gives the lock
  back just before its commit (`:320-324`). The pass writes what it knows from its reading
  (`queued`, `failed` remember which columns are unchanged and therefore not written).
* `claim_job`, `start_step`, `complete_step`, `record_step_error` and the DLQ have no caller;
  no job is ever `CLAIMED` or `PROCESSING`, and the sweeper's first loop finds nothing.
* Nobody's job is more than 24 hours old. The watchdog and the failure synchroniser, which
  write job columns too, are in `VersionPipeline` and not here.

### How `RedisLock` reads the code

One name; every attempt has its own token. `Acquire` is the `SET NX EX` that succeeds,
`AcquireUnanswered` the one whose answer is lost, `GiveUp` the deadline or a Redis
error, `Release` the Lua script, `ReleaseLost` a dead worker or an unreachable Redis,
`Expire` the time to live. `lapsed` records attempts whose lease ended before they did.

### How `ProviderFailover` reads the code

* Every Redis command is a step and `pc` names the next one, so that any other request may
  act between the read of a state and the write that follows it. A pipeline of deletions is
  one step (`CountersGone`). The legacy keys mirror the primary ones and are left out.
* Counters are saturated at their thresholds, which is all the code compares them with.
* `cut` marks a target where a fault struck between the commands of one trip or reset;
  `lapsed` marks a request whose canary lock expired or was wiped under it.
* `Cancel` is a client that leaves: `CancelledError` passes every `except Exception`, so a
  canary stays until it expires (`Orphan`). `RedisFails` follows the fail-open and
  fail-closed branches of each function.

### How `WorkspaceAccess` reads the code

* A call is one transaction: `Begin...` makes the unlocked reads, `Lock` takes the target's
  row and checks under it, `Commit...` writes. What was read and is used later is kept in
  the call (`role`, `code`, `state`). `moved` records that owners came or went since.
* A purge commits PURGING (`CommitLift`), deletes objects, vectors and keys elsewhere (`Clean`) and
  then the row (`Drop`). `Clean` may delete nothing: its failures are counted and passed over. After
  `GONE`, inserts fail on their foreign keys and updates find no row.
* Any call may fail or die before its commit (`Abort`). A purge that does so after its first commit
  leaves PURGING behind and nobody comes back to it, as the retention worker swallows the exception
  and selects DELETING workspaces only; the ghost `cut` remembers that it happened.

### How `AccountSessions` reads the code

* PostgreSQL at READ COMMITTED: an UPDATE finds the committed rows (`Find`), waits for those
  that are locked and keeps what still matches (`Update`); rows inserted meanwhile are not
  found. Inserting a session takes FOR KEY SHARE on the user's row and waits for FOR UPDATE.
* `out` and `spent` record what finished sign-outs were to end and which tokens have been
  used. `StaysOut` is about the sessions that were there; what a rotation may put in their place is
  `NoLateHeir`: no successor after the sign-out. During it the code lets one in, section 6. Expiry times of tokens and codes are not modelled: they only shorten what is shown.

### How `TokenLedger` and `ChatStream` read the code

* What a set of records comes to (`Total`) is the number of tokens they were charged for: a pair
  of a record and one of its tokens, for each of them, counted. A counter of 0 is an absent row; in the code a row that was overwritten with 0 is still
  there, and is overwritten instead of inserted, to the same number. `record_token_usage` commits twice (`Insert`, `ChargeUser`);
  the reconciliation reads, compares and writes in separate steps, and commits a user's
  change only along with the workspace's or with an inserted row, as the code does.
* Records and counters are of a month, that of the record's `created_at`; the cached number is not
  (`quota.py:49`, `:85`): the model remembers of which month it is (`of`), the check does not ask.
  `MonthTurns` assumes that a month outlasts the minute a key lives and the moment between a read
  of a counter and its use, so that what crosses a turn is of the month just over.
* The end of a stream is told apart as the code tells it: `Cancel` (CancelledError),
  `Close` (GeneratorExit, unnoticed), `Fail`, the last chunk. `Crash` stands for a lost
  process, the five-second limit and a cancellation that strikes again in the clean-up.
* Each user and the workspace have a hard limit, of the same size.

## 3. Runs

| Run | Question | Bounds, and why they are enough |
|---|---|---|
| `Concurrent` | one active version, versions never back, and the promise of `VersionedServing`, in any interleaving of two versions | 2 versions (an ordering needs two), one upload, rollback or retry while the first version is in flight, one fault out of a lost task or event, a broker refusal and a watchdog that gives up on work that is only late; a stage sent twice and the other faults are left to the theorems |
| `OneAtATime` | READY is servable, and a document does not stay in between | two uploads or retries of a settled document and one fault at every step: a retryable or fatal failure, a refusal of the broker or of Qdrant, a task or event lost where the watchdog looks (not an ingestion, nor its or the chunking's event); 144,484 states |
| `Archiving` | only a restore ends an archiving, no vector leaks, failures are local | two out of archive, restore, re-ingestion, retry or a new version of a settled document, one fault at every step: those of `OneAtATime`, a redelivery and the loss of any other task or event, but no sync or restore killed half way; 1,198,848 states |
| `Serving` | and with retries left, the content is served | one version, a chunk or sync task killed, `MaxRetries = 4` |
| `Lock` | ownership, exclusion and the end of orphans | 4 attempts: a holder, an orphan, a waiter and a newcomer |
| `Dispatching` | no pending job is lost and each is processed | 2 jobs (a pass of the sweeper over more than one), one reset, 2 faults out of refusal, crash and failure |
| `Failover` | one probe at a time, every canary given back, a threshold reached trips | 2 requests over and over on one breaker with both thresholds at 2 (a counter that is neither new nor full), one retry, one Redis error or cancelled client between any two commands |
| `Outage` | a stream is never stitched, an open breaker does not stay open | one request over and over, streams over 2 providers and searches; no fault, as a Redis that fails for ever proves nothing of recovery |
| `Membership` | the last owner, the authority of owners, invitations used once, the end of purges that are not cut short | 3 accounts (an actor, a target and the owner between them) in every initial membership, 2 calls overlapping and 3 in all |
| `Sessions` | signed out stays out, and no successor is inserted once the sign-out is over (one inserted while it waits is in section 6); tokens and codes are spent | 2 overlapping transactions and 4 in all, 3 session rows, 2 tokens, 1 code of each channel and 1 guess |
| `Chat` | replays against streams, charges against deliveries | 2 requests, one or two correlation ids, answers of 3 chunks (a first, a middle and a last one to be missing) |
| `Ledger` | records against counters, refusals against records, repair | `TokenLedger` by itself: 2 requests, costs 1 and 2 with a limit of 3, 2 reconciliations (one that loses an increment and one that repairs), 2 turns of the month (a key of the old month, then one of the new) |

The bounds by name: `MaxVersion`, `MaxOps`, `MaxFaults`, `MaxRetries`, `MaxResets` (`JobDispatch`),
`MaxCalls`, `MaxUses` (`WorkspaceAccess`), `MaxCalls`, `MaxRows`, `MaxTokens`, `MaxCodes`,
`MaxAttempts` (`AccountSessions`), `MaxAudits`, `MaxTurns` (`TokenLedger`), `Chunks` (`ChatStream`). `FailureThreshold`,
`RecoveryThreshold`, `MaxUses`, `MaxAttempts` and the retry limits are also limits of the code.
`Ops`, `Faults`, `Losable` and `Kinds` choose which calls and faults occur, `Overlap` whether users
may act before the document has settled. Requests of `ProviderFailover` are reused without
end, so that only faults are bounded there.

Deadlock is checked in `Failover` and `Outage`, where requests come for ever. Elsewhere the
calls of users are bounded and a system that nobody calls is at rest; each of those cfgs says so.
A symmetry is used only for safety properties.

The single fault of `OneAtATime` is a restriction where it is a fatal failure: with two, `ReadyIsServable`
is broken (section 6). For the other faults it is none, `ReadyServes` has no bound.

`Overlap = FALSE` in `OneAtATime` and `Archiving`; no `ingest`, `processed` or `chunked` in `Losable` in
`OneAtATime`, for the sake of `Settles` (for `ReadyIsServable` see `ReadyServes`, which allows them); one
version and no lost embedding in `Serving`: the code does not keep these properties under more. What
lies outside is in section 6 and is not claimed to hold.

## 4. Fairness

`VersionPipeline!Fairness` is weak fairness of consuming the queue, of the running work
as a whole, and of the watchdog. Celery prefetches and consumes as long as a worker lives;
a task that begins either goes on or is killed by its time limit (a fault); Celery beat
runs `sweep_stale_pipeline_documents` every 300 s. Users, failures and losses owe
nothing. Fairness of the union is enough, since nothing in `running` keeps coming back:
retries and faults are bounded. `JobDispatch!FairSpec` adds the progress of a REST call that did not die,
of the clock (`GrowStale`) and of the sweeper. `RedisLock!FairSpec` asks only that Redis
expires keys.

`ProviderFailover!FairSpec` asks that each request which is not cancelled takes its next step
(provider calls and Redis commands have timeouts) and that cooldown and canary keys expire.
Nobody owes a request: `Recovers` promises something only while requests keep coming. The
counter's expiry is not asked for, since a counter may have lost it.

## 5. Proofs

All theorems hold for every value of the constants under the named assumptions of the
modules: `MaxVersion` a positive natural number, the budgets natural numbers, `Overlap` a
Boolean, `Nobody` and `Orphan` no attempts or requests, the recovery threshold positive and the
failure threshold above one (the code has 5; with one, the failure that starts the counter
would also trip, a path `Count` does not have), `MaxAttempts`, `MaxUses` and `Chunks` positive.
Nothing is assumed of `Ops`, `Faults`, `Losable`, `Kinds`, `Jobs`, `Attempts` or `Calls`; in
particular they cover overlapping calls and every fault together. The exception are the four
theorems of `VersionPipeline` listed below with their hypotheses: they are about properties the
code keeps only then, and each hypothesis is there because TLC has a run against the theorem
without it.

* `VersionPipelineProofs`. `IInv == TypeOK /\ Known /\ SingleActiveVersion`. Types alone are not
  inductive: a message is for version `m.id` and a new version gets the number `nver + 1`,
  so that "never older" needs that nothing in flight speaks of a version that has not been
  created, which is `Known`. `latest` then only grows (`Stage` of a rollback is above every
  existing version, `Promote` is guarded), and the active version is at most `latest`.
  `ServingStep` shows that every step maps to `Stage`, `GoLive`, `Withdraw` or a stutter;
  from it follow `OneActiveVersion`, `NeverRegress` and `Refinement` (`Spec => ServesVersions`).
  The other four ask that users wait for the document to settle (`~Overlap`); everything else
  holds for any number of versions, calls, retries and faults.

  | Theorem | Also asks | Invariant |
  |---|---|---|
  | `ArchivedStays` | nothing | `Hidden`: an archived document has nothing under way but the purge |
  | `FailuresAreLocal` | no watchdog that takes late work for lost (`backlog`) | `Serial`: all messages and activities are about one version, a `Thread`, which is the newest job's if that one is active |
  | `PointsTracked` | that, and no sync or restore killed between Qdrant and its commit | `Tracked`: a sync about to write points has a metadata row |
  | `ReadyServes` | no failure for good (errors that are retried may come, in any number), no redelivery or backlog; no rollback and no restoration | `Steady`: the thread, the one stage it is in (`Sole`), what a sync may rely on (`Syncs`), and which versions are findable (`Served`) |

  The thread is what makes an unnamed failure harmless: it is charged to the newest job
  (`failure_service.py:111`), which is then the job that failed or one that has no flag to lose.
  `ReadyIsServable` is far from inductive: the active version may be unfindable for a while, as long as
  it is the one being worked on, its metadata row may be soft-deleted as long as the conflict of the next
  sync is charged to it, and a version that is active and READY has only trailing work left, such
  as a listener that is to return or a clean-up that spares it.
  What breaks `ReadyServes` without its hypotheses: a fatal ingestion leaves the active flag of a version
  with nothing in the index; a stage's failure is charged to the newest job while a re-ingested older version
  is worked on; a second chunking, by a redelivery or the watchdog, replaces the chunks under
  the points; a rollback moves `latest_version_id` at once; a restoration declares READY what had failed.
* `RedisLockProofs`. Ownership needs in addition that a token in the key belongs to an attempt
  whose lease has not lapsed (`KeyIsLive`): otherwise a lapsed holder's key might be taken
  for a fresh one. `Exclusion` follows because one key has one owner.
* `JobDispatchProofs`. `PendingIsNeverLost` alone is not inductive: a REST call about to record
  "sent" must have a message still at the broker or a job no longer pending (`Sent`), and a
  job not created yet is undispatched (`Untouched`); the same holds of the jobs a pass of the
  sweeper has sent.
* `ProviderFailoverProofs`. `IInv == TypeOK /\ Requesting /\ CanaryInv /\ FailuresTrip`. That one probe
  runs at a time follows from who holds the lock, so the invariant says that a probe whose
  lock has not lapsed holds it (`Alone`), that a lock names a request with a token at that
  target (`NoLeak`), and of each request where it may not have a token (`Good`), for otherwise
  a way out would leak. Text is from the provider the request is at, which with the guards of
  `Leave` gives `NoStitching`. `FailuresTrip` is carried target by target (`TripAt`): the request
  that makes a counter full becomes the witness, and only a trip, a clear, or a marked fault
  takes the witness away.
* `AccountSessionsProofs`. `IInv == TypeOK /\ CallsInv /\ Outs /\ Fresh /\ Guesses`. What a sign-out
  ends is known only when its last UPDATE has finished, so the invariant follows it from one to
  the next (`Seen`): which live rows its finished UPDATEs have locked, and that no row is new
  (`base = Len(rows)`) while it holds the user's row. Row locks exclude each other (`Locks`), so a
  rotation that is under way when its session is to be ended has ended, and put in its successor, before the
  sign-out does: `NoLateHeir` and
  `TotalUnderLock`. A token that can still be used has not been (`Fresh`).
* `WorkspaceAccessProofs`. `IInv == TypeOK /\ Knowing /\ Accepting /\ Purging`. `Knowing` says what a
  call may still rely on as long as the owners are those it began with: its target is no owner if it
  lets somebody in, and if it takes an owner's place there was another owner when it counted and it
  had the right to. `SomeoneDeposes` then finds, for every owner who goes, the call that was told
  to. `Accepting` is the exclusion by the lock of the invitation, `Purging` that a cleaned workspace
  has somebody about to drop it, unless a purge was `cut`.
* `ChatStreamProofs`. `IInv == Typed /\ Charging /\ Order /\ Kept`, in which the sums of the ledger
  are opaque. `Order` says that before a chunk in
  a replay list come the earlier chunks of the same answer, for which a stream that still buffers
  must have pushed all it has received (`Kept`): then a list whose indices run from 0 to the last
  is one answer. `Charging` ties the UNIQUE index (`asked`) to the requests being charged, of which
  no two share a correlation id (`Distinct`), and to the records (`Receipts`, `Accounted`).
* `TokenLedgerProofs`: what the steps of a request do to the sums, for `ChatStreamProofs`, which has the
  theorems (`CountersFollowRecords`, `RefusalsAreDue`, `ReconciliationsRepair`). As a sum is a
  cardinality, the facts it takes are those of finite sets (`OneMoreRecord`, `FewerRecords`), and no
  induction. `Books` strengthens `Billed`: a request that has entered its record has exactly one
  (`Entered`, `Posts`), each of a month, so that the tokens of a recording cut between its two commits are those on no
  user's counter; a cached number was once the counter's of its month, hence never above the records of that
  month (`Sound`); and what a
  reconciliation has summed, or is about to write, is behind the records as they are now (`Behind`).
  `Billed` alone says nothing of the cache and of the reconciliation, and is not kept by their steps.

Only model-checked: liveness (`Settles`, `NewestServed`, `OrphansVanish`, `EventuallyProcessed`,
`Recovers`), which the prover does not reach; and `ReadyIsServable` through one fatal failure, which is
outside `ReadyServes`. No module uses RECURSIVE operators.

## 6. Known limits of the code

Met while modelling. The configurations stay outside of them, or the properties say no more
than what holds beside them.

Documents
* The clean-up after a promotion, "for older versions" (`vector_service.py:390`), removes every
  other version (`:406`), also a newer one that has been indexed in between.
* A late completion of an older version makes the clean-up keep `latest_version_id`, which a
  rollback may have staged: the active version's points are purged (`listeners.py:356`).
* A stage's failure is charged to the version of the newest job, because the workers name no
  version (`failure_service.py:111`); with versions in flight it is not local.
* A fatal ingestion fails the document and keeps the active flag of its version (`ingestion.py:585`); a
  later failure finds that flag and, to preserve what it takes for a served version, makes the document
  READY with nothing in the index (`ingestion.py:590`, `failure_service.py:109`).
* A listener that began before the document was READY overwrites READY with its own status
  (`listeners.py:259`).
* A lost ingestion, or an event lost at a status the sweep does not look for, is never found
  (`watchdog_worker.py:64`).
* A version in flight makes an archived document READY (`listeners.py:338`).
* A batch still uncommitted when its event is handled makes the sync find nothing; a document
  that is READY on an older version is not looked at again (`embedding_service.py:454`).
* The listener of an embedding returns for a document in VECTOR_SYNC, also when another version put it
  there: the sync of its own version is never sent (`listeners.py:246`).
* `upload_new_version` writes the status on the strength of a reading from before the scan
  (`document_service.py:850`): a document archived meanwhile leaves the archive.
* Re-ingestion soft-deletes the metadata row; the next sync neither finds it nor can create
  another (`vector_repository.py:43`), and the pipeline ends in FAILED.
* The purge of an archiving does not look at the status (`archive.py:30`): started after the
  restoration it empties the index of a READY document. A restoration that indexed nothing is
  READY as well (`:71`).
* `reconcile_superseded_vectors_task` deletes points and never commits the rows it changed
  (`modules/vector/workers/tasks.py:157`); `refresh_url` takes no lock and does not look at ARCHIVED
  (`document_service.py:386`).

Jobs and locks
* The jobs API answers "Job successfully queued for retry" (`document/api/v1/jobs.py:136`); its reset
  is never committed and its task never sent.
* `acquire_lock` leaves an orphan key when the answer of SET is lost, until it expires; and
  a body that outlives its lease runs beside the next holder (`locks.py:54-76`).
* The sweeper writes QUEUED over whatever a worker wrote while it swept
  (`processing_job_service.py:306`): a finished job may be run again.

Workspaces
* A join code may be used more often than its limit: overlapping joins pass the check together
  and one use is counted (`join_code_service.py:468`).
* Two owners who leave, or demote each other, at once may leave no owner: the count is not under a
  lock of both rows (`membership_service.py:166`). `OwnerRemains` says it takes such an overlap.
* The actor's role is read without a lock (`membership_service.py:147`): who is demoted in between still
  acts as what he was. `OwnersAnswerToOwners` judges by the role that was read.
* A purge that dies or fails after its first commit leaves a PURGING workspace, perhaps emptied, that
  no worker selects again (`management_service.py:618`, `retention_worker.py:44`, `:70`); a restoration
  that was under way makes it ACTIVE. Only a forced purge ends it.
* Deletions outside the database that fail are passed over (`management_service.py:634-663`): the
  workspace is gone and its objects or vectors may stay.

Accounts
* The docstring of `logout` says "AUTH-012: Logout always revokes all active UserSession records for the
  user, preventing refresh token replay after logout" (`auth_service.py:100`). It does not: a rotation has
  locked session 1 and not yet committed; the logout's UPDATE takes its snapshot and waits for that row;
  the rotation commits session 2 and the end of session 1; the UPDATE finds nothing left to do at
  session 1 and has never seen session 2, which is live after the logout. The model has these steps (its
  invariant is not "no live session has a parent in `out`"), and the same is true of every sign-out that
  does not lock the user's row.
* A login that has read an active user and inserts its session just after the commit of a deactivation
  has a live session (`user_lifecycle.py:105`); `TotalUnderLock` speaks of the commit.
* A reset by link reads its token without a lock (`password_reset_service.py:296`): having read it before a
  reset by code it uses the same token once more. `SingleUse` is about the flows with a lock.
* Security codes are compared without a lock (`password_reset_service.py:799`): guesses in parallel are
  counted as one. `GuessesBounded` is about recovery codes.

Circuit breakers
* The failure counter is incremented and given its expiry by two commands, and a trip sets the state
  before its cooldown (`engine.py:203-239`): a fault in between leaves a counter that never expires or an
  OPEN breaker that the next request finds without a cooldown. `FailuresTrip` exempts such a target (`cut`).

Quota and chat
* Every request admitted within the minute before the cached counter expires may spend its
  whole cost (`quota.py:202`). The cached number does not say of which month it is (`quota.py:49`,
  `:85`): for up to a minute after the turn of the month that of the old month refuses requests the new
  one has room for, or the reverse. A recovered request passes the governor again.
* A reconciliation loses the increments made between its sum and its write, never commits a drift
  of users only, and charges twice a user whose first row appears meanwhile.
* `record_usage`, `enforce_hierarchical_quota` and `reconcile_usage` have no caller outside the tests.
* Two direct requests under one correlation id are both charged, and the next lookup of it raises
  `MultipleResultsFound`.
* A client that leaves while a chunk is sent gets a message saved that is not marked partial; one
  that leaves after the last chunk gets the whole answer marked PARTIAL.
* The clean-up runs under the same cancelled scope; a second cancellation there may leave a departed
  client uncharged. `/generate/stream` charges nothing when its client leaves early.
* With a reused correlation id whose list has expired meanwhile, two streams may share a list;
  `Replayable` rejects what is not one sequence. `Forget` assumes less than 300 s between two chunks:
  the providers' timeouts are 10 s to the first and 15 s between tokens
  (`ai/providers/v1_engine/client.py:202-211`), a reader that stalls is not modelled.

## 7. Not modelled

* `delete_document`, `refresh_url`, website sources; the reconciliation of superseded vectors;
  Redis pub/sub, notifications and audit rows; budgets and providers of embeddings; the storage
  webhook's path to `enqueue_job`; priorities and rate limits of the queues.
* Folders. Their cascade names `WorkspaceStatus.HARD_DELETED`, which does not exist, so that every
  attempt raises AttributeError and is retried: only the root of a tree is ever deleted or
  restored, and there is no cascade to state a property of. (Its tasks are sent before the commit,
  its lock is never released within its 300 s, and the purge asks for `purge_status IS NULL`, which a
  soft delete never leaves.)
* The retry state machine: a pure transition table, and its caller keeps no state between requests.
* Of workspaces: settings, branding, slugs, rate limits of invitations, the re-hashing of old join
  codes. Of accounts: access tokens and their blocklist, registration, OIDC handshakes, expiry times.
* Of chat: retrieval, prompts, scoring, heartbeats (behind a flag; their timeout cancels the
  generator). Of quotas: soft limits, prices. Of providers: their clients and the rate limiter.
* Ranking, scoring, validation and evaluation are pure computations over a response; feature flags,
  dashboards and webhooks are CRUD or I/O; the frontend and deployment hold none of this state.
  Together they are most of the lines of the repository.

## 8. Plan

1. Proofs: what a fatal failure costs at most, in place of excluding it from `ReadyServes`; what of
   `FailureIsLocal` is left when users do not wait.
2. `VersionPipeline`: `delete_document` and `refresh_url`.
3. Composition: `JobDispatch` as the environment of `VersionPipeline`'s `ingest` messages, and
   `ProviderFailover` as the source of `ChatStream`'s chunks.
4. The access-token blocklist beside `AccountSessions`; folders, once their cascade runs.

## 9. Running

    tlc -config Concurrent.cfg VersionPipeline.tla
    tlc -config Failover.cfg MCProviderFailover.tla
    tlapm ProviderFailoverProofs.tla

The module of each run is in `PROJECT.json`. `Concurrent` and `Membership` take about two
minutes, `Sessions`, `Archiving`, `Dispatching` and `Ledger` about one, the others less; `AccountSessionsProofs` takes
about a minute and a half, `VersionPipelineProofs` as long, `ProviderFailoverProofs` and `WorkspaceAccessProofs` about one.
