------------------------------- MODULE JobDispatch -------------------------------
(***************************************************************************)
(* How processing jobs reach the Celery broker: a REST call commits the    *)
(* job, then JobDispatcher sends its task and records the outcome in a     *)
(* second commit; the ingestion worker acknowledges it; the sweeper        *)
(* (requeue_stale_jobs) sends what was never sent.  Between two commits    *)
(* the process may die, and the broker may refuse the task.                *)
(*                                                                         *)
(* claim_job, start_step and record_step_error have no caller, so that no  *)
(* job is ever CLAIMED, PROCESSING or DLQ and the sweeper's first loop     *)
(* finds nothing.                                                          *)
(***************************************************************************)
EXTENDS Integers

CONSTANTS
    Jobs,         \* processing jobs
    MaxRetries,   \* ProcessingJob.max_retries
    MaxResets,    \* bound: retries and re-ingestions asked by users
    Faults,       \* the faults the environment injects
    MaxFaults     \* bound: number of faults

ASSUME DispatchBounds == MaxRetries \in Nat /\ MaxResets \in Nat /\ MaxFaults \in Nat

VARIABLES
    status,     \* ProcessingJob.status; VALIDATING stands for every ingestion stage
    dispatch,   \* ProcessingJob.dispatch_state
    retries,    \* ProcessingJob.retry_count
    stale,      \* jobs created more than pending_threshold_minutes ago
    queue,      \* per job: task messages the broker holds
    running,    \* per job: worker runs in progress
    api,        \* per job: where the REST call that dispatches it is
    sweep,      \* the pass of the sweeper: its list, what it has sent and what
                \* was refused; which rows it read as QUEUED, as FAILED_DISPATCH
    cron,       \* is the key cron_lock:requeue_stale_jobs set?
    answered,   \* jobs an operator was told are queued for retry
    resets, faults

jobVars == <<status, dispatch, retries, stale>>
vars == <<jobVars, queue, running, api, sweep, cron, answered, resets, faults>>

Unsent == {"PENDING_DISPATCH", "FAILED_DISPATCH"}
Ended == {"COMPLETED", "FAILED"}

Pass == [on : BOOLEAN, todo : SUBSET Jobs, sent : SUBSET Jobs,
         refused : SUBSET Jobs, queued : SUBSET Jobs, failed : SUBSET Jobs]
Idle == [on |-> FALSE, todo |-> {}, sent |-> {}, refused |-> {},
         queued |-> {}, failed |-> {}]

Init ==
    /\ status = [j \in Jobs |-> "NONE"]
    /\ dispatch = [j \in Jobs |-> "PENDING_DISPATCH"]
    /\ retries = [j \in Jobs |-> 0] /\ stale = {}
    /\ queue = [j \in Jobs |-> 0] /\ running = [j \in Jobs |-> 0]
    /\ api = [j \in Jobs |-> "idle"]
    /\ sweep = Idle /\ cron = FALSE /\ answered = {}
    /\ resets = MaxResets /\ faults = MaxFaults

Inject(f) == f \in Faults /\ faults > 0 /\ faults' = faults - 1

\* The sweeper has flushed the row and not committed: other writers wait.
RowLocked(j) == j \in sweep.sent \cup sweep.refused

--------------------------------------------------------------------------------
(* REST calls.  The job is committed before it is dispatched.              *)

Create(j) ==
    /\ status[j] = "NONE"
    /\ status' = [status EXCEPT ![j] = "PENDING"]
    /\ api' = [api EXCEPT ![j] = "sending"]
    /\ UNCHANGED <<dispatch, retries, stale, queue, running, sweep, cron, answered, resets, faults>>

\* retry_document and reingest_document reset the newest job of the document,
\* under the lock of the document.
Reset(j) ==
    /\ status[j] # "NONE" /\ api[j] = "idle" /\ ~RowLocked(j)
    /\ resets > 0 /\ resets' = resets - 1
    /\ status' = [status EXCEPT ![j] = "PENDING"]
    /\ dispatch' = [dispatch EXCEPT ![j] = "PENDING_DISPATCH"]
    /\ retries' = [retries EXCEPT ![j] = 0]
    /\ api' = [api EXCEPT ![j] = "sending"]
    /\ UNCHANGED <<stale, queue, running, sweep, cron, answered, faults>>

Send(j) ==
    /\ api[j] = "sending"
    /\ api' = [api EXCEPT ![j] = "sent"]
    /\ queue' = [queue EXCEPT ![j] = @ + 1]
    /\ UNCHANGED <<jobVars, running, sweep, cron, answered, resets, faults>>

Refuse(j) ==
    /\ api[j] = "sending" /\ Inject("refuse")
    /\ api' = [api EXCEPT ![j] = "refused"]
    /\ UNCHANGED <<jobVars, queue, running, sweep, cron, answered, resets>>

\* Bug seeded for PendingIsNeverLost: a refusal is swallowed.
OutcomeSwallowed(j) == "DISPATCHED"

Outcome(j) == IF api[j] = "sent" THEN "DISPATCHED" ELSE "FAILED_DISPATCH"

\* Only the dispatch columns are written; a worker may have acknowledged by now.
Record(j) ==
    /\ api[j] \in {"sent", "refused"} /\ ~RowLocked(j)
    /\ dispatch' = [dispatch EXCEPT ![j] = Outcome(j)]
    /\ api' = [api EXCEPT ![j] = "idle"]
    /\ UNCHANGED <<status, retries, stale, queue, running, sweep, cron, answered, resets, faults>>

ApiCrash(j) ==
    /\ api[j] # "idle" /\ Inject("crash")
    /\ api' = [api EXCEPT ![j] = "idle"]
    /\ UNCHANGED <<jobVars, queue, running, sweep, cron, answered, resets>>

\* retry_job of the jobs API: the reset is flushed and never committed, and the
\* task is sent with arguments it does not take, whose error is swallowed.
OperatorRetry(j) ==
    /\ status[j] = "FAILED"
    /\ answered' = answered \cup {j}
    /\ UNCHANGED <<jobVars, queue, running, api, sweep, cron, resets, faults>>

--------------------------------------------------------------------------------
(* The ingestion worker.  Nothing keeps two deliveries of a job apart.     *)

\* Bug seeded for TypeOK: a message is acknowledged that was never delivered.
SkipNothing(j) ==
    /\ status[j] = "COMPLETED"
    /\ queue' = [queue EXCEPT ![j] = @ - 1]
    /\ UNCHANGED <<jobVars, running, api, sweep, cron, answered, resets, faults>>

Skip(j) ==
    /\ queue[j] > 0 /\ status[j] = "COMPLETED"
    /\ queue' = [queue EXCEPT ![j] = @ - 1]
    /\ UNCHANGED <<jobVars, running, api, sweep, cron, answered, resets, faults>>

Begin(j) ==
    /\ queue[j] > 0 /\ status[j] # "COMPLETED" /\ ~RowLocked(j)
    /\ queue' = [queue EXCEPT ![j] = @ - 1]
    /\ running' = [running EXCEPT ![j] = @ + 1]
    /\ status' = [status EXCEPT ![j] = "VALIDATING"]
    /\ dispatch' = [dispatch EXCEPT ![j] = "ACKNOWLEDGED"]
    /\ UNCHANGED <<retries, stale, api, sweep, cron, answered, resets, faults>>

\* A run of the job comes to an end with the given status.
EndRun(j, st) ==
    /\ running[j] > 0 /\ ~RowLocked(j)
    /\ running' = [running EXCEPT ![j] = @ - 1]
    /\ status' = [status EXCEPT ![j] = st]

Complete(j) ==
    /\ EndRun(j, "COMPLETED")
    /\ UNCHANGED <<dispatch, retries, stale, queue, api, sweep, cron, answered, resets, faults>>

RetryRun(j) ==
    /\ retries[j] < MaxRetries /\ Inject("fail")
    /\ EndRun(j, "RETRYING")
    /\ retries' = [retries EXCEPT ![j] = @ + 1]
    /\ queue' = [queue EXCEPT ![j] = @ + 1]
    /\ UNCHANGED <<dispatch, stale, api, sweep, cron, answered, resets>>

FailRun(j) ==
    /\ Inject("fail")
    /\ EndRun(j, "FAILED")
    /\ UNCHANGED <<dispatch, retries, stale, queue, api, sweep, cron, answered, resets>>

--------------------------------------------------------------------------------
(* requeue_stale_jobs, one pass at a time.                                 *)

\* A REST call does not last a quarter of an hour.
GrowStale(j) ==
    /\ status[j] # "NONE" /\ api[j] = "idle" /\ j \notin stale
    /\ stale' = stale \cup {j}
    /\ UNCHANGED <<status, dispatch, retries, queue, running, api, sweep, cron, answered, resets, faults>>

\* Bug seeded for EventuallyProcessed: only refused dispatches are looked for.
RefusedOnly ==
    {j \in stale : status[j] \in {"PENDING", "QUEUED"} /\ dispatch[j] = "FAILED_DISPATCH"}

\* get_stale_pending_jobs; no job is older than max_age_hours here.
Sweepable ==
    {j \in stale : status[j] \in {"PENDING", "QUEUED"} /\ dispatch[j] \in Unsent}

SweepBegin ==
    /\ ~sweep.on /\ ~cron /\ Sweepable # {}
    /\ sweep' = [Idle EXCEPT !.on = TRUE, !.todo = Sweepable,
                   !.queued = {j \in Sweepable : status[j] = "QUEUED"},
                   !.failed = {j \in Sweepable : dispatch[j] = "FAILED_DISPATCH"}]
    /\ cron' = TRUE
    /\ UNCHANGED <<jobVars, queue, running, api, answered, resets, faults>>

SweepSend(j) ==
    /\ sweep.on /\ j \in sweep.todo
    /\ sweep' = [sweep EXCEPT !.todo = @ \ {j}, !.sent = @ \cup {j}]
    /\ queue' = [queue EXCEPT ![j] = @ + 1]
    /\ UNCHANGED <<jobVars, running, api, cron, answered, resets, faults>>

SweepRefuse(j) ==
    /\ sweep.on /\ j \in sweep.todo /\ Inject("refuse")
    /\ sweep' = [sweep EXCEPT !.todo = @ \ {j}, !.refused = @ \cup {j}]
    /\ UNCHANGED <<jobVars, queue, running, api, cron, answered, resets>>

\* A pass that sent nothing is not committed, and a column that holds the value
\* it was read with is not written.
SweepEnd ==
    /\ sweep.on /\ sweep.todo = {}
    /\ IF sweep.sent = {} THEN UNCHANGED <<status, dispatch>>
       ELSE /\ status' = [j \in Jobs |->
                 IF RowLocked(j) /\ j \notin sweep.queued THEN "QUEUED" ELSE status[j]]
            /\ dispatch' = [j \in Jobs |->
                 CASE j \in sweep.sent -> "DISPATCHED"
                   [] j \in sweep.refused \ sweep.failed -> "FAILED_DISPATCH"
                   [] OTHER -> dispatch[j]]
    /\ sweep' = Idle /\ cron' = FALSE
    /\ UNCHANGED <<retries, stale, queue, running, api, answered, resets, faults>>

\* The lock of a pass that died is left to expire.
SweepCrash ==
    /\ sweep.on /\ Inject("crash")
    /\ sweep' = Idle
    /\ UNCHANGED <<jobVars, queue, running, api, cron, answered, resets>>

CronExpire ==
    /\ cron /\ ~sweep.on
    /\ cron' = FALSE
    /\ UNCHANGED <<jobVars, queue, running, api, sweep, answered, resets, faults>>

--------------------------------------------------------------------------------
Dispatching(j) == Send(j) \/ Record(j)
Working(j) == Skip(j) \/ Begin(j) \/ Complete(j)
Sweeping == SweepBegin \/ (\E j \in Jobs : SweepSend(j)) \/ SweepEnd \/ CronExpire

Next ==
    \/ \E j \in Jobs :
         \/ Create(j) \/ Reset(j) \/ OperatorRetry(j)
         \/ Dispatching(j) \/ Refuse(j) \/ ApiCrash(j)
         \/ Working(j) \/ RetryRun(j) \/ FailRun(j)
         \/ GrowStale(j) \/ SweepRefuse(j)
    \/ Sweeping \/ SweepCrash

Spec == Init /\ [][Next]_vars

\* Requests and tasks are carried on, time passes, Celery beat runs the sweeper.
FairSpec ==
    /\ Spec
    /\ \A j \in Jobs : /\ WF_vars(Dispatching(j)) /\ WF_vars(Working(j))
                       /\ WF_vars(GrowStale(j))
    /\ WF_vars(Sweeping)

--------------------------------------------------------------------------------
\* Each column stays in its domain and no message or run is counted negative.
TypeOK ==
    /\ status \in [Jobs -> {"NONE", "PENDING", "QUEUED", "VALIDATING", "RETRYING",
                            "COMPLETED", "FAILED"}]
    /\ dispatch \in [Jobs -> Unsent \cup {"DISPATCHED", "ACKNOWLEDGED"}]
    /\ retries \in [Jobs -> 0 .. MaxRetries] /\ stale \in SUBSET Jobs
    /\ queue \in [Jobs -> Nat] /\ running \in [Jobs -> Nat]
    /\ api \in [Jobs -> {"idle", "sending", "sent", "refused"}]
    /\ sweep \in Pass
    /\ cron \in BOOLEAN /\ answered \in SUBSET Jobs
    /\ resets \in Nat /\ faults \in Nat

\* A pending job that the sweeper would pass over has a message at the broker:
\* whatever dies or is refused between the two commits, and whoever resets or
\* sweeps the job meanwhile.
PendingIsNeverLost ==
    \A j \in Jobs : status[j] = "PENDING" /\ dispatch[j] \notin Unsent => queue[j] > 0

\* Every job that is created or reset is in the end processed or failed.
EventuallyProcessed ==
    \A j \in Jobs : status[j] = "PENDING" ~> status[j] \in Ended
================================================================================
