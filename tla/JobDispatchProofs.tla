---------------------------- MODULE JobDispatchProofs ----------------------------
(***************************************************************************)
(* Type correctness of JobDispatch, and that no pending job is lost        *)
(* between the commit that creates it and its message.                     *)
(***************************************************************************)
EXTENDS JobDispatch, TLAPS

USE DispatchBounds DEF DispatchBounds, Unsent

LEMMA IdleType == Idle \in Pass
BY DEF Idle, Pass

LEMMA TypeInit == Init => TypeOK
<1> SUFFICES ASSUME Init PROVE TypeOK
    OBVIOUS
<1>1. 0 \in 0 .. MaxRetries
    OBVIOUS
<1>2. QED
    BY <1>1, IdleType DEF Init, TypeOK

LEMMA TypeStep == TypeOK /\ [Next]_vars => TypeOK'
<1> SUFFICES ASSUME TypeOK, [Next]_vars PROVE TypeOK'
    OBVIOUS
<1> USE DEF TypeOK, jobVars
<1>1. ASSUME NEW j \in Jobs,
             Create(j) \/ Reset(j) \/ OperatorRetry(j) \/ Send(j) \/ ApiCrash(j) \/ GrowStale(j)
      PROVE  TypeOK'
    BY <1>1 DEF Create, Reset, OperatorRetry, Send, ApiCrash, GrowStale, Inject
<1>2. ASSUME NEW j \in Jobs, Record(j) \/ Refuse(j) PROVE TypeOK'
    BY <1>2 DEF Record, Refuse, Outcome, Inject
<1>3. ASSUME NEW j \in Jobs, Skip(j) \/ Begin(j) PROVE TypeOK'
    BY <1>3 DEF Skip, Begin
<1>4. ASSUME NEW j \in Jobs, Complete(j) \/ RetryRun(j) \/ FailRun(j) PROVE TypeOK'
    BY <1>4 DEF Complete, RetryRun, FailRun, EndRun, Inject
<1>5. CASE SweepBegin
    <2>1. Sweepable \in SUBSET Jobs
        BY DEF Sweepable
    <2>2. sweep' \in Pass
        BY <1>5, <2>1 DEF SweepBegin, Idle, Pass
    <2>3. QED
        BY <1>5, <2>2 DEF SweepBegin
<1>6. ASSUME NEW j \in Jobs, SweepSend(j) \/ SweepRefuse(j) PROVE TypeOK'
    <2>1. CASE SweepSend(j)
        <3>1. sweep' \in Pass
            BY <2>1 DEF SweepSend, Pass
        <3>2. QED
            BY <2>1, <3>1 DEF SweepSend
    <2>2. CASE SweepRefuse(j)
        <3>1. sweep' \in Pass
            BY <2>2 DEF SweepRefuse, Pass
        <3>2. QED
            BY <2>2, <3>1 DEF SweepRefuse, Inject
    <2>3. QED
        BY <1>6, <2>1, <2>2
<1>7. CASE SweepEnd
    <2>1. status' \in [Jobs -> {"NONE", "PENDING", "QUEUED", "VALIDATING", "RETRYING",
                                "COMPLETED", "FAILED"}]
        BY <1>7 DEF SweepEnd
    <2>2. dispatch' \in [Jobs -> Unsent \cup {"DISPATCHED", "ACKNOWLEDGED"}]
        <3>1. CASE sweep.sent = {}
            BY <1>7, <3>1 DEF SweepEnd
        <3>2. CASE sweep.sent # {}
            <4> DEFINE written(j) == CASE j \in sweep.sent -> "DISPATCHED"
                                       [] j \in sweep.refused \ sweep.failed -> "FAILED_DISPATCH"
                                       [] OTHER -> dispatch[j]
            <4>1. \A j \in Jobs : written(j) \in Unsent \cup {"DISPATCHED", "ACKNOWLEDGED"}
                OBVIOUS
            <4>2. dispatch' = [j \in Jobs |-> written(j)]
                BY <1>7, <3>2 DEF SweepEnd
            <4>3. QED
                BY <4>1, <4>2
        <3>3. QED
            BY <3>1, <3>2
    <2>3. QED
        BY <1>7, <2>1, <2>2, IdleType DEF SweepEnd
<1>8. CASE SweepCrash
    BY <1>8, IdleType DEF SweepCrash, Inject
<1>9. CASE CronExpire \/ UNCHANGED vars
    BY <1>9 DEF CronExpire, vars
<1>10. QED
    BY <1>1, <1>2, <1>3, <1>4, <1>5, <1>6, <1>7, <1>8, <1>9
       DEF Next, Dispatching, Working, Sweeping

\* The columns, messages and calls of every job stay in their domains, for any
\* set of jobs and any number of faults.
THEOREM TypeCorrect == Spec => []TypeOK
BY TypeInit, TypeStep, PTL DEF Spec

--------------------------------------------------------------------------------
\* Nothing has happened to a job that is not created.
Untouched(j) ==
    status[j] = "NONE" =>
        /\ dispatch[j] \in Unsent /\ api[j] = "idle"
        /\ j \notin sweep.todo \cup sweep.sent \cup sweep.refused

\* While a pending job is unacknowledged, the message of whoever has sent it is
\* still there.
Sent(j) ==
    /\ status[j] = "PENDING"
    /\ dispatch[j] \notin Unsent \/ api[j] = "sent" \/ j \in sweep.sent
    => queue[j] > 0

IInv == TypeOK /\ \A j \in Jobs : Untouched(j) /\ Sent(j)

LEMMA SentInit == Init => IInv
BY TypeInit DEF Init, IInv, Untouched, Sent, Idle

LEMMA SentStep == IInv /\ [Next]_vars => IInv'
<1> SUFFICES ASSUME IInv, [Next]_vars PROVE IInv'
    OBVIOUS
<1>0. TypeOK'
    BY TypeStep DEF IInv
<1> SUFFICES ASSUME NEW i \in Jobs PROVE Untouched(i)' /\ Sent(i)'
    BY <1>0 DEF IInv
<1> USE DEF IInv, TypeOK, jobVars, Untouched, Sent
<1>1. ASSUME NEW j \in Jobs, Create(j) \/ Reset(j) PROVE Untouched(i)' /\ Sent(i)'
    BY <1>1 DEF Create, Reset, RowLocked
<1>2. ASSUME NEW j \in Jobs,
             OperatorRetry(j) \/ Send(j) \/ ApiCrash(j) \/ GrowStale(j) \/ Refuse(j)
      PROVE  Untouched(i)' /\ Sent(i)'
    BY <1>2 DEF OperatorRetry, Send, ApiCrash, GrowStale, Refuse, Inject
<1>3. ASSUME NEW j \in Jobs, Record(j) PROVE Untouched(i)' /\ Sent(i)'
    BY <1>3 DEF Record, Outcome
<1>4. ASSUME NEW j \in Jobs, Skip(j) \/ Begin(j) PROVE Untouched(i)' /\ Sent(i)'
    BY <1>4 DEF Skip, Begin, RowLocked
<1>5. ASSUME NEW j \in Jobs, Complete(j) \/ RetryRun(j) \/ FailRun(j)
      PROVE  Untouched(i)' /\ Sent(i)'
    BY <1>5 DEF Complete, RetryRun, FailRun, EndRun, Inject
<1>6. CASE SweepBegin
    BY <1>6 DEF SweepBegin, Sweepable, Idle
<1>7. ASSUME NEW j \in Jobs, SweepSend(j) \/ SweepRefuse(j)
      PROVE  Untouched(i)' /\ Sent(i)'
    <2>1. CASE SweepSend(j)
        BY <2>1 DEF SweepSend, Pass
    <2>2. CASE SweepRefuse(j)
        BY <2>2 DEF SweepRefuse, Pass
    <2>3. QED
        BY <1>7, <2>1, <2>2
<1>8. CASE SweepEnd
    <2>1. CASE sweep.sent = {}
        BY <1>8, <2>1 DEF SweepEnd, Idle
    <2>2. CASE sweep.sent # {}
        <3>1. status'[i] = IF RowLocked(i) /\ i \notin sweep.queued
                             THEN "QUEUED" ELSE status[i]
            BY <1>8, <2>2 DEF SweepEnd
        <3>2. i \notin sweep.sent => dispatch'[i] \in {dispatch[i], "FAILED_DISPATCH"}
            BY <1>8, <2>2 DEF SweepEnd
        <3>3. UNCHANGED <<queue, api>> /\ sweep' = Idle
            BY <1>8 DEF SweepEnd
        <3>4. QED
            <4>1. status'[i] = "PENDING" => status[i] = "PENDING"
                BY <3>1
            <4>2. status'[i] = "NONE" => status[i] = "NONE" /\ dispatch'[i] \in Unsent
                BY <3>1, <3>2
            <4>3. sweep'.sent = {} /\ sweep'.todo = {} /\ sweep'.refused = {}
                BY <3>3 DEF Idle
            <4>4. dispatch'[i] \notin Unsent => i \in sweep.sent \/ dispatch[i] \notin Unsent
                BY <3>2
            <4>5. QED
                BY <3>3, <4>1, <4>2, <4>3, <4>4
    <2>3. QED
        BY <2>1, <2>2
<1>9. CASE SweepCrash \/ CronExpire
    BY <1>9 DEF SweepCrash, CronExpire, Idle, Inject
<1>10. CASE UNCHANGED vars
    BY <1>10 DEF vars
<1>11. QED
    BY <1>1, <1>2, <1>3, <1>4, <1>5, <1>6, <1>7, <1>8, <1>9, <1>10
       DEF Next, Dispatching, Working, Sweeping

\* Whatever dies, is refused, reset or swept in between, a pending job either is
\* one the sweeper looks for or has a message at the broker.
THEOREM NeverLost == Spec => []PendingIsNeverLost
<1>1. IInv => PendingIsNeverLost
    BY DEF IInv, Sent, PendingIsNeverLost
<1>2. QED
    BY <1>1, SentInit, SentStep, PTL DEF Spec
================================================================================
