------------------------- MODULE ProviderFailoverProofs -------------------------
(***************************************************************************)
(* ProviderFailover for any number of requests, providers, retries and     *)
(* faults: types, the canary, the trip of a breaker and the source of a    *)
(* stream.                                                                 *)
(***************************************************************************)
EXTENDS ProviderFailover, TLAPS

USE FailoverAssumption DEF FailoverAssumption

Reads == {"read", "cooldown", "decay", "unprobe"}

\* What holds of a request alone: it is at a target, the text it has sent comes from the
\* provider it is at, and it has no token where it may leave without giving one back.
Good(q) ==
    /\ q.pc # "idle" => q.at \in Targets
    /\ q.source # 0 => q.source = q.at /\ q.pc # "idle"
    /\ q.pc \in {"idle", "canary", "reset", "wipe"} => ~q.token
    /\ q.why = "peek" => ~q.token
    /\ q.why = "admit" /\ q.pc \in Reads => ~q.token
    /\ q.pc \in {"canary", "build", "call"} => q.why = "admit"

\* It is a probe: Probing says so of a request by its name.
Probe1(q) ==
    /\ q.pc \in {"build", "call"} /\ q.kind # "search"
    /\ q.admitted = "HALF_OPEN" /\ ~q.lapsed

\* A probe that has not lost its lock holds it.
Alone == \A r \in Requests : Probe1(req[r]) => canary[req[r].at] = r

Requesting == \A r \in Requests : req[r] \in Request /\ Good(req[r])

CanaryInv == NoLeak /\ Alone

IInv == TypeOK /\ Requesting /\ CanaryInv /\ FailuresTrip

\* From q to n the text that was sent stays, unless the request is over.
Keeps(q, n) == q.source # 0 => n.source = q.source \/ n = Idle

\* Zero is in every range.
LEMMA ThresholdTypes ==
    /\ 0 \in 0 .. FailureThreshold /\ 0 \in 0 .. RecoveryThreshold
    /\ 0 \in 0 .. MaxRetries /\ 0 \in 0 .. NProviders /\ 0 \in 0 .. MaxFaults
OBVIOUS

\* An idle request is a good one.
LEMMA IdleGood == Idle \in Request /\ Good(Idle)
BY ThresholdTypes DEF Idle, Request, Places, States, Index, Good, Reads

\* Leaving a provider: for the next one of the list, or for good.
LEMMA LeaveGood ==
    ASSUME NEW q \in Request, Good(q), q.pc # "idle"
    PROVE  LET n == Leave(q) IN
           /\ n \in Request /\ Good(n) /\ ~n.token /\ n.pc \in {"idle", "read"}
           /\ Keeps(q, n)
<1> DEFINE n == Leave(q)
<1>1. CASE q.kind \in {"generate", "stream"} /\ q.at < NProviders /\ ~Over(q)
    <2>1. n = Next1(q)
        BY <1>1 DEF Leave, n
    <2>2. q.source = 0
        BY <1>1 DEF Over, Good
    <2>3. q.at + 1 \in 0 .. NProviders /\ q.at + 1 \in Targets
        BY <1>1 DEF Request, Targets, Providers
    <2>4. n \in Request
        BY <2>1, <2>3, ThresholdTypes DEF Next1, Request, Places, States
    <2>5. Good(n) /\ ~n.token /\ n.pc = "read"
        BY <2>1, <2>2, <2>3 DEF Next1, Request, Good, Reads
    <2>6. QED
        BY <2>2, <2>4, <2>5 DEF Keeps
<1>2. CASE ~(q.kind \in {"generate", "stream"} /\ q.at < NProviders /\ ~Over(q))
    <2>1. n = Idle
        BY <1>2 DEF Leave, n
    <2>2. QED
        BY <2>1, IdleGood DEF Keeps, Idle
<1>3. QED
    BY <1>1, <1>2

\* After a record function: a token is still to be given back.
LEMMA RecordedGood ==
    ASSUME NEW q \in Request, Good(q), q.pc # "idle"
    PROVE  LET n == Recorded(q) IN
           /\ n \in Request /\ Good(n) /\ n.pc \in {"idle", "read", "release"}
           /\ Keeps(q, n) /\ (q.token => n.token /\ n.at = q.at)
<1> DEFINE n == Recorded(q)
<1>1. CASE q.token
    <2>1. n = [q EXCEPT !.pc = "release"]
        BY <1>1 DEF Recorded, n
    <2>2. QED
        BY <2>1, <1>1 DEF Request, Places, Good, Reads, Keeps
<1>2. CASE ~q.token /\ q.kind = "search" /\ q.why = "success" /\ q.admitted = "HALF_OPEN"
    <2>1. n = [q EXCEPT !.pc = "read", !.why = "peek"]
        BY <1>2 DEF Recorded, n
    <2>2. QED
        BY <2>1, <1>2 DEF Request, Places, Good, Reads, Keeps
<1>3. CASE ~q.token /\ ~(q.kind = "search" /\ q.why = "success" /\ q.admitted = "HALF_OPEN")
    <2>1. n = Leave(q)
        BY <1>3 DEF Recorded, n
    <2>2. QED
        BY <2>1, <1>3, LeaveGood
<1>4. QED
    BY <1>1, <1>2, <1>3

Checkpoints == {"idle", "read", "release", "canary", "build", "call", "open", "count",
                "probe", "forget"}

\* After check_state: nobody becomes a probe without the canary.
LEMMA CheckedGood ==
    ASSUME NEW q \in Request, NEW s \in States, Good(q), q.pc \in Reads
    PROVE  LET n == Checked(q, s) IN
           /\ n \in Request /\ Good(n) /\ n.pc \in Checkpoints
           /\ Keeps(q, n) /\ (q.token => n.token /\ n.at = q.at) /\ ~Probe1(n)
<1> DEFINE n == Checked(q, s)
<1>0. q.pc # "idle"
    BY DEF Reads
<1>1. CASE q.why = "peek"
    <2>1. n = Idle
        BY <1>1 DEF Checked
    <2>2. ~q.token
        BY <1>1 DEF Good
    <2>3. QED
        BY <2>1, <2>2, IdleGood DEF Idle, Keeps, Probe1, Checkpoints
<1>2. CASE q.why = "admit"
    <2>1. n = Admitted(q, s)
        BY <1>2 DEF Checked
    <2>2. ~q.token
        BY <1>2 DEF Good
    <2>3. CASE s = "OPEN"
        <3>1. n = Leave(q)
            BY <2>1, <2>3 DEF Admitted
        <3>2. QED
            BY <3>1, <2>2, <1>0, LeaveGood DEF Probe1, Checkpoints
    <2>4. CASE s = "HALF_OPEN" /\ q.kind # "search"
        <3>1. n = [q EXCEPT !.pc = "canary", !.admitted = s]
            BY <2>1, <2>4 DEF Admitted
        <3>2. QED
            BY <3>1, <2>2, <1>0, <1>2
            DEF Request, Places, Good, Reads, Keeps, Probe1, Checkpoints
    <2>5. CASE s # "OPEN" /\ q.kind = "search"
        <3>1. n = [q EXCEPT !.pc = "call", !.admitted = s]
            BY <2>1, <2>5 DEF Admitted
        <3>2. QED
            BY <3>1, <2>2, <2>5, <1>0, <1>2
            DEF Request, Places, Good, Reads, Keeps, Probe1, Checkpoints
    <2>6. CASE s = "CLOSED" /\ q.kind # "search"
        <3>1. n = [q EXCEPT !.pc = "build", !.admitted = s]
            BY <2>1, <2>6 DEF Admitted
        <3>2. QED
            BY <3>1, <2>2, <2>6, <1>0, <1>2
            DEF Request, Places, Good, Reads, Keeps, Probe1, Checkpoints
    <2>7. QED
        BY <2>3, <2>4, <2>5, <2>6 DEF States
<1>3. CASE q.why \in {"failure", "success"}
    <2>1. CASE s = "OPEN"
        <3>1. n = Recorded(q)
            BY <1>3, <2>1 DEF Checked
        <3>2. QED
            BY <3>1, <1>0, RecordedGood DEF Probe1, Checkpoints
    <2>2. CASE s # "OPEN"
        <3>1. \E place \in {"open", "count", "probe", "forget"} : n = [q EXCEPT !.pc = place]
            BY <1>3, <2>2 DEF Checked, States
        <3>2. QED
            BY <3>1, <1>0, <1>3
            DEF Request, Places, Good, Reads, Keeps, Probe1, Checkpoints
    <2>3. QED
        BY <2>1, <2>2
<1>4. QED
    BY <1>1, <1>2, <1>3 DEF Request

--------------------------------------------------------------------------------
Kept == \A r \in Requests : Keeps(req[r], req'[r])

\* A request that keeps its token, and becomes no new probe, disturbs no canary.
LEMMA Move ==
    ASSUME Requesting, CanaryInv, NEW r \in Requests, NEW q \in Request, Good(q),
           req \in [Requests -> Request],
           Becomes(r, q), Keeps(req[r], q), UNCHANGED canary,
           req[r].token => q.token /\ q.at = req[r].at,
           Probe1(q) => Probe1(req[r]) /\ q.at = req[r].at
    PROVE  req' \in [Requests -> Request] /\ Requesting' /\ CanaryInv' /\ Kept
<1>1. req' \in [Requests -> Request] /\ req'[r] = q
      /\ \A s \in Requests : s # r => req'[s] = req[s]
    BY DEF Becomes
<1>2. Requesting'
    BY <1>1 DEF Requesting
<1>3. NoLeak'
    BY <1>1 DEF CanaryInv, NoLeak, T
<1>4. Alone'
    BY <1>1 DEF CanaryInv, Alone
<1>5. Kept
    BY <1>1 DEF Kept, Keeps
<1>6. QED
    BY <1>1, <1>2, <1>3, <1>4, <1>5 DEF CanaryInv

\* A request that loses its canary lock, or never had one, may go.
LEMMA Part ==
    ASSUME Requesting, CanaryInv, NEW r \in Requests, NEW q \in Request, Good(q),
           req \in [Requests -> Request],
           canary \in [Targets -> Requests \cup {Nobody, Orphan}],
           Becomes(r, q), Keeps(req[r], q), ~Probe1(q),
           canary' \in [Targets -> Requests \cup {Nobody, Orphan}],
           \A t \in Targets : canary[t] = r => canary'[t] \in {Nobody, Orphan},
           \A t \in Targets : canary[t] # r =>
                canary'[t] = canary[t] \/ (canary[t] = Nobody /\ canary'[t] = Orphan)
    PROVE  req' \in [Requests -> Request] /\ Requesting' /\ CanaryInv' /\ Kept
<1>1. req' \in [Requests -> Request] /\ req'[r] = q
      /\ \A s \in Requests : s # r => req'[s] = req[s]
    BY DEF Becomes
<1>2. Requesting'
    BY <1>1 DEF Requesting
<1>3. NoLeak'
    <2> SUFFICES ASSUME NEW s \in Requests, NEW t \in Targets, canary'[t] = s
                 PROVE  req'[s].token /\ req'[s].at = t
        BY DEF NoLeak, T
    <2>1. canary[t] # r /\ canary'[t] = canary[t] /\ s # r
        BY FailoverAssumption
    <2>2. req[s].token /\ req[s].at = t
        BY <2>1 DEF CanaryInv, NoLeak, T
    <2>3. QED
        BY <1>1, <2>1, <2>2
<1>4. Alone'
    <2> SUFFICES ASSUME NEW s \in Requests, Probe1(req[s])', s # r PROVE (canary[req[s].at] = s)'
        BY <1>1 DEF Alone
    <2>1. canary[req[s].at] = s /\ req[s].at \in Targets /\ req'[s] = req[s]
        BY <1>1 DEF CanaryInv, Alone, Requesting, Good, Probe1
    <2>2. QED
        BY <2>1
<1>5. Kept
    BY <1>1 DEF Kept, Keeps
<1>6. QED
    BY <1>1, <1>2, <1>3, <1>4, <1>5 DEF CanaryInv

\* The lock on t goes away; the request that held it, if it still runs, is marked as lapsed.
Unlock(t) == canary' = [canary EXCEPT ![t] = Nobody]
Told(t)   == \A s \in Requests :
                req'[s] = LapsedAt(t)[s] \/ (req'[s] = Idle /\ ~req[s].token)

\* Marking a request as lapsed keeps its type.
LEMMA LapsedTypes ==
    ASSUME req \in [Requests -> Request], NEW t
    PROVE  LapsedAt(t) \in [Requests -> Request]
<1>1. ASSUME NEW s \in Requests PROVE [req[s] EXCEPT !.lapsed = TRUE] \in Request
    BY DEF Request
<1>2. QED
    BY <1>1 DEF LapsedAt

LEMMA Lapse ==
    ASSUME Requesting, CanaryInv, req \in [Requests -> Request], NEW t \in Targets,
           canary \in [Targets -> Requests \cup {Nobody, Orphan}],
           Unlock(t),
           req' \in [Requests -> Request], Told(t)
    PROVE  Requesting' /\ CanaryInv' /\ Kept
<1>1. \A s \in Requests :
        \/ req'[s] = req[s] /\ canary[t] # s
        \/ req'[s] = [req[s] EXCEPT !.lapsed = TRUE]
        \/ req'[s] = Idle /\ ~req[s].token
    BY DEF LapsedAt, Told
<1>2. \A s \in Requests : req'[s] \in Request /\ Good(req'[s])
    <2> TAKE s \in Requests
    <2>1. CASE req'[s] = req[s]
        BY <2>1 DEF Requesting
    <2>2. CASE req'[s] = [req[s] EXCEPT !.lapsed = TRUE]
        BY <2>2 DEF Requesting, Request, Good, Reads
    <2>3. CASE req'[s] = Idle
        BY <2>3, IdleGood
    <2>4. QED
        BY <1>1, <2>1, <2>2, <2>3
<1>3. Requesting'
    BY <1>2 DEF Requesting
<1>4. NoLeak'
    <2> SUFFICES ASSUME NEW s \in Requests, NEW u \in Targets, canary'[u] = s
                 PROVE  req'[s].token /\ req'[s].at = u
        BY DEF NoLeak, T
    <2>1. u # t /\ canary[u] = s
        BY FailoverAssumption DEF Unlock
    <2>2. req[s].token /\ req[s].at = u
        BY <2>1 DEF CanaryInv, NoLeak, T
    <2>3. QED
        BY <1>1, <2>2 DEF Request
<1>5. Alone'
    <2> SUFFICES ASSUME NEW s \in Requests, Probe1(req'[s]) PROVE canary'[req'[s].at] = s
        BY DEF Alone
    <2>1. req'[s] = req[s] /\ canary[t] # s
        BY <1>1 DEF Probe1, Idle, Request
    <2>2. canary[req[s].at] = s /\ req[s].at \in Targets
        BY <2>1 DEF CanaryInv, Alone, Requesting, Good, Probe1
    <2>3. QED
        BY <2>1, <2>2 DEF Unlock
<1>6. Kept
    BY <1>1 DEF Kept, Keeps, Request
<1>7. QED
    BY <1>3, <1>4, <1>5, <1>6 DEF CanaryInv

--------------------------------------------------------------------------------
\* FailuresTrip, target by target: who is about to trip or clear a full counter, and who
\* is about to time a new one.
Tripping == {"open", "clear", "wipe"}
Witness  == Tripping \cup {"expire"}

Due(t)     == \E r \in Requests : req[r].at = t /\ req[r].pc \in Tripping
Untimed(t) == \E r \in Requests : req[r].at = t /\ req[r].pc = "expire"

TripAt(t) ==
    /\ failures[t] = FailureThreshold /\ circuit[t] = "CLOSED" => Due(t)
    /\ failures[t] > 0 /\ ~timed[t] => Untimed(t)

\* FailuresTrip is TripAt of every breaker that no fault has cut.
LEMMA TripByTarget == FailuresTrip <=> \A t \in Targets \ cut : TripAt(t)
BY DEF FailuresTrip, TripAt, Due, Untimed, Tripping, T

\* The same after a step.
LEMMA TripByTargetNext == FailuresTrip' <=> (\A t \in Targets \ cut : TripAt(t))'
BY DEF FailuresTrip, TripAt, Due, Untimed, Tripping, T

\* A breaker whose keys do not change, and that r is not the one to trip or to time.
LEMMA TripElsewhere ==
    ASSUME NEW t, TripAt(t), NEW r \in Requests, req \in [Requests -> Request],
           \A s \in Requests : s # r => req'[s].pc = req[s].pc /\ req'[s].at = req[s].at,
           circuit'[t] = circuit[t], failures'[t] = failures[t], timed'[t] = timed[t],
           req[r].at = t => req[r].pc \notin Witness
    PROVE  TripAt(t)'
<1>1. Due(t) => Due(t)'
    BY DEF Due, Tripping, Witness
<1>2. Untimed(t) => Untimed(t)'
    BY DEF Untimed, Witness
<1>3. QED
    BY <1>1, <1>2 DEF TripAt

\* A request moves and leaves the counters alone; what it was about to write is either
\* not half done, or its target is marked as cut.
LEMMA TripKept ==
    ASSUME FailuresTrip, NEW r \in Requests, NEW q, req \in [Requests -> Request],
           Becomes(r, q), UNCHANGED <<circuit, failures, timed>>,
           cut \subseteq cut', req[r].pc \in Witness => req[r].at \in cut'
    PROVE  FailuresTrip'
<1>1. \A s \in Requests : s # r => req'[s] = req[s]
    BY DEF Becomes
<1> SUFFICES ASSUME NEW t \in Targets, t \notin cut' PROVE TripAt(t)'
    BY TripByTargetNext
<1>2. TripAt(t)
    BY TripByTarget
<1>3. QED
    BY <1>1, <1>2, TripElsewhere

\* A request writes the keys of its own target: every other breaker is as it was.
LEMMA TripOwn ==
    ASSUME FailuresTrip, NEW r \in Requests, NEW q, req \in [Requests -> Request],
           NEW u \in Targets, u = req[r].at,
           Becomes(r, q), cut \ {u} \subseteq cut',
           \A t \in Targets \ {u} : circuit'[t] = circuit[t] /\ failures'[t] = failures[t]
                                 /\ timed'[t] = timed[t],
           u \notin cut' => TripAt(u)'
    PROVE  FailuresTrip'
<1>1. \A s \in Requests : s # r => req'[s] = req[s]
    BY DEF Becomes
<1> SUFFICES ASSUME NEW t \in Targets, t \notin cut', t # u PROVE TripAt(t)'
    BY TripByTargetNext
<1>2. TripAt(t)
    BY TripByTarget
<1>3. QED
    BY <1>1, <1>2, TripElsewhere
\* There, it is enough that r becomes the witness or leaves the one there was.
LEMMA TripThere ==
    ASSUME FailuresTrip, NEW r \in Requests, NEW q, req \in [Requests -> Request],
           NEW u \in Targets, u = req[r].at,
           Becomes(r, q), cut \ {u} \subseteq cut',
           \A t \in Targets \ {u} : circuit'[t] = circuit[t] /\ failures'[t] = failures[t]
                                 /\ timed'[t] = timed[t],
           u \notin cut' /\ failures'[u] = FailureThreshold /\ circuit'[u] = "CLOSED" =>
                \/ q.at = u /\ q.pc \in Tripping
                \/ /\ failures[u] = FailureThreshold /\ circuit[u] = "CLOSED"
                   /\ u \notin cut /\ req[r].pc \notin Tripping,
           u \notin cut' /\ failures'[u] > 0 /\ ~timed'[u] =>
                \/ q.at = u /\ q.pc = "expire"
                \/ failures[u] > 0 /\ ~timed[u] /\ u \notin cut /\ req[r].pc # "expire"
    PROVE  FailuresTrip'
<1>1. req'[r] = q /\ \A s \in Requests : s # r => req'[s] = req[s]
    BY DEF Becomes
<1>2. u \notin cut' => TripAt(u)'
    <2> SUFFICES ASSUME u \notin cut' PROVE TripAt(u)'
        OBVIOUS
    <2>1. ASSUME failures'[u] = FailureThreshold, circuit'[u] = "CLOSED" PROVE Due(u)'
        <3>1. CASE q.at = u /\ q.pc \in Tripping
            BY <1>1, <3>1 DEF Due
        <3>2. CASE /\ failures[u] = FailureThreshold /\ circuit[u] = "CLOSED"
                   /\ u \notin cut /\ req[r].pc \notin Tripping
            BY <1>1, <3>2, TripByTarget DEF Due, TripAt
        <3>3. QED
            BY <2>1, <3>1, <3>2
    <2>2. ASSUME failures'[u] > 0, ~timed'[u] PROVE Untimed(u)'
        <3>1. CASE q.at = u /\ q.pc = "expire"
            BY <1>1, <3>1 DEF Untimed
        <3>2. CASE failures[u] > 0 /\ ~timed[u] /\ u \notin cut /\ req[r].pc # "expire"
            BY <1>1, <3>2, TripByTarget DEF Untimed, TripAt
        <3>3. QED
            BY <2>2, <3>1, <3>2
    <2>3. QED
        BY <2>1, <2>2 DEF TripAt
<1>3. QED
    BY <1>2, TripOwn

--------------------------------------------------------------------------------
(* The steps of one request *)

\* Everything that a step leaves true.
Holds == IInv' /\ Kept

\* A step that writes no key.
LEMMA Silent ==
    ASSUME IInv, NEW r \in Requests, NEW q \in Request, Good(q), Becomes(r, q), Keeps(req[r], q),
           UNCHANGED <<breaker, canary, cut, faults>>, req[r].pc \notin Witness,
           req[r].token => q.token /\ q.at = req[r].at,
           Probe1(q) => Probe1(req[r]) /\ q.at = req[r].at
    PROVE  Holds
<1>1. req' \in [Requests -> Request] /\ Requesting' /\ CanaryInv' /\ Kept
    BY Move DEF IInv, TypeOK
<1>2. TypeOK'
    BY <1>1 DEF IInv, TypeOK, breaker
<1>3. FailuresTrip'
    BY TripKept DEF IInv, TypeOK, breaker
<1>4. QED
    BY <1>1, <1>2, <1>3 DEF Holds, IInv

\* What the record functions leave behind when they are done.
LEMMA Records ==
    ASSUME IInv, NEW r \in Requests, req[r].pc # "idle",
           Becomes(r, Recorded(req[r])), UNCHANGED canary
    PROVE  req' \in [Requests -> Request] /\ Requesting' /\ CanaryInv' /\ Kept
<1> DEFINE q == Recorded(req[r])
<1>1. req[r] \in Request /\ Good(req[r])
    BY DEF IInv, Requesting
<1>2. /\ q \in Request /\ Good(q) /\ q.pc \in {"idle", "read", "release"}
      /\ Keeps(req[r], q) /\ (req[r].token => q.token /\ q.at = req[r].at)
    BY <1>1, RecordedGood
<1>3. ~Probe1(q)
    BY <1>2 DEF Probe1
<1> HIDE DEF q
<1>4. Becomes(r, q)
    BY DEF q
<1>5. QED
    BY <1>2, <1>3, <1>4, Move DEF IInv, TypeOK

\* What they leave behind when they go on.
LEMMA Continues ==
    ASSUME IInv, NEW r \in Requests, NEW place \in {"cooldown", "decay", "unprobe", "expire",
                                                  "open", "cool", "close", "clear"},
           req[r].pc \notin {"idle", "canary", "build", "call", "reset", "wipe"},
           req[r].pc \in Reads \/ place \notin Reads,
           Goes(r, place), UNCHANGED canary
    PROVE  req' \in [Requests -> Request] /\ Requesting' /\ CanaryInv' /\ Kept
<1> DEFINE q == [req[r] EXCEPT !.pc = place]
<1>1. req[r] \in Request /\ Good(req[r])
    BY DEF IInv, Requesting
<1>2. /\ q \in Request /\ Good(q) /\ Keeps(req[r], q)
      /\ q.token = req[r].token /\ q.at = req[r].at /\ q.pc = place
    BY <1>1 DEF Request, Places, Good, Reads, Keeps
<1>3. ~Probe1(q)
    BY <1>2 DEF Probe1
<1> HIDE DEF q
<1>4. Becomes(r, q)
    BY DEF q, Goes
<1>5. QED
    BY <1>2, <1>3, <1>4, Move DEF IInv, TypeOK

\* What the invariant says of one request.
LEMMA Own == ASSUME IInv, NEW r \in Requests
             PROVE  req[r] \in Request /\ Good(req[r])
BY DEF IInv, Requesting

\* After check_state, whatever it answers.
LEMMA Decides ==
    ASSUME IInv, NEW r \in Requests, NEW s \in States, req[r].pc \in Reads,
           Becomes(r, Checked(req[r], s)), UNCHANGED canary
    PROVE  req' \in [Requests -> Request] /\ Requesting' /\ CanaryInv' /\ Kept
<1> DEFINE q == Checked(req[r], s)
<1>1. /\ q \in Request /\ Good(q) /\ Keeps(req[r], q)
      /\ (req[r].token => q.token /\ q.at = req[r].at) /\ ~Probe1(q)
    BY Own, CheckedGood
<1> HIDE DEF q
<1>2. Becomes(r, q)
    BY DEF q
<1>3. QED
    BY <1>1, <1>2, Move DEF IInv, TypeOK

\* A step of ReadState keeps everything.
LEMMA ReadStateHolds == ASSUME IInv, NEW r \in Requests, ReadState(r) PROVE Holds
<1>0. req[r].pc = "read" /\ req[r].at \in Targets /\ circuit[T(r)] \in States
    BY Own DEF ReadState, At, Good, T, IInv, TypeOK
<1>1. req' \in [Requests -> Request] /\ Requesting' /\ CanaryInv' /\ Kept
    <2>1. CASE circuit[T(r)] = "OPEN"
        BY <2>1, <1>0, Continues DEF ReadState, Reads
    <2>2. CASE circuit[T(r)] # "OPEN"
        BY <2>2, <1>0, Decides DEF ReadState, Reads
    <2>3. QED
        BY <2>1, <2>2
<1>2. \E q : Becomes(r, q)
    BY DEF ReadState, Goes
<1>3. FailuresTrip'
    BY <1>0, <1>2, TripKept DEF IInv, TypeOK, ReadState, breaker, Witness, Tripping
<1>4. QED
    BY <1>1, <1>3 DEF Holds, IInv, TypeOK, ReadState, breaker

\* A step of ReadCooldown keeps everything.
LEMMA ReadCooldownHolds == ASSUME IInv, NEW r \in Requests, ReadCooldown(r) PROVE Holds
<1>0. req[r].pc = "cooldown"
    BY DEF ReadCooldown, At
<1>1. req' \in [Requests -> Request] /\ Requesting' /\ CanaryInv' /\ Kept
    <2>1. CASE cooldown[T(r)]
        BY <2>1, <1>0, Decides DEF ReadCooldown, Reads, States
    <2>2. CASE ~cooldown[T(r)]
        BY <2>2, <1>0, Continues DEF ReadCooldown, Reads
    <2>3. QED
        BY <2>1, <2>2
<1>2. \E q : Becomes(r, q)
    BY DEF ReadCooldown, Goes
<1>3. FailuresTrip'
    BY <1>0, <1>2, TripKept DEF IInv, TypeOK, ReadCooldown, breaker, Witness, Tripping
<1>4. QED
    BY <1>1, <1>3 DEF Holds, IInv, TypeOK, ReadCooldown, breaker

\* A step of Decay keeps everything.
LEMMA DecayHolds == ASSUME IInv, NEW r \in Requests, Decay(r) PROVE Holds
<1>0. req[r].pc = "decay" /\ T(r) = req[r].at /\ req[r].at \in Targets
    BY Own DEF Decay, At, T, Good
<1>1. req' \in [Requests -> Request] /\ Requesting' /\ CanaryInv' /\ Kept
    BY <1>0, Continues DEF Decay, Reads
<1>2. TypeOK'
    BY <1>0, <1>1 DEF IInv, TypeOK, Decay, States
<1>3. FailuresTrip'
    <2>1. PICK u \in Targets : u = req[r].at
        BY <1>0
    <2>2. Becomes(r, [req[r] EXCEPT !.pc = "unprobe"])
        BY DEF Decay, Goes
    <2>3. circuit' = [circuit EXCEPT ![u] = "HALF_OPEN"] /\ UNCHANGED <<failures, timed, cut>>
        BY <1>0, <2>1 DEF Decay
    <2>4. QED
        BY <1>0, <2>1, <2>2, <2>3, TripThere DEF IInv, TypeOK, Tripping
<1>4. QED
    BY <1>1, <1>2, <1>3 DEF Holds, IInv

\* A step of Unprobe keeps everything.
LEMMA UnprobeHolds == ASSUME IInv, NEW r \in Requests, Unprobe(r) PROVE Holds
<1>0. req[r].pc = "unprobe" /\ T(r) = req[r].at /\ req[r].at \in Targets
    BY Own DEF Unprobe, At, T, Good
<1>1. req' \in [Requests -> Request] /\ Requesting' /\ CanaryInv' /\ Kept
    BY <1>0, Decides DEF Unprobe, Reads, States
<1>2. TypeOK'
    BY <1>0, <1>1, ThresholdTypes DEF IInv, TypeOK, Unprobe
<1>3. FailuresTrip'
    BY <1>0, TripKept DEF IInv, TypeOK, Unprobe, Witness, Tripping
<1>4. QED
    BY <1>1, <1>2, <1>3 DEF Holds, IInv

\* A step of Trip keeps everything.
LEMMA TripHolds == ASSUME IInv, NEW r \in Requests, Trip(r) PROVE Holds
<1>0. req[r].pc = "open" /\ T(r) = req[r].at /\ req[r].at \in Targets
    BY Own DEF Trip, At, T, Good
<1>1. req' \in [Requests -> Request] /\ Requesting' /\ CanaryInv' /\ Kept
    BY <1>0, Continues DEF Trip, Reads
<1>2. TypeOK'
    BY <1>0, <1>1, ThresholdTypes DEF IInv, TypeOK, Trip, States
<1>3. FailuresTrip'
    <2>1. PICK u \in Targets : u = req[r].at
        BY <1>0
    <2>2. Becomes(r, [req[r] EXCEPT !.pc = "cool"])
        BY DEF Trip, Goes
    <2>3. circuit' = [circuit EXCEPT ![u] = "OPEN"] /\ UNCHANGED <<failures, timed, cut>>
        BY <1>0, <2>1 DEF Trip, States
    <2>4. QED
        BY <1>0, <2>1, <2>2, <2>3, TripThere DEF IInv, TypeOK, Tripping
<1>4. QED
    BY <1>1, <1>2, <1>3 DEF Holds, IInv

\* A step of Close keeps everything.
LEMMA CloseHolds == ASSUME IInv, NEW r \in Requests, Close(r) PROVE Holds
<1>0. req[r].pc = "close" /\ T(r) = req[r].at /\ req[r].at \in Targets
    BY Own DEF Close, At, T, Good
<1>1. req' \in [Requests -> Request] /\ Requesting' /\ CanaryInv' /\ Kept
    BY <1>0, Continues DEF Close, Reads
<1>2. TypeOK'
    BY <1>0, <1>1, ThresholdTypes DEF IInv, TypeOK, Close, States
<1>3. FailuresTrip'
    <2>1. PICK u \in Targets : u = req[r].at
        BY <1>0
    <2>2. Becomes(r, [req[r] EXCEPT !.pc = "clear"])
        BY DEF Close, Goes
    <2>3. circuit' = [circuit EXCEPT ![u] = "CLOSED"] /\ UNCHANGED <<failures, timed, cut>>
        BY <1>0, <2>1 DEF Close, States
    <2>4. LET q == [req[r] EXCEPT !.pc = "clear"] IN q.at = u /\ q.pc \in Tripping
        BY <2>1, Own DEF Request, Tripping
    <2>5. QED
        BY <1>0, <2>1, <2>2, <2>3, <2>4, TripThere DEF IInv, TypeOK
<1>4. QED
    BY <1>1, <1>2, <1>3 DEF Holds, IInv

\* A step of Cool keeps everything.
LEMMA CoolHolds == ASSUME IInv, NEW r \in Requests, Cool(r) PROVE Holds
<1>0. req[r].pc = "cool" /\ T(r) = req[r].at /\ req[r].at \in Targets
    BY Own DEF Cool, At, T, Good
<1>1. req' \in [Requests -> Request] /\ Requesting' /\ CanaryInv' /\ Kept
    BY <1>0, Records DEF Cool
<1>2. TypeOK'
    BY <1>0, <1>1, ThresholdTypes DEF IInv, TypeOK, Cool
<1>3. FailuresTrip'
    <2>1. PICK u \in Targets : u = req[r].at
        BY <1>0
    <2>2. Becomes(r, Recorded(req[r]))
        BY DEF Cool
    <2>3. UNCHANGED <<circuit, failures, timed, cut>>
        BY <1>0, <2>1 DEF Cool
    <2>4. QED
        BY <1>0, <2>1, <2>2, <2>3, TripThere DEF IInv, TypeOK, Tripping
<1>4. QED
    BY <1>1, <1>2, <1>3 DEF Holds, IInv

\* A step of ExpireCount keeps everything.
LEMMA ExpireCountHolds == ASSUME IInv, NEW r \in Requests, ExpireCount(r) PROVE Holds
<1>0. req[r].pc = "expire" /\ T(r) = req[r].at /\ req[r].at \in Targets
    BY Own DEF ExpireCount, At, T, Good
<1>1. req' \in [Requests -> Request] /\ Requesting' /\ CanaryInv' /\ Kept
    BY <1>0, Records DEF ExpireCount
<1>2. TypeOK'
    BY <1>0, <1>1, ThresholdTypes DEF IInv, TypeOK, ExpireCount
<1>3. FailuresTrip'
    <2>1. PICK u \in Targets : u = req[r].at
        BY <1>0
    <2>2. Becomes(r, Recorded(req[r]))
        BY DEF ExpireCount
    <2>3. /\ timed' = [timed EXCEPT ![u] = failures[u] > 0]
          /\ UNCHANGED <<circuit, failures, cut>>
        BY <1>0, <2>1 DEF ExpireCount
    <2>4. QED
        BY <1>0, <2>1, <2>2, <2>3, TripThere DEF IInv, TypeOK, Tripping
<1>4. QED
    BY <1>1, <1>2, <1>3 DEF Holds, IInv

\* A step of Clear keeps everything.
LEMMA ClearHolds == ASSUME IInv, NEW r \in Requests, Clear(r) PROVE Holds
<1>0. req[r].pc = "clear" /\ T(r) = req[r].at /\ req[r].at \in Targets
    BY Own DEF Clear, At, T, Good
<1>1. req' \in [Requests -> Request] /\ Requesting' /\ CanaryInv' /\ Kept
    BY <1>0, Records DEF Clear
<1>2. TypeOK'
    BY <1>0, <1>1, ThresholdTypes DEF IInv, TypeOK, Clear, CountersGone
<1>3. FailuresTrip'
    <2>1. PICK u \in Targets : u = req[r].at
        BY <1>0
    <2>2. Becomes(r, Recorded(req[r]))
        BY DEF Clear
    <2>3. /\ failures' = [failures EXCEPT ![u] = 0] /\ timed' = [timed EXCEPT ![u] = FALSE]
          /\ cut' = cut \ {u} /\ UNCHANGED circuit
        BY <1>0, <2>1 DEF Clear, CountersGone
    <2>4. /\ failures'[u] = 0 /\ cut \ {u} \subseteq cut'
          /\ \A t \in Targets \ {u} : circuit'[t] = circuit[t] /\ failures'[t] = failures[t]
                                    /\ timed'[t] = timed[t]
        BY <2>3 DEF IInv, TypeOK
    <2>5. QED
        BY <1>0, <2>1, <2>2, <2>4, TripThere DEF IInv, TypeOK
<1>4. QED
    BY <1>1, <1>2, <1>3 DEF Holds, IInv

\* A step of Forget keeps everything.
LEMMA ForgetHolds == ASSUME IInv, NEW r \in Requests, Forget(r) PROVE Holds
<1>0. req[r].pc = "forget" /\ T(r) = req[r].at /\ req[r].at \in Targets
    BY Own DEF Forget, At, T, Good
<1>1. req' \in [Requests -> Request] /\ Requesting' /\ CanaryInv' /\ Kept
    BY <1>0, Records DEF Forget
<1>2. TypeOK'
    BY <1>0, <1>1, ThresholdTypes DEF IInv, TypeOK, Forget, CountersGone
<1>3. FailuresTrip'
    <2>1. PICK u \in Targets : u = req[r].at
        BY <1>0
    <2>2. Becomes(r, Recorded(req[r]))
        BY DEF Forget
    <2>3. /\ failures' = [failures EXCEPT ![u] = 0] /\ timed' = [timed EXCEPT ![u] = FALSE]
          /\ cut' = cut \ {u} /\ UNCHANGED circuit
        BY <1>0, <2>1 DEF Forget, CountersGone
    <2>4. /\ failures'[u] = 0 /\ cut \ {u} \subseteq cut'
          /\ \A t \in Targets \ {u} : circuit'[t] = circuit[t] /\ failures'[t] = failures[t]
                                    /\ timed'[t] = timed[t]
        BY <2>3 DEF IInv, TypeOK
    <2>5. QED
        BY <1>0, <2>1, <2>2, <2>4, TripThere DEF IInv, TypeOK
<1>4. QED
    BY <1>1, <1>2, <1>3 DEF Holds, IInv

\* A step of Build keeps everything.
LEMMA BuildHolds == ASSUME IInv, NEW r \in Requests, Build(r) PROVE Holds
<1> DEFINE q == [req[r] EXCEPT !.pc = "call"]
<1>0. req[r].pc = "build" /\ Becomes(r, q) /\ UNCHANGED <<breaker, canary, cut, faults>>
    BY DEF Build, At, Goes, T
<1>1. q \in Request /\ q.token = req[r].token /\ q.at = req[r].at
    BY <1>0, Own DEF Request, Places
<1>2. Good(q)
    BY <1>0, Own DEF Request, Good, Reads
<1>3. Keeps(req[r], q) /\ (Probe1(q) => Probe1(req[r]))
    BY <1>0, Own DEF Request, Good, Keeps, Probe1
<1> HIDE DEF q
<1>4. QED
    BY <1>0, <1>1, <1>2, <1>3, Silent DEF Witness, Tripping

\* A step of Succeed keeps everything.
LEMMA SucceedHolds == ASSUME IInv, NEW r \in Requests, Succeed(r) PROVE Holds
<1> DEFINE q == [req[r] EXCEPT !.pc = "read", !.why = "success"]
<1>0. req[r].pc = "call" /\ Becomes(r, q) /\ UNCHANGED <<breaker, canary, cut, faults>>
    BY DEF Succeed, At
<1>1. /\ q \in Request /\ q.token = req[r].token /\ q.at = req[r].at
      /\ q.pc = "read" /\ q.why = "success" /\ q.source = req[r].source
    BY <1>0, Own DEF Request, Places
<1> HIDE DEF q
<1>2. Good(q)
    BY <1>0, <1>1, Own DEF Good, Reads
<1>3. Keeps(req[r], q) /\ ~Probe1(q)
    BY <1>0, <1>1 DEF Keeps, Probe1
<1>4. QED
    BY <1>0, <1>1, <1>2, <1>3, Silent DEF Witness, Tripping

\* A step of Fail keeps everything.
LEMMA FailHolds == ASSUME IInv, NEW r \in Requests, Fail(r) PROVE Holds
<1> DEFINE q == [req[r] EXCEPT !.pc = "read", !.why = "failure"]
<1>0. req[r].pc = "call" /\ Becomes(r, q) /\ UNCHANGED <<breaker, canary, cut, faults>>
    BY DEF Fail, At
<1>1. /\ q \in Request /\ q.token = req[r].token /\ q.at = req[r].at
      /\ q.pc = "read" /\ q.why = "failure" /\ q.source = req[r].source
    BY <1>0, Own DEF Request, Places
<1> HIDE DEF q
<1>2. Good(q)
    BY <1>0, <1>1, Own DEF Good, Reads
<1>3. Keeps(req[r], q) /\ ~Probe1(q)
    BY <1>0, <1>1 DEF Keeps, Probe1
<1>4. QED
    BY <1>0, <1>1, <1>2, <1>3, Silent DEF Witness, Tripping

\* A step of Yield keeps everything.
LEMMA YieldHolds == ASSUME IInv, NEW r \in Requests, Yield(r) PROVE Holds
<1> DEFINE q == [req[r] EXCEPT !.source = req[r].at]
<1>0. req[r].pc = "call" /\ Becomes(r, q) /\ UNCHANGED <<breaker, canary, cut, faults>>
      /\ req[r].source # req[r].at
    BY DEF Yield, At, Goes, T
<1>1. q \in Request /\ q.token = req[r].token /\ q.at = req[r].at
    BY <1>0, Own DEF Request, Places
<1>2. Good(q)
    BY <1>0, Own DEF Request, Good, Reads
<1>3. Keeps(req[r], q) /\ (Probe1(q) => Probe1(req[r]))
    BY <1>0, Own DEF Request, Good, Keeps, Probe1
<1> HIDE DEF q
<1>4. QED
    BY <1>0, <1>1, <1>2, <1>3, Silent DEF Witness, Tripping

\* A step of Retry keeps everything.
LEMMA RetryHolds == ASSUME IInv, NEW r \in Requests, Retry(r) PROVE Holds
<1> DEFINE q == [req[r] EXCEPT !.tries = @ + 1]
<1>0. req[r].pc = "call" /\ Becomes(r, q) /\ UNCHANGED <<breaker, canary, cut, faults>>
      /\ req[r].tries < MaxRetries
    BY DEF Retry, At, Goes, T
<1>1. q \in Request /\ q.token = req[r].token /\ q.at = req[r].at
    BY <1>0, Own DEF Request, Places
<1>2. Good(q)
    BY <1>0, Own DEF Request, Good, Reads
<1>3. Keeps(req[r], q) /\ (Probe1(q) => Probe1(req[r]))
    BY <1>0, Own DEF Request, Good, Keeps, Probe1
<1> HIDE DEF q
<1>4. QED
    BY <1>0, <1>1, <1>2, <1>3, Silent DEF Witness, Tripping

\* A step of Start keeps everything.
LEMMA StartHolds == ASSUME IInv, NEW r \in Requests, Start(r) PROVE Holds
<1>1. PICK kind \in Kinds, t \in Targets :
          Becomes(r, [Idle EXCEPT !.kind = kind, !.at = t,
                                  !.pc  = IF kind = "reset" THEN "reset" ELSE "read",
                                  !.why = IF kind \in {"peek", "reset"} THEN "peek" ELSE "admit"])
    BY DEF Start
<1> DEFINE q == [Idle EXCEPT !.kind = kind, !.at = t,
                             !.pc  = IF kind = "reset" THEN "reset" ELSE "read",
                             !.why = IF kind \in {"peek", "reset"} THEN "peek" ELSE "admit"]
<1>2. req[r].pc = "idle" /\ Becomes(r, q) /\ UNCHANGED <<breaker, canary, cut, faults>>
    BY <1>1 DEF Start, At
<1>3. t \in 0 .. NProviders
    BY DEF Targets, Providers, Index
<1>4. /\ q.pc \in {"reset", "read"} /\ q.token = FALSE /\ q.source = 0
      /\ q.why \in {"peek", "admit"} /\ q.at = t
    BY DEF Idle
<1>5. q \in Request
    BY <1>3, IdleGood DEF Request, Places
<1>6. Good(q) /\ ~Probe1(q)
    BY <1>4 DEF Good, Reads, Probe1
<1>7. ~req[r].token /\ Keeps(req[r], q)
    BY <1>2, Own DEF Good, Keeps
<1> HIDE DEF q
<1>8. QED
    BY <1>2, <1>5, <1>6, <1>7, Silent DEF Witness, Tripping

\* A request without a token goes on to the next provider, or ends.
LEMMA DepartHolds ==
    ASSUME IInv, NEW r \in Requests, req[r].pc \in {"canary", "build"}, ~req[r].token,
           Becomes(r, Leave(req[r])), UNCHANGED <<breaker, canary, cut, faults>>
    PROVE  Holds
<1> DEFINE q == Leave(req[r])
<1>1. q \in Request /\ Good(q) /\ q.pc \in {"idle", "read"} /\ Keeps(req[r], q)
    BY Own, LeaveGood
<1>2. ~Probe1(q)
    BY <1>1 DEF Probe1
<1> HIDE DEF q
<1>3. Becomes(r, q)
    BY DEF q
<1>4. QED
    BY <1>1, <1>2, <1>3, Silent DEF Witness, Tripping

\* A step of TryCanary keeps everything.
LEMMA TryCanaryHolds == ASSUME IInv, NEW r \in Requests, TryCanary(r) PROVE Holds
<1>0. req[r].pc = "canary" /\ T(r) = req[r].at /\ req[r].at \in Targets /\ ~req[r].token
    BY Own DEF TryCanary, At, T, Good
<1>1. CASE canary[T(r)] # Nobody
    BY <1>0, <1>1, DepartHolds DEF TryCanary
<1>2. CASE canary[T(r)] = Nobody
    <2> DEFINE q == [req[r] EXCEPT !.pc = "build", !.token = TRUE]
    <2>1. PICK u \in Targets : u = req[r].at
        BY <1>0
    <2>2. /\ canary' = [canary EXCEPT ![u] = r] /\ Becomes(r, q) /\ canary[u] = Nobody
          /\ UNCHANGED <<breaker, cut, faults>>
        BY <1>0, <1>2, <2>1 DEF TryCanary
    <2>3. q \in Request /\ q.token /\ q.at = u /\ q.pc = "build" /\ q.source = req[r].source
        BY <2>1, Own DEF Request, Places
    <2>4. q.why = "admit"
        BY <1>0, Own DEF Good, Request
    <2> HIDE DEF q
    <2>5. Good(q) /\ Keeps(req[r], q)
        BY <1>0, <2>1, <2>3, <2>4, Own DEF Good, Reads, Keeps
    <2>6. /\ req' \in [Requests -> Request] /\ req'[r] = q
          /\ \A s \in Requests : s # r => req'[s] = req[s]
        BY <2>2, <2>3 DEF Becomes, IInv, TypeOK
    <2>7. Requesting' /\ Kept
        BY <2>3, <2>5, <2>6 DEF IInv, Requesting, Kept, Keeps
    <2>8. NoLeak'
        <3> SUFFICES ASSUME NEW s \in Requests, NEW t \in Targets, canary'[t] = s
                     PROVE  req'[s].token /\ req'[s].at = t
            BY DEF NoLeak, T
        <3>1. CASE t = u
            BY <2>2, <2>3, <2>6, <3>1 DEF IInv, TypeOK
        <3>2. CASE t # u
            BY <1>0, <2>2, <2>6, <3>2 DEF IInv, TypeOK, CanaryInv, NoLeak, T
        <3>3. QED
            BY <3>1, <3>2
    <2>9. Alone'
        <3> SUFFICES ASSUME NEW s \in Requests, Probe1(req'[s]) PROVE canary'[req'[s].at] = s
            BY DEF Alone
        <3>1. CASE s = r
            BY <2>2, <2>3, <2>6, <3>1 DEF IInv, TypeOK
        <3>2. CASE s # r
            <4>1. canary[req[s].at] = s /\ req[s].at \in Targets /\ req'[s] = req[s]
                BY <2>6, <3>2 DEF IInv, CanaryInv, Alone, Requesting, Good, Probe1
            <4>2. QED
                BY <2>2, <4>1, FailoverAssumption DEF IInv, TypeOK
        <3>3. QED
            BY <3>1, <3>2
    <2>10. TypeOK'
        BY <2>2, <2>6 DEF IInv, TypeOK, breaker
    <2>11. FailuresTrip'
        BY <1>0, <2>2, TripKept DEF IInv, TypeOK, breaker, Witness, Tripping
    <2>12. QED
        BY <2>7, <2>8, <2>9, <2>10, <2>11 DEF Holds, IInv, CanaryInv
<1>3. QED
    BY <1>1, <1>2

\* A step of BuildFails keeps everything.
LEMMA BuildFailsHolds == ASSUME IInv, NEW r \in Requests, BuildFails(r) PROVE Holds
<1>0. req[r].pc = "build" /\ UNCHANGED <<breaker, canary, cut, faults>>
    BY DEF BuildFails, At
<1>1. CASE ~req[r].token
    BY <1>0, <1>1, DepartHolds DEF BuildFails
<1>2. CASE req[r].token
    <2> DEFINE q == [req[r] EXCEPT !.pc = "release"]
    <2>1. /\ q \in Request /\ q.token = req[r].token /\ q.at = req[r].at
          /\ q.pc = "release" /\ q.why = req[r].why /\ q.source = req[r].source
        BY Own DEF Request, Places
    <2>2. Becomes(r, q)
        BY <1>2 DEF BuildFails
    <2> HIDE DEF q
    <2>3. Good(q) /\ Keeps(req[r], q) /\ ~Probe1(q)
        BY <1>0, <2>1, Own DEF Good, Reads, Keeps, Probe1
    <2>4. QED
        BY <1>0, <2>1, <2>2, <2>3, Silent DEF Witness, Tripping
<1>3. QED
    BY <1>1, <1>2

\* A step of Release keeps everything.
LEMMA ReleaseHolds == ASSUME IInv, NEW r \in Requests, Release(r) PROVE Holds
<1> DEFINE q == Leave(req[r])
<1>0. req[r].pc = "release" /\ T(r) = req[r].at /\ req[r].at \in Targets
    BY Own DEF Release, At, T, Good
<1>1. q \in Request /\ Good(q) /\ q.pc \in {"idle", "read"} /\ Keeps(req[r], q)
    BY <1>0, Own, LeaveGood
<1>2. ~Probe1(q)
    BY <1>1 DEF Probe1
<1>3. Becomes(r, q) /\ UNCHANGED <<breaker, cut, faults>>
    BY DEF Release
<1> HIDE DEF q
<1>4. PICK u \in Targets : u = req[r].at
    BY <1>0
<1>5. canary' = [canary EXCEPT ![u] = IF canary[u] = r THEN Nobody ELSE canary[u]]
    BY <1>0, <1>4 DEF Release
<1>6. \A t \in Targets : canary[t] = r => t = u
    BY <1>4 DEF IInv, CanaryInv, NoLeak, T
<1>7. /\ canary' \in [Targets -> Requests \cup {Nobody, Orphan}]
      /\ \A t \in Targets : canary[t] = r => canary'[t] \in {Nobody, Orphan}
      /\ \A t \in Targets : canary[t] # r => canary'[t] = canary[t]
    BY <1>5, <1>6 DEF IInv, TypeOK
<1>8. req' \in [Requests -> Request] /\ Requesting' /\ CanaryInv' /\ Kept
    BY <1>1, <1>2, <1>3, <1>7, Part DEF IInv, TypeOK
<1>9. FailuresTrip'
    BY <1>0, <1>3, TripKept DEF IInv, TypeOK, breaker, Witness, Tripping
<1>10. QED
    BY <1>3, <1>7, <1>8, <1>9 DEF Holds, IInv, TypeOK, breaker

\* A step of Count keeps everything.
LEMMA CountHolds == ASSUME IInv, NEW r \in Requests, Count(r) PROVE Holds
<1>0. req[r].pc = "count" /\ T(r) = req[r].at /\ req[r].at \in Targets
    BY Own DEF Count, At, T, Good
<1>1. PICK u \in Targets : u = req[r].at
    BY <1>0
<1> DEFINE n == Incremented(failures[u], FailureThreshold)
<1>2. /\ failures' = [failures EXCEPT ![u] = n]
      /\ UNCHANGED <<circuit, cooldown, timed, probes, canary, cut, faults>>
    BY <1>0, <1>1 DEF Count
<1>3. /\ n \in 1 .. FailureThreshold /\ failures[u] \in 0 .. FailureThreshold
      /\ failures[u] = 0 => n < FailureThreshold
      /\ failures'[u] = n
    BY <1>2 DEF IInv, TypeOK, Incremented
<1> HIDE DEF n
<1>4. \/ failures[u] = 0 /\ Goes(r, "expire")
      \/ failures[u] # 0 /\ n = FailureThreshold /\ Goes(r, "open")
      \/ failures[u] # 0 /\ n # FailureThreshold /\ Becomes(r, Recorded(req[r]))
    BY <1>0, <1>1, <1>3 DEF Count
<1>5. req' \in [Requests -> Request] /\ Requesting' /\ CanaryInv' /\ Kept
    <2>1. CASE Goes(r, "expire")
        BY <1>0, <1>2, <2>1, Continues DEF Reads
    <2>2. CASE Goes(r, "open")
        BY <1>0, <1>2, <2>2, Continues DEF Reads
    <2>3. CASE Becomes(r, Recorded(req[r]))
        BY <1>0, <1>2, <2>3, Records
    <2>4. QED
        BY <1>4, <2>1, <2>2, <2>3
<1>6. TypeOK'
    BY <1>2, <1>3, <1>5 DEF IInv, TypeOK
<1>7. \A t \in Targets \ {u} : circuit'[t] = circuit[t] /\ failures'[t] = failures[t]
                            /\ timed'[t] = timed[t]
    BY <1>2 DEF IInv, TypeOK
<1>8. FailuresTrip'
    <2>1. CASE failures[u] = 0 /\ Goes(r, "expire")
        <3> DEFINE q == [req[r] EXCEPT !.pc = "expire"]
        <3>1. Becomes(r, q) /\ q.at = u /\ q.pc = "expire"
            BY <1>1, <2>1, Own DEF Goes, Request
        <3> HIDE DEF q
        <3>2. QED
            BY <1>1, <1>2, <1>3, <1>7, <2>1, <3>1, TripThere DEF IInv, TypeOK
    <2>2. CASE failures[u] # 0 /\ n = FailureThreshold /\ Goes(r, "open")
        <3> DEFINE q == [req[r] EXCEPT !.pc = "open"]
        <3>1. Becomes(r, q) /\ q.at = u /\ q.pc \in Tripping
            BY <1>1, <2>2, Own DEF Goes, Request, Tripping
        <3> HIDE DEF q
        <3>2. QED
            BY <1>0, <1>1, <1>2, <1>3, <1>7, <2>2, <3>1, TripThere DEF IInv, TypeOK
    <2>3. CASE failures[u] # 0 /\ n # FailureThreshold /\ Becomes(r, Recorded(req[r]))
        BY <1>0, <1>1, <1>2, <1>3, <1>7, <2>3, TripThere DEF IInv, TypeOK
    <2>4. QED
        BY <1>4, <2>1, <2>2, <2>3
<1>9. QED
    BY <1>5, <1>6, <1>8 DEF Holds, IInv

\* A step of Probe keeps everything.
LEMMA ProbeHolds == ASSUME IInv, NEW r \in Requests, Probe(r) PROVE Holds
<1>0. req[r].pc = "probe" /\ T(r) = req[r].at /\ req[r].at \in Targets
    BY Own DEF Probe, At, T, Good
<1>1. UNCHANGED <<circuit, cooldown, failures, timed, canary, cut, faults>>
    BY DEF Probe
<1>2. Goes(r, "close") \/ Becomes(r, Recorded(req[r]))
    BY DEF Probe
<1>3. req' \in [Requests -> Request] /\ Requesting' /\ CanaryInv' /\ Kept
    <2>1. CASE Goes(r, "close")
        BY <1>0, <1>1, <2>1, Continues DEF Reads
    <2>2. CASE Becomes(r, Recorded(req[r]))
        BY <1>0, <1>1, <2>2, Records
    <2>3. QED
        BY <1>2, <2>1, <2>2
<1>4. Incremented(probes[T(r)], RecoveryThreshold) \in 0 .. RecoveryThreshold
    BY <1>0 DEF IInv, TypeOK, Incremented
<1>5. TypeOK'
    BY <1>0, <1>1, <1>3, <1>4 DEF IInv, TypeOK, Probe
<1>6. \E q : Becomes(r, q)
    BY <1>2 DEF Goes
<1>7. FailuresTrip'
    BY <1>0, <1>1, <1>6, TripKept DEF IInv, TypeOK, Witness, Tripping
<1>8. QED
    BY <1>3, <1>5, <1>7 DEF Holds, IInv

\* A step of ResetState keeps everything.
LEMMA ResetStateHolds == ASSUME IInv, NEW r \in Requests, ResetState(r) PROVE Holds
<1> DEFINE q == [req[r] EXCEPT !.pc = "wipe"]
<1>0. req[r].pc = "reset" /\ T(r) = req[r].at /\ req[r].at \in Targets
    BY Own DEF ResetState, At, T, Good
<1>1. PICK u \in Targets : u = req[r].at
    BY <1>0
<1>2. /\ circuit' = [circuit EXCEPT ![u] = "CLOSED"] /\ Becomes(r, q)
      /\ UNCHANGED <<cooldown, failures, timed, probes, canary, cut, faults>>
    BY <1>0, <1>1 DEF ResetState, Goes
<1>3. /\ q \in Request /\ q.token = req[r].token /\ q.at = req[r].at
      /\ q.pc = "wipe" /\ q.why = req[r].why /\ q.source = req[r].source
    BY Own DEF Request, Places
<1> HIDE DEF q
<1>4. Good(q) /\ Keeps(req[r], q) /\ ~Probe1(q)
    BY <1>0, <1>3, Own DEF Good, Reads, Keeps, Probe1
<1>5. req' \in [Requests -> Request] /\ Requesting' /\ CanaryInv' /\ Kept
    BY <1>2, <1>3, <1>4, Move DEF IInv, TypeOK
<1>6. TypeOK'
    BY <1>2, <1>5 DEF IInv, TypeOK, States
<1>7. FailuresTrip'
    <2>1. q.at = u /\ q.pc \in Tripping
        BY <1>1, <1>3 DEF Tripping
    <2>2. QED
        BY <1>0, <1>1, <1>2, <2>1, TripThere DEF IInv, TypeOK
<1>8. QED
    BY <1>5, <1>6, <1>7 DEF Holds, IInv

\* A step of Wipe keeps everything.
LEMMA WipeHolds == ASSUME IInv, NEW r \in Requests, Wipe(r) PROVE Holds
<1>0. req[r].pc = "wipe" /\ T(r) = req[r].at /\ req[r].at \in Targets /\ ~req[r].token
    BY Own DEF Wipe, At, T, Good
<1>1. PICK u \in Targets : u = req[r].at
    BY <1>0
<1>2. /\ canary' = [canary EXCEPT ![u] = Nobody] /\ req' = [LapsedAt(u) EXCEPT ![r] = Idle]
      /\ CountersGone(u) /\ cooldown' = [cooldown EXCEPT ![u] = FALSE]
      /\ UNCHANGED <<circuit, faults>>
    BY <1>0, <1>1 DEF Wipe
<1>3. /\ req' \in [Requests -> Request] /\ req'[r] = Idle
      /\ \A s \in Requests : s # r => req'[s] = LapsedAt(u)[s]
    <2>1. LapsedAt(u) \in [Requests -> Request]
        BY LapsedTypes DEF IInv, TypeOK
    <2>2. QED
        BY <1>2, <2>1, IdleGood
<1>4. req' \in [Requests -> Request] /\ Requesting' /\ CanaryInv' /\ Kept
    <2>1. Told(u)
        <3> SUFFICES ASSUME NEW s \in Requests
                     PROVE  req'[s] = LapsedAt(u)[s] \/ (req'[s] = Idle /\ ~req[s].token)
            BY DEF Told
        <3>1. CASE s = r
            BY <1>0, <1>3, <3>1
        <3>2. CASE s # r
            BY <1>3, <3>2
        <3>3. QED
            BY <3>1, <3>2
    <2>2. Requesting /\ CanaryInv /\ req \in [Requests -> Request]
          /\ canary \in [Targets -> Requests \cup {Nobody, Orphan}]
        BY DEF IInv, TypeOK
    <2>3. Unlock(u) /\ req' \in [Requests -> Request]
        BY <1>2, <1>3 DEF Unlock
    <2>4. QED
        BY <1>3, <2>1, <2>2, <2>3, Lapse
<1>5. TypeOK'
    BY <1>2, <1>4, ThresholdTypes DEF IInv, TypeOK, CountersGone
<1>6. FailuresTrip'
    <2>1. \A s \in Requests : s # r => req'[s].pc = req[s].pc /\ req'[s].at = req[s].at
        BY <1>3 DEF LapsedAt, IInv, Requesting, Request
    <2>2. /\ failures'[u] = 0 /\ cut' = cut \ {u}
          /\ \A t \in Targets \ {u} : circuit'[t] = circuit[t] /\ failures'[t] = failures[t]
                                    /\ timed'[t] = timed[t]
        BY <1>2 DEF IInv, TypeOK, CountersGone
    <2> SUFFICES ASSUME NEW t \in Targets, t \notin cut' PROVE TripAt(t)'
        BY TripByTargetNext
    <2>3. CASE t = u
        BY <2>2, <2>3 DEF TripAt
    <2>4. CASE t # u
        BY <1>1, <2>1, <2>2, <2>4, TripElsewhere, TripByTarget DEF IInv, TypeOK
    <2>5. QED
        BY <2>3, <2>4
<1>7. QED
    BY <1>4, <1>5, <1>6 DEF Holds, IInv

--------------------------------------------------------------------------------
(* Expiries and faults *)

\* A step of CooldownExpires keeps everything.
LEMMA CooldownExpiresHolds == ASSUME IInv, NEW t \in Targets, CooldownExpires(t) PROVE Holds
<1>1. UNCHANGED <<circuit, failures, timed, probes, canary, req, cut, faults>>
    BY DEF CooldownExpires
<1>2. TypeOK'
    BY <1>1 DEF IInv, TypeOK, CooldownExpires
<1>3. Requesting' /\ CanaryInv' /\ Kept
    BY <1>1 DEF IInv, Requesting, CanaryInv, NoLeak, Alone, Kept, Keeps, T
<1>4. FailuresTrip'
    BY <1>1 DEF IInv, FailuresTrip, T
<1>5. QED
    BY <1>2, <1>3, <1>4 DEF Holds, IInv

\* A step of CountExpires keeps everything.
LEMMA CountExpiresHolds == ASSUME IInv, NEW t \in Targets, CountExpires(t) PROVE Holds
<1>1. UNCHANGED <<circuit, cooldown, probes, canary, req, cut, faults>>
    BY DEF CountExpires
<1>2. TypeOK'
    BY <1>1, ThresholdTypes DEF IInv, TypeOK, CountExpires
<1>3. Requesting' /\ CanaryInv' /\ Kept
    BY <1>1 DEF IInv, Requesting, CanaryInv, NoLeak, Alone, Kept, Keeps, T
<1>4. FailuresTrip'
    <2> SUFFICES ASSUME NEW u \in Targets, u \notin cut' PROVE TripAt(u)'
        BY TripByTargetNext
    <2>1. CASE u = t
        BY <2>1 DEF CountExpires, TripAt, IInv, TypeOK
    <2>2. CASE u # t
        <3>1. TripAt(u) /\ failures'[u] = failures[u] /\ timed'[u] = timed[u]
            BY <1>1, <2>2, TripByTarget DEF CountExpires, IInv, TypeOK
        <3>2. QED
            BY <1>1, <3>1 DEF TripAt, Due, Untimed
    <2>3. QED
        BY <2>1, <2>2
<1>5. QED
    BY <1>2, <1>3, <1>4 DEF Holds, IInv

\* A step of CanaryExpires keeps everything.
LEMMA CanaryExpiresHolds == ASSUME IInv, NEW t \in Targets, CanaryExpires(t) PROVE Holds
<1>1. Unlock(t) /\ req' = LapsedAt(t) /\ UNCHANGED <<breaker, cut, faults>>
    BY DEF CanaryExpires, Unlock
<1>2. req' \in [Requests -> Request]
    BY <1>1, LapsedTypes DEF IInv, TypeOK
<1>3. Told(t)
    BY <1>1 DEF Told
<1>4. Requesting' /\ CanaryInv' /\ Kept
    BY <1>1, <1>2, <1>3, Lapse DEF IInv, TypeOK
<1>5. TypeOK'
    BY <1>1, <1>2 DEF IInv, TypeOK, Unlock, breaker
<1>6. FailuresTrip'
    <2>1. \A s \in Requests : req'[s].pc = req[s].pc /\ req'[s].at = req[s].at
        BY <1>1 DEF LapsedAt, IInv, Requesting, Request
    <2> SUFFICES ASSUME NEW u \in Targets, u \notin cut PROVE TripAt(u)'
        BY <1>1, TripByTargetNext
    <2>2. TripAt(u)
        BY TripByTarget DEF IInv
    <2>3. QED
        BY <1>1, <2>1, <2>2 DEF TripAt, Due, Untimed, breaker
<1>7. QED
    BY <1>4, <1>5, <1>6 DEF Holds, IInv

\* What a fault cuts short is marked, if it was half written.
LEMMA FaultHolds ==
    ASSUME IInv, NEW r \in Requests, NEW q, Becomes(r, q), req[r].pc # "idle",
           Inject, cut' = CutAt(r), UNCHANGED breaker,
           canary' \in [Targets -> Requests \cup {Nobody, Orphan}],
           req' \in [Requests -> Request], Requesting', CanaryInv', Kept
    PROVE  Holds
<1>1. req[r].at \in Targets
    BY Own DEF Good
<1>2. /\ cut' \in SUBSET Targets /\ cut \subseteq cut'
      /\ req[r].pc \in Witness => req[r].at \in cut'
    BY <1>1 DEF CutAt, HalfWritten, T, Witness, Tripping, IInv, TypeOK
<1>3. faults' \in 0 .. MaxFaults
    BY DEF Inject, IInv, TypeOK
<1>4. TypeOK'
    BY <1>2, <1>3 DEF IInv, TypeOK, breaker
<1>5. FailuresTrip'
    BY <1>2, TripKept DEF IInv, TypeOK, breaker
<1>6. QED
    BY <1>4, <1>5 DEF Holds, IInv

\* A request that is cut off leaves its lock, if it has one, to nobody who runs.
LEMMA AbandonedLock ==
    ASSUME IInv, NEW r \in Requests
    PROVE  LET c == Abandoned(r) IN
           /\ c \in [Targets -> Requests \cup {Nobody, Orphan}]
           /\ \A t \in Targets : canary[t] = r => c[t] \in {Nobody, Orphan}
           /\ \A t \in Targets : canary[t] # r => c[t] = canary[t]
BY DEF Abandoned, IInv, TypeOK

\* A step of Cancel keeps everything.
LEMMA CancelHolds == ASSUME IInv, NEW r \in Requests, Cancel(r) PROVE Holds
<1>1. /\ Inject /\ req[r].pc # "idle" /\ cut' = CutAt(r) /\ canary' = Abandoned(r)
      /\ Becomes(r, Idle) /\ UNCHANGED breaker
    BY DEF Cancel, At
<1>2. Idle \in Request /\ Good(Idle) /\ Keeps(req[r], Idle) /\ ~Probe1(Idle)
    BY IdleGood DEF Keeps, Probe1, Idle
<1>3. req' \in [Requests -> Request] /\ Requesting' /\ CanaryInv' /\ Kept
    BY <1>1, <1>2, AbandonedLock, Part DEF IInv, TypeOK
<1>4. QED
    BY <1>1, <1>3, AbandonedLock, FaultHolds

\* A step of RedisFails keeps everything.
LEMMA RedisFailsHolds == ASSUME IInv, NEW r \in Requests, RedisFails(r) PROVE Holds
<1>0. Inject /\ cut' = CutAt(r) /\ UNCHANGED breaker
    BY DEF RedisFails
<1>1. CASE /\ req[r].pc \in Reads
           /\ Becomes(r, Checked(req[r], "CLOSED")) /\ UNCHANGED canary
    <2>1. req' \in [Requests -> Request] /\ Requesting' /\ CanaryInv' /\ Kept
        BY <1>1, Decides DEF States
    <2>2. QED
        BY <1>0, <1>1, <2>1, FaultHolds DEF IInv, TypeOK, Reads
<1> DEFINE q == Leave(req[r])
<1>2. req[r].pc # "idle" => /\ q \in Request /\ Good(q) /\ q.pc \in {"idle", "read"}
                            /\ Keeps(req[r], q) /\ ~Probe1(q)
    BY Own, LeaveGood DEF Probe1
<1>3. CASE At(r, "canary") /\ Becomes(r, q)
           /\ (UNCHANGED canary
                \/ (canary[T(r)] = Nobody /\ canary' = [canary EXCEPT ![T(r)] = Orphan]))
    <2> HIDE DEF q
    <2>1. req[r].pc = "canary" /\ ~req[r].token
        BY <1>3, Own DEF At, Good
    <2>2. \A t \in Targets : canary[t] # r
        BY <2>1 DEF IInv, CanaryInv, NoLeak
    <2>3. /\ canary' \in [Targets -> Requests \cup {Nobody, Orphan}]
          /\ \A t \in Targets : canary'[t] = canary[t] \/ (canary[t] = Nobody /\ canary'[t] = Orphan)
        BY <1>3 DEF IInv, TypeOK
    <2>4. req' \in [Requests -> Request] /\ Requesting' /\ CanaryInv' /\ Kept
        BY <1>2, <1>3, <2>1, <2>2, <2>3, Part DEF IInv, TypeOK
    <2>5. QED
        BY <1>0, <1>3, <2>1, <2>3, <2>4, FaultHolds
<1>4. CASE /\ req[r].pc \in {"count", "expire", "open", "cool", "probe", "close", "clear", "forget"}
           /\ Becomes(r, Recorded(req[r])) /\ UNCHANGED canary
    <2>1. req' \in [Requests -> Request] /\ Requesting' /\ CanaryInv' /\ Kept
        BY <1>4, Records
    <2>2. QED
        BY <1>0, <1>4, <2>1, FaultHolds DEF IInv, TypeOK
<1>5. CASE At(r, "release") /\ Becomes(r, q) /\ canary' = Abandoned(r)
    <2> HIDE DEF q
    <2>1. req[r].pc = "release"
        BY <1>5 DEF At
    <2>2. req' \in [Requests -> Request] /\ Requesting' /\ CanaryInv' /\ Kept
        BY <1>2, <1>5, <2>1, AbandonedLock, Part DEF IInv, TypeOK
    <2>3. QED
        BY <1>0, <1>5, <2>1, <2>2, AbandonedLock, FaultHolds
<1>6. CASE req[r].pc \in {"reset", "wipe"} /\ Becomes(r, Idle) /\ UNCHANGED canary
    <2>1. ~req[r].token /\ Idle \in Request /\ Good(Idle) /\ Keeps(req[r], Idle) /\ ~Probe1(Idle)
        BY <1>6, Own, IdleGood DEF Good, Keeps, Probe1, Idle
    <2>2. req' \in [Requests -> Request] /\ Requesting' /\ CanaryInv' /\ Kept
        BY <1>6, <2>1, Move DEF IInv, TypeOK
    <2>3. QED
        BY <1>0, <1>6, <2>2, FaultHolds DEF IInv, TypeOK
<1> HIDE DEF q
<1>7. QED
    BY <1>1, <1>3, <1>4, <1>5, <1>6 DEF RedisFails, Reads, q

--------------------------------------------------------------------------------
\* A step of Progress keeps everything.
LEMMA ProgressHolds == ASSUME IInv, NEW r \in Requests, Progress(r) PROVE Holds
BY ReadStateHolds, ReadCooldownHolds, DecayHolds, UnprobeHolds, TryCanaryHolds, BuildHolds,
   BuildFailsHolds, ReleaseHolds, YieldHolds, SucceedHolds, RetryHolds, FailHolds, CountHolds,
   ExpireCountHolds, TripHolds, CoolHolds, ProbeHolds, CloseHolds, ClearHolds, ForgetHolds,
   ResetStateHolds, WipeHolds
   DEF Progress

\* Nothing has happened yet.
LEMMA Initially == Init => IInv
<1> SUFFICES ASSUME Init PROVE IInv
    OBVIOUS
<1>1. TypeOK
    BY ThresholdTypes, IdleGood DEF Init, TypeOK, States
<1>2. Requesting
    BY IdleGood DEF Init, Requesting
<1>3. CanaryInv
    BY FailoverAssumption DEF Init, CanaryInv, NoLeak, Alone, Probe1, Idle, T
<1>4. FailuresTrip
    BY DEF Init, FailuresTrip
<1>5. QED
    BY <1>1, <1>2, <1>3, <1>4 DEF IInv

\* Every step keeps everything.
LEMMA Preserved == IInv /\ [Next]_vars => Holds
<1> SUFFICES ASSUME IInv, [Next]_vars PROVE Holds
    OBVIOUS
<1>1. ASSUME NEW r \in Requests, Start(r) \/ Progress(r) \/ RedisFails(r) \/ Cancel(r)
      PROVE  Holds
    BY <1>1, StartHolds, ProgressHolds, RedisFailsHolds, CancelHolds
<1>2. ASSUME NEW t \in Targets, Expires(t) PROVE Holds
    BY <1>2, CooldownExpiresHolds, CountExpiresHolds, CanaryExpiresHolds DEF Expires
<1>3. CASE UNCHANGED vars
    BY <1>3 DEF vars, Holds, IInv, TypeOK, Requesting, CanaryInv, NoLeak, Alone,
                FailuresTrip, Kept, Keeps, T
<1>4. QED
    BY <1>1, <1>2, <1>3 DEF Next

\* Everything below holds of every reachable state.
THEOREM Invariance == Spec => []IInv
<1>1. IInv /\ [Next]_vars => IInv'
    BY Preserved DEF Holds
<1>2. QED
    BY Initially, <1>1, PTL DEF Spec

\* Counters, locks and requests stay in their types, saturated counters included.
THEOREM TypeCorrect == Spec => []TypeOK
BY Invariance, PTL DEF IInv

\* A lock names a request that still holds it, through every fault.
THEOREM LocksAreHeld == Spec => []NoLeak
BY Invariance, PTL DEF IInv, CanaryInv

\* One probe at a time, while its lock lives.
THEOREM OneProbe == Spec => []CanaryIsAlone
<1>1. IInv => CanaryIsAlone
    BY DEF IInv, CanaryInv, Alone, CanaryIsAlone, Probing, Probe1, T
<1>2. QED
    BY Invariance, <1>1, PTL

\* A threshold reached is acted upon, by the request that reached it or by one that clears.
THEOREM ThresholdsTrip == Spec => []FailuresTrip
BY Invariance, PTL DEF IInv

\* The text of one stream is one provider's.
THEOREM OneSource == Spec => NoStitching
<1>1. IInv /\ [Next]_vars =>
        [\A r \in Requests : req[r].source # 0 => req'[r].source \in {req[r].source, 0}
                                             /\ (req'[r].source = 0 => req'[r] = Idle)]_vars
    <2> SUFFICES ASSUME IInv, [Next]_vars, NEW r \in Requests, req[r].source # 0
                 PROVE  /\ req'[r].source \in {req[r].source, 0}
                        /\ req'[r].source = 0 => req'[r] = Idle
        OBVIOUS
    <2>1. req'[r].source = req[r].source \/ req'[r] = Idle
        BY Preserved DEF Holds, Kept, Keeps
    <2>2. Idle.source = 0
        BY DEF Idle
    <2>3. QED
        BY <2>1, <2>2
<1>2. QED
    BY Invariance, <1>1, PTL DEF Spec, NoStitching
================================================================================
