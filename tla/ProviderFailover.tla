---------------------------- MODULE ProviderFailover ----------------------------
(***************************************************************************)
(* Calls of language models and of the search index behind circuit         *)
(* breakers: CircuitBreakerEngine (modules/reliability/circuit_breaker),   *)
(* LLMProviderManager (ai/manager.py), which tries its providers in order  *)
(* of priority, and ReliabilityGateway, which guards the search index.     *)
(* A breaker is a handful of Redis keys; every command is a step of its    *)
(* own, and any other request may act between two of them.                 *)
(***************************************************************************)
EXTENDS Naturals

CONSTANTS
    Requests,           \* requests in flight at a time; an identity is used again
    NProviders,         \* length of the priority list
    Kinds,              \* which of the six kinds of request occur
    FailureThreshold,   \* failures that trip a breaker
    RecoveryThreshold,  \* probes that close it
    MaxRetries,         \* retries of one call on one provider
    MaxFaults,          \* Redis errors and cancelled requests
    Nobody, Orphan      \* no canary; a canary lock whose owner is gone

ASSUME FailoverAssumption ==
    /\ NProviders \in Nat \ {0}
    /\ FailureThreshold \in Nat \ {0, 1}
    /\ RecoveryThreshold \in Nat \ {0}
    /\ MaxRetries \in Nat /\ MaxFaults \in Nat
    /\ Nobody \notin Requests /\ Orphan \notin Requests /\ Nobody # Orphan

VARIABLES
    circuit,    \* the state key of each target; an absent key reads as CLOSED
    cooldown,   \* whether the cooldown key is there
    failures,   \* the failure counter, saturated at the threshold
    timed,      \* whether the counter has a time to live
    probes,     \* successful probes, saturated at the threshold
    canary,     \* whose token the canary lock holds
    req,        \* the requests
    cut,        \* targets where a fault left the keys of a trip or reset half written
    faults

vars == <<circuit, cooldown, failures, timed, probes, canary, req, cut, faults>>

Index     == 0                      \* the search index, the gateway's target
Providers == 1 .. NProviders        \* the priority list
Targets   == Providers \cup (IF "search" \in Kinds THEN {Index} ELSE {})
States    == {"CLOSED", "OPEN", "HALF_OPEN"}

Places == {"idle", "read", "cooldown", "decay", "unprobe",          \* check_state
           "canary", "build", "call", "release",                    \* the manager
           "count", "expire", "open", "cool",                       \* record_failure
           "probe", "close", "clear", "forget",                     \* record_success
           "reset", "wipe"}                                         \* force_reset

\* why: what the state is read for. admitted: the state the request was let in with.
\* token: it owns a canary token; lapsed: the lock went away under it.
\* source: the provider whose text the client has received, if any (0: none).
Request ==
    [pc : Places, kind : Kinds \cup {"none"}, at : 0 .. NProviders,
     why : {"admit", "failure", "success", "peek"}, admitted : States,
     token : BOOLEAN, lapsed : BOOLEAN, tries : 0 .. MaxRetries,
     source : 0 .. NProviders]

Idle ==
    [pc |-> "idle", kind |-> "none", at |-> Index, why |-> "peek", admitted |-> "CLOSED",
     token |-> FALSE, lapsed |-> FALSE, tries |-> 0, source |-> 0]

Init ==
    /\ circuit  = [t \in Targets |-> "CLOSED"]
    /\ cooldown = [t \in Targets |-> FALSE]
    /\ failures = [t \in Targets |-> 0]
    /\ timed    = [t \in Targets |-> FALSE]
    /\ probes   = [t \in Targets |-> 0]
    /\ canary   = [t \in Targets |-> Nobody]
    /\ req      = [r \in Requests |-> Idle]
    /\ cut = {} /\ faults = 0

breaker == <<circuit, cooldown, failures, timed, probes>>

At(r, place)  == req[r].pc = place
T(r)          == req[r].at
Becomes(r, q) == req' = [req EXCEPT ![r] = q]
Goes(r, place) == Becomes(r, [req[r] EXCEPT !.pc = place])

\* Bug seeded for TypeOK: a count without end.
IncrementedOn(n, top) == n + 1

\* min(n + 1, top): nothing distinguishes counts above the threshold.
Incremented(n, top) == IF n < top THEN n + 1 ELSE top

--------------------------------------------------------------------------------
\* Where a request goes from one provider: to the next of the list, or to its end.
Next1(q) ==
    [q EXCEPT !.pc = "read", !.why = "admit", !.at = q.at + 1, !.admitted = "CLOSED",
              !.token = FALSE, !.lapsed = FALSE, !.tries = 0]

\* An answer ends the request, and so does an error after the first chunk of a stream.
Over(q) == q.why = "success" \/ q.source = q.at

\* Bug seeded for NoStitching: a stream that broke off is continued elsewhere.
LeaveForNext(q) ==
    IF q.kind \in {"generate", "stream"} /\ q.at < NProviders /\ q.why # "success"
    THEN Next1(q) ELSE Idle

Leave(q) ==
    IF q.kind \in {"generate", "stream"} /\ q.at < NProviders /\ ~Over(q)
    THEN Next1(q) ELSE Idle

\* After record_failure or record_success: the canary is given back first; a search that
\* probed looks once more at the state, for the event log.
Recorded(q) ==
    CASE q.token -> [q EXCEPT !.pc = "release"]
      [] ~q.token /\ q.kind = "search" /\ q.why = "success" /\ q.admitted = "HALF_OPEN" ->
            [q EXCEPT !.pc = "read", !.why = "peek"]
      [] OTHER -> Leave(q)

\* What a request does with the answer s of check_state.
Admitted(q, s) ==
    CASE s = "OPEN" -> Leave(q)
      [] s = "HALF_OPEN" /\ q.kind # "search" -> [q EXCEPT !.pc = "canary", !.admitted = s]
      [] s # "OPEN" /\ q.kind = "search" -> [q EXCEPT !.pc = "call", !.admitted = s]
      [] OTHER -> [q EXCEPT !.pc = "build", !.admitted = s]

Checked(q, s) ==
    CASE q.why = "peek" -> Idle
      [] q.why = "admit" -> Admitted(q, s)
      [] q.why = "failure" /\ s = "HALF_OPEN" -> [q EXCEPT !.pc = "open"]
      [] q.why = "failure" /\ s = "CLOSED" -> [q EXCEPT !.pc = "count"]
      [] q.why = "success" /\ s = "HALF_OPEN" -> [q EXCEPT !.pc = "probe"]
      [] q.why = "success" /\ s = "CLOSED" -> [q EXCEPT !.pc = "forget"]
      [] OTHER -> Recorded(q)

--------------------------------------------------------------------------------
(* check_state *)

ReadState(r) ==
    /\ At(r, "read")
    /\ IF circuit[T(r)] = "OPEN" THEN Goes(r, "cooldown")
       ELSE Becomes(r, Checked(req[r], circuit[T(r)]))
    /\ UNCHANGED <<breaker, canary, cut, faults>>

\* Bug seeded for Recovers: an OPEN circuit is not looked at again.
ReadCooldownNever(r) ==
    /\ At(r, "cooldown")
    /\ Becomes(r, Checked(req[r], "OPEN"))
    /\ UNCHANGED <<breaker, canary, cut, faults>>

ReadCooldown(r) ==
    /\ At(r, "cooldown")
    /\ IF cooldown[T(r)] THEN Becomes(r, Checked(req[r], "OPEN")) ELSE Goes(r, "decay")
    /\ UNCHANGED <<breaker, canary, cut, faults>>

Decay(r) ==
    /\ At(r, "decay")
    /\ circuit' = [circuit EXCEPT ![T(r)] = "HALF_OPEN"]
    /\ Goes(r, "unprobe")
    /\ UNCHANGED <<cooldown, failures, timed, probes, canary, cut, faults>>

Unprobe(r) ==
    /\ At(r, "unprobe")
    /\ probes' = [probes EXCEPT ![T(r)] = 0]
    /\ Becomes(r, Checked(req[r], "HALF_OPEN"))
    /\ UNCHANGED <<circuit, cooldown, failures, timed, canary, cut, faults>>

--------------------------------------------------------------------------------
(* LLMProviderManager.generate and .stream, ReliabilityGateway.execute_reliable_search,
   the health endpoint (peek) and the operator's reset *)

Start(r) ==
    /\ At(r, "idle")
    /\ \E kind \in Kinds, t \in Targets :
          /\ kind = "search" => t = Index
          /\ kind \in {"generate", "stream"} => t = 1
          /\ Becomes(r, [Idle EXCEPT !.kind = kind, !.at = t,
                                     !.pc  = IF kind = "reset" THEN "reset" ELSE "read",
                                     !.why = IF kind \in {"peek", "reset"} THEN "peek" ELSE "admit"])
    /\ UNCHANGED <<breaker, canary, cut, faults>>

\* Bug seeded for CanaryIsAlone: SET without NX.
TryCanaryAnyway(r) ==
    /\ At(r, "canary")
    /\ canary' = [canary EXCEPT ![T(r)] = r]
    /\ Becomes(r, [req[r] EXCEPT !.pc = "build", !.token = TRUE])
    /\ UNCHANGED <<breaker, cut, faults>>

TryCanary(r) ==
    /\ At(r, "canary")
    /\ IF canary[T(r)] = Nobody
       THEN /\ canary' = [canary EXCEPT ![T(r)] = r]
            /\ Becomes(r, [req[r] EXCEPT !.pc = "build", !.token = TRUE])
       ELSE Becomes(r, Leave(req[r])) /\ UNCHANGED canary
    /\ UNCHANGED <<breaker, cut, faults>>

Build(r) == At(r, "build") /\ Goes(r, "call") /\ UNCHANGED <<breaker, canary, cut, faults>>

\* Bug seeded for NoLeak: the registry's error leaves the canary behind.
BuildFailsLeaking(r) ==
    /\ At(r, "build")
    /\ Becomes(r, Leave(req[r]))
    /\ UNCHANGED <<breaker, canary, cut, faults>>

\* The registry has no such provider.
BuildFails(r) ==
    /\ At(r, "build")
    /\ Becomes(r, IF req[r].token THEN [req[r] EXCEPT !.pc = "release"] ELSE Leave(req[r]))
    /\ UNCHANGED <<breaker, canary, cut, faults>>

\* The first chunk of a stream reaches the client.
Yield(r) ==
    /\ At(r, "call") /\ req[r].kind = "stream" /\ req[r].source # T(r)
    /\ Becomes(r, [req[r] EXCEPT !.source = T(r)])
    /\ UNCHANGED <<breaker, canary, cut, faults>>

Succeed(r) ==
    /\ At(r, "call")
    /\ Becomes(r, [req[r] EXCEPT !.pc = "read", !.why = "success"])
    /\ UNCHANGED <<breaker, canary, cut, faults>>

\* A transient error before any chunk: the same provider is called again.
Retry(r) ==
    /\ At(r, "call") /\ req[r].kind # "search"
    /\ req[r].source # T(r) /\ req[r].tries < MaxRetries
    /\ Becomes(r, [req[r] EXCEPT !.tries = @ + 1])
    /\ UNCHANGED <<breaker, canary, cut, faults>>

\* Any other error, a timeout, or the last attempt. A stream that has sent text must end.
Fail(r) ==
    /\ At(r, "call")
    /\ Becomes(r, [req[r] EXCEPT !.pc = "read", !.why = "failure"])
    /\ UNCHANGED <<breaker, canary, cut, faults>>

Release(r) ==
    /\ At(r, "release")
    /\ canary' = [canary EXCEPT ![T(r)] = IF @ = r THEN Nobody ELSE @]
    /\ Becomes(r, Leave(req[r]))
    /\ UNCHANGED <<breaker, cut, faults>>

--------------------------------------------------------------------------------
(* record_failure *)

Count(r) ==
    /\ At(r, "count")
    /\ failures' = [failures EXCEPT ![T(r)] = Incremented(@, FailureThreshold)]
    /\ CASE failures[T(r)] = 0 -> Goes(r, "expire")
         [] failures'[T(r)] = FailureThreshold -> Goes(r, "open")
         [] OTHER -> Becomes(r, Recorded(req[r]))
    /\ UNCHANGED <<circuit, cooldown, timed, probes, canary, cut, faults>>

\* EXPIRE of a key that is gone does nothing.
ExpireCount(r) ==
    /\ At(r, "expire")
    /\ timed' = [timed EXCEPT ![T(r)] = failures[T(r)] > 0]
    /\ Becomes(r, Recorded(req[r]))
    /\ UNCHANGED <<circuit, cooldown, failures, probes, canary, cut, faults>>

\* Bug seeded for FailuresTrip: the state is set after the cooldown, by nobody.
TripForgotten(r) ==
    /\ At(r, "open")
    /\ Goes(r, "cool")
    /\ UNCHANGED <<breaker, canary, cut, faults>>

Trip(r) ==
    /\ At(r, "open")
    /\ circuit' = [circuit EXCEPT ![T(r)] = "OPEN"]
    /\ Goes(r, "cool")
    /\ UNCHANGED <<cooldown, failures, timed, probes, canary, cut, faults>>

Cool(r) ==
    /\ At(r, "cool")
    /\ cooldown' = [cooldown EXCEPT ![T(r)] = TRUE]
    /\ Becomes(r, Recorded(req[r]))
    /\ UNCHANGED <<circuit, failures, timed, probes, canary, cut, faults>>

--------------------------------------------------------------------------------
(* record_success and force_reset *)

Probe(r) ==
    /\ At(r, "probe")
    /\ probes' = [probes EXCEPT ![T(r)] = Incremented(@, RecoveryThreshold)]
    /\ IF probes'[T(r)] = RecoveryThreshold THEN Goes(r, "close")
       ELSE Becomes(r, Recorded(req[r]))
    /\ UNCHANGED <<circuit, cooldown, failures, timed, canary, cut, faults>>

Close(r) ==
    /\ At(r, "close")
    /\ circuit' = [circuit EXCEPT ![T(r)] = "CLOSED"]
    /\ Goes(r, "clear")
    /\ UNCHANGED <<cooldown, failures, timed, probes, canary, cut, faults>>

\* One DEL of the counters of target t.
CountersGone(t) ==
    /\ failures' = [failures EXCEPT ![t] = 0]
    /\ timed'    = [timed EXCEPT ![t] = FALSE]
    /\ probes'   = [probes EXCEPT ![t] = 0]
    /\ cut'      = cut \ {t}

Clear(r) ==
    /\ At(r, "clear")
    /\ CountersGone(T(r))
    /\ cooldown' = [cooldown EXCEPT ![T(r)] = FALSE]
    /\ Becomes(r, Recorded(req[r]))
    /\ UNCHANGED <<circuit, canary, faults>>

Forget(r) ==
    /\ At(r, "forget")
    /\ CountersGone(T(r))
    /\ Becomes(r, Recorded(req[r]))
    /\ UNCHANGED <<circuit, cooldown, canary, faults>>

ResetState(r) ==
    /\ At(r, "reset")
    /\ circuit' = [circuit EXCEPT ![T(r)] = "CLOSED"]
    /\ Goes(r, "wipe")
    /\ UNCHANGED <<cooldown, failures, timed, probes, canary, cut, faults>>

\* The lock on t is gone; its owner, if it still runs, does not know.
LapsedAt(t) ==
    [r \in Requests |-> IF canary[t] = r THEN [req[r] EXCEPT !.lapsed = TRUE] ELSE req[r]]

Wipe(r) ==
    /\ At(r, "wipe")
    /\ CountersGone(T(r))
    /\ cooldown' = [cooldown EXCEPT ![T(r)] = FALSE]
    /\ canary'   = [canary EXCEPT ![T(r)] = Nobody]
    /\ req' = [LapsedAt(T(r)) EXCEPT ![r] = Idle]
    /\ UNCHANGED <<circuit, faults>>

--------------------------------------------------------------------------------
(* Redis counts the times to live down *)

CooldownExpires(t) ==
    /\ cooldown[t]
    /\ cooldown' = [cooldown EXCEPT ![t] = FALSE]
    /\ UNCHANGED <<circuit, failures, timed, probes, canary, req, cut, faults>>

CountExpires(t) ==
    /\ timed[t]
    /\ failures' = [failures EXCEPT ![t] = 0]
    /\ timed' = [timed EXCEPT ![t] = FALSE]
    /\ UNCHANGED <<circuit, cooldown, probes, canary, req, cut, faults>>

CanaryExpires(t) ==
    /\ canary[t] # Nobody
    /\ canary' = [canary EXCEPT ![t] = Nobody]
    /\ req' = LapsedAt(t)
    /\ UNCHANGED <<breaker, cut, faults>>

--------------------------------------------------------------------------------
(* Faults *)

Inject == faults < MaxFaults /\ faults' = faults + 1

\* The token of r stays in its lock after r is gone.
Abandoned(r) ==
    [t \in Targets |-> IF canary[t] = r THEN Orphan ELSE canary[t]]

HalfWritten(r) == req[r].pc \in {"expire", "open", "clear", "wipe"}
CutAt(r) == IF HalfWritten(r) THEN cut \cup {T(r)} ELSE cut

\* Redis does not answer. Reads fail open to CLOSED, the canary fails closed, and the
\* record functions swallow the error where it happens.
RedisFails(r) ==
    /\ Inject
    /\ cut' = CutAt(r)
    /\ \/ /\ req[r].pc \in {"read", "cooldown", "decay", "unprobe"}
          /\ Becomes(r, Checked(req[r], "CLOSED")) /\ UNCHANGED canary
       \/ /\ At(r, "canary")
          /\ Becomes(r, Leave(req[r]))
          /\ \/ UNCHANGED canary
             \/ canary[T(r)] = Nobody /\ canary' = [canary EXCEPT ![T(r)] = Orphan]
       \/ /\ req[r].pc \in {"count", "expire", "open", "cool", "probe", "close", "clear", "forget"}
          /\ Becomes(r, Recorded(req[r])) /\ UNCHANGED canary
       \/ /\ At(r, "release")
          /\ Becomes(r, Leave(req[r])) /\ canary' = Abandoned(r)
       \/ /\ req[r].pc \in {"reset", "wipe"}
          /\ Becomes(r, Idle) /\ UNCHANGED canary
    /\ UNCHANGED breaker

\* The client goes away: the task is cancelled, and no handler of the manager releases.
Cancel(r) ==
    /\ Inject
    /\ ~At(r, "idle")
    /\ cut' = CutAt(r)
    /\ canary' = Abandoned(r)
    /\ Becomes(r, Idle)
    /\ UNCHANGED breaker

--------------------------------------------------------------------------------
Progress(r) ==
    \/ ReadState(r) \/ ReadCooldown(r) \/ Decay(r) \/ Unprobe(r)
    \/ TryCanary(r) \/ Build(r) \/ BuildFails(r) \/ Release(r)
    \/ Yield(r) \/ Succeed(r) \/ Retry(r) \/ Fail(r)
    \/ Count(r) \/ ExpireCount(r) \/ Trip(r) \/ Cool(r)
    \/ Probe(r) \/ Close(r) \/ Clear(r) \/ Forget(r)
    \/ ResetState(r) \/ Wipe(r)

Expires(t) == CooldownExpires(t) \/ CountExpires(t) \/ CanaryExpires(t)

Next ==
    \/ \E r \in Requests : Start(r) \/ Progress(r) \/ RedisFails(r) \/ Cancel(r)
    \/ \E t \in Targets : Expires(t)

Spec == Init /\ [][Next]_vars

\* A request that is not cancelled goes on (provider calls have timeouts), and Redis
\* expires keys. Nobody owes the system a request, a fault or a reset.
FairSpec ==
    /\ Spec
    /\ \A r \in Requests : WF_vars(Progress(r))
    /\ \A t \in Targets : WF_vars(CooldownExpires(t)) /\ WF_vars(CanaryExpires(t))

--------------------------------------------------------------------------------
\* Counters stay within their thresholds, a canary token belongs to a request or to
\* nobody who still runs, and a request is at one of its places.
TypeOK ==
    /\ circuit \in [Targets -> States]
    /\ cooldown \in [Targets -> BOOLEAN] /\ timed \in [Targets -> BOOLEAN]
    /\ failures \in [Targets -> 0 .. FailureThreshold]
    /\ probes \in [Targets -> 0 .. RecoveryThreshold]
    /\ canary \in [Targets -> Requests \cup {Nobody, Orphan}]
    /\ req \in [Requests -> Request]
    /\ cut \in SUBSET Targets /\ faults \in 0 .. MaxFaults

Probing(r) ==
    /\ req[r].pc \in {"build", "call"} /\ req[r].kind # "search"
    /\ req[r].admitted = "HALF_OPEN" /\ ~req[r].lapsed

\* While its lock lives, the request that probes a half-open provider is the only one
\* let in as a probe, whatever Redis fails to answer and whoever is cancelled.
CanaryIsAlone ==
    \A r, s \in Requests : Probing(r) /\ Probing(s) /\ T(r) = T(s) => r = s

\* Every way out of a provider gives its canary back: a lock names a request that still
\* holds it, unless that request was cancelled or Redis did not take the release.
NoLeak == \A r \in Requests, t \in Targets : canary[t] = r => req[r].token /\ T(r) = t

\* A breaker whose failures have reached the threshold is not left closed: somebody is
\* about to trip it or to clear it, unless a fault struck that very request. And a
\* counter that never expires is about to get its time to live.
FailuresTrip ==
    \A t \in Targets \ cut :
        /\ failures[t] = FailureThreshold /\ circuit[t] = "CLOSED" =>
              \E r \in Requests : T(r) = t /\ req[r].pc \in {"open", "clear", "wipe"}
        /\ failures[t] > 0 /\ ~timed[t] =>
              \E r \in Requests : T(r) = t /\ req[r].pc = "expire"

\* What a client has received of a stream comes from one provider.
NoStitching ==
    [][\A r \in Requests : req[r].source # 0 => req'[r].source \in {req[r].source, 0}
                                             /\ (req'[r].source = 0 => req'[r] = Idle)]_vars

\* As long as requests keep asking for a target, its breaker does not stay open.
Recovers ==
    \A t \in Targets :
        ([]<>(\E r \in Requests : At(r, "read") /\ T(r) = t))
            => (circuit[t] = "OPEN" ~> circuit[t] # "OPEN")
================================================================================
