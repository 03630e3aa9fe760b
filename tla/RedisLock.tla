------------------------------- MODULE RedisLock -------------------------------
(***************************************************************************)
(* The distributed lock of backend/cache/locks.py: SET NX EX with a fresh  *)
(* token per attempt, a polling loop with a deadline, and a Lua script     *)
(* that deletes the key only while it still holds the attempt's token.     *)
(* Nothing renews the lease, so a body that outlives it runs on without    *)
(* the lock.                                                               *)
(***************************************************************************)
CONSTANTS
    Attempts,   \* calls of acquire_lock on one name; each draws a fresh token
    Nobody      \* the absent key

ASSUME NobodyAssumption == Nobody \notin Attempts

VARIABLES
    key,      \* whose token the Redis key holds
    phase,    \* where each attempt is
    lapsed    \* attempts whose lease Redis has let expire

vars == <<key, phase, lapsed>>

Init ==
    /\ key = Nobody
    /\ phase = [a \in Attempts |-> "idle"]
    /\ lapsed = {}

Moves(a, from, to) == phase[a] = from /\ phase' = [phase EXCEPT ![a] = to]

Call(a) == Moves(a, "idle", "trying") /\ UNCHANGED <<key, lapsed>>

\* Bug seeded for MutualExclusion: SET without NX.
AcquireAnyway(a) == Moves(a, "trying", "holding") /\ key' = a /\ UNCHANGED lapsed

Acquire(a) ==
    /\ key = Nobody
    /\ Moves(a, "trying", "holding")
    /\ key' = a /\ UNCHANGED lapsed

\* Redis sets the key and the answer is lost: acquired stays False.
AcquireUnanswered(a) ==
    /\ key = Nobody
    /\ Moves(a, "trying", "done")
    /\ key' = a /\ UNCHANGED lapsed

\* The deadline passes, or Redis does not answer: LockAcquisitionError.
GiveUp(a) == Moves(a, "trying", "done") /\ UNCHANGED <<key, lapsed>>

\* Bug seeded for HolderOwnsKey: DEL without comparing the token.
ReleaseAny(a) == Moves(a, "holding", "done") /\ key' = Nobody /\ UNCHANGED lapsed

Release(a) ==
    /\ Moves(a, "holding", "done")
    /\ key' = IF key = a THEN Nobody ELSE key
    /\ UNCHANGED lapsed

\* The worker dies in the body, or the script does not reach Redis.
ReleaseLost(a) == Moves(a, "holding", "done") /\ UNCHANGED <<key, lapsed>>

\* Bug seeded for OrphansVanish: SET without EX.
NeverExpire == FALSE /\ UNCHANGED vars

Expire ==
    /\ key # Nobody
    /\ key' = Nobody /\ lapsed' = lapsed \cup {key}
    /\ UNCHANGED phase

Next ==
    \/ \E a \in Attempts :
         \/ Call(a) \/ Acquire(a) \/ AcquireUnanswered(a) \/ GiveUp(a)
         \/ Release(a) \/ ReleaseLost(a)
    \/ Expire

Spec == Init /\ [][Next]_vars

\* Redis counts every time to live down; nothing else is needed to free the key.
FairSpec == Spec /\ WF_vars(Expire)

--------------------------------------------------------------------------------
\* The key is absent or holds one attempt's token; attempts move forward only.
TypeOK ==
    /\ key \in Attempts \cup {Nobody}
    /\ phase \in [Attempts -> {"idle", "trying", "holding", "done"}]
    /\ lapsed \in SUBSET Attempts

Inside(a) == phase[a] = "holding" /\ a \notin lapsed

\* Inside its lease a body owns the key: no release, failure or expiry that
\* belongs to another attempt takes the lock away from it.
HolderOwnsKey == \A a \in Attempts : Inside(a) => key = a

\* Two bodies run at once only if one of them has outlived its lease.
MutualExclusion == \A a, b \in Attempts : Inside(a) /\ Inside(b) => a = b

\* A key whose attempt is over (an unanswered SET, a dead worker, a lost release)
\* is not held for ever.
OrphansVanish ==
    \A a \in Attempts : (key = a /\ phase[a] = "done") ~> (key # a)
================================================================================
