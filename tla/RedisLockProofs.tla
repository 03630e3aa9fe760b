---------------------------- MODULE RedisLockProofs ----------------------------
(***************************************************************************)
(* What RedisLock guarantees for any set of attempts.                      *)
(***************************************************************************)
EXTENDS RedisLock, TLAPS

\* A token in the key belongs to an attempt whose lease has not lapsed and that
\* has called SET: no other attempt can be mistaken for its owner.
KeyIsLive == \A a \in Attempts : key = a => a \notin lapsed /\ phase[a] \in {"holding", "done"}

IInv == TypeOK /\ HolderOwnsKey /\ KeyIsLive /\ Nobody \notin lapsed /\
        \A a \in lapsed : phase[a] \in {"holding", "done"}

LEMMA InitInv == Init => IInv
BY NobodyAssumption DEF Init, IInv, TypeOK, HolderOwnsKey, KeyIsLive, Inside

LEMMA StepInv == IInv /\ [Next]_vars => IInv'
<1> SUFFICES ASSUME IInv, [Next]_vars PROVE IInv'
  OBVIOUS
<1> USE NobodyAssumption
    DEF IInv, TypeOK, HolderOwnsKey, KeyIsLive, Inside, Moves
<1>1. ASSUME NEW a \in Attempts, Call(a) PROVE IInv'
  BY <1>1 DEF Call
<1>2. ASSUME NEW a \in Attempts, Acquire(a) PROVE IInv'
  BY <1>2 DEF Acquire
<1>3. ASSUME NEW a \in Attempts, AcquireUnanswered(a) PROVE IInv'
  BY <1>3 DEF AcquireUnanswered
<1>4. ASSUME NEW a \in Attempts, GiveUp(a) PROVE IInv'
  BY <1>4 DEF GiveUp
<1>5. ASSUME NEW a \in Attempts, Release(a) PROVE IInv'
  BY <1>5 DEF Release
<1>6. ASSUME NEW a \in Attempts, ReleaseLost(a) PROVE IInv'
  BY <1>6 DEF ReleaseLost
<1>7. CASE Expire
  BY <1>7 DEF Expire
<1>8. CASE UNCHANGED vars
  BY <1>8 DEF vars
<1> QED
  BY <1>1, <1>2, <1>3, <1>4, <1>5, <1>6, <1>7, <1>8 DEF Next

LEMMA Invariance == Spec => []IInv
BY InitInv, StepInv, PTL DEF Spec

\* However many attempts expire, fail, die or release late, a body inside its
\* lease owns the key: the token comparison in the Lua script is enough.
THEOREM Ownership == Spec => []HolderOwnsKey
<1>1. IInv => HolderOwnsKey
  BY DEF IInv
<1> QED
  BY <1>1, Invariance, PTL

\* Two bodies never run at once inside their leases.
THEOREM Exclusion == Spec => []MutualExclusion
<1>1. IInv => MutualExclusion
  BY DEF IInv, HolderOwnsKey, MutualExclusion
<1> QED
  BY <1>1, Invariance, PTL
================================================================================
