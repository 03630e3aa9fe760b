---------------------------- MODULE VersionedServing ----------------------------
(***************************************************************************)
(* What the pipeline promises the readers of a document, whatever happens  *)
(* inside it: at most one version is live, a version goes live by being    *)
(* promoted, and neither the current version nor the live one ever goes    *)
(* back to an earlier number.                                              *)
(***************************************************************************)
EXTENDS Integers

CONSTANT MaxVersion   \* bound: versions one document may get

VARIABLES
    current,   \* number of the version the document points to
    live       \* versions retrieval may read: none or one

servingVars == <<current, live>>

\* The first version is pointed to, and flagged live, from the upload on.
ServingInit == current = 1 /\ live = {1}

\* A rollback points the document at its new version before it is indexed.
Stage(v) == v > current /\ current' = v /\ UNCHANGED live

\* An indexed version goes live, unless a newer one has been pointed to.
GoLive(v) == v >= current /\ current' = v /\ live' = {v}

\* A failed or superseded version stops being live.
Withdraw == live' = {} /\ UNCHANGED current

ServingNext == (\E v \in 1 .. MaxVersion : Stage(v) \/ GoLive(v)) \/ Withdraw

ServingSpec == ServingInit /\ [][ServingNext]_servingVars
================================================================================
