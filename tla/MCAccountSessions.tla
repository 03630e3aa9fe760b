------------------------- MODULE MCAccountSessions -------------------------
(* AccountSessions with interchangeable calls. *)
EXTENDS AccountSessions, TLC

Symmetry == Permutations(Calls)
============================================================================
