---------------------------- MODULE MCTokenLedger ----------------------------
(* TokenLedger with interchangeable requests, correlation ids and users. *)
EXTENDS TokenLedger, TLC

Symmetry == Permutations(Requests) \cup Permutations(Ids) \cup Permutations(Users)
==============================================================================
