---------------------------- MODULE MCChatStream ----------------------------
(* ChatStream with interchangeable requests, correlation ids and users. *)
EXTENDS ChatStream

Symmetry == Permutations(Requests) \cup Permutations(Ids) \cup Permutations(Users)
=============================================================================
