-------------------------- MODULE MCLoginSessions --------------------------
(* A model-checking instance of login sessions. *)
EXTENDS LoginSessionsProperties, TLC

Symmetry == Permutations(Users) \cup Permutations(Callers) \cup Permutations(Ids)
=============================================================================
