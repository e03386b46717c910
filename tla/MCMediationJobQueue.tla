------------------------ MODULE MCMediationJobQueue ------------------------
(* Model-checking instances of the job queue. *)
EXTENDS MediationJobQueueProperties, TLC

Symmetry == Permutations(Keys) \cup Permutations(Workers)
=============================================================================
