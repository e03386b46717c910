------------------------ MODULE MCMediationAgreement ------------------------
(* Model-checking instances of resolving and archiving. *)
EXTENDS MediationAgreementProperties, TLC

Symmetry == Permutations(Users) \cup Permutations(Requests)
=============================================================================
