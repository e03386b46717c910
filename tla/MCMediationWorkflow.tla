------------------------- MODULE MCMediationWorkflow -------------------------
(* Model-checking instances of a mediation session. *)
EXTENDS MediationWorkflowProperties

\* The operator requeues the job at the end of the chain.
LastJob == {AdviceJob}
=============================================================================
