---------------------------- MODULE JobLifecycle ----------------------------
(***************************************************************************)
(* What the mediation job table promises for one idempotency key, whoever  *)
(* runs the jobs: a job is submitted once, attempted at most MaxAttempts   *)
(* times, settled as COMPLETED or FAILED, and leaves a settled state only  *)
(* when an operator requeues a FAILED job.  Jobs are independent, so one   *)
(* step may move several of them.                                          *)
(***************************************************************************)
EXTENDS Integers

CONSTANTS Keys, MaxAttempts

VARIABLES state,  \* state[k]: where job k stands ("NONE" before it exists)
          tries   \* tries[k]: attempts since submission or last requeue

vars == <<state, tries>>

JobStates == {"NONE", "PENDING", "PROCESSING", "COMPLETED", "FAILED"}

Init == /\ state = [k \in Keys |-> "NONE"]
        /\ tries = [k \in Keys |-> 0]

Moves(k, from, to) == state[k] = from /\ state'[k] = to

Submit(k)  == Moves(k, "NONE", "PENDING") /\ tries'[k] = 0

Attempt(k) == /\ Moves(k, "PENDING", "PROCESSING") \/ Moves(k, "PROCESSING", "PROCESSING")
              /\ tries[k] < MaxAttempts
              /\ tries'[k] = tries[k] + 1

Retry(k)   == /\ Moves(k, "PROCESSING", "PENDING")
              /\ tries[k] < MaxAttempts
              /\ tries'[k] = tries[k]

Succeed(k) == Moves(k, "PROCESSING", "COMPLETED") /\ tries'[k] = tries[k]

GiveUp(k)  == /\ Moves(k, "PROCESSING", "FAILED")
              /\ tries[k] = MaxAttempts
              /\ tries'[k] = tries[k]

Requeue(k) == Moves(k, "FAILED", "PENDING") /\ tries'[k] = 0

Same(k)    == state'[k] = state[k] /\ tries'[k] = tries[k]

KeyStep(k) == \/ Submit(k) \/ Attempt(k) \/ Retry(k) \/ Succeed(k)
              \/ GiveUp(k) \/ Requeue(k) \/ Same(k)

Next == /\ state' \in [Keys -> JobStates]
        /\ tries' \in [Keys -> 0..MaxAttempts]
        /\ \A k \in Keys : KeyStep(k)

Spec == Init /\ [][Next]_vars
=============================================================================
