--------------------- MODULE MediationJobQueueProperties ---------------------
(***************************************************************************)
(* What the job queue promises.  A worker slower than its lease loses its  *)
(* job to another worker while it is still at it; a job is "undisturbed"   *)
(* as long as that cannot have happened to it.  With a single worker, the  *)
(* deployed configuration, every job is undisturbed.                       *)
(***************************************************************************)
EXTENDS MediationJobQueue

OneWorker   == \A v, w \in Workers : v = w
Undisturbed == {k \in Keys : OneWorker \/ k \notin overran}

\* Every variable holds what the code can store, and exactly the busy workers
\* have a job in hand.
TypeOK ==
    /\ jobs \in [Keys -> Job]
    /\ older \subseteq Keys \X Keys
    /\ pc \in [Workers -> PCs]
    /\ claimed \in [Workers -> Keys \cup {NoKey}]
    /\ verdict \in [Workers -> {"PENDING", "FAILED"}]
    /\ runs \in [Keys -> Nat]
    /\ overran \subseteq Keys
    /\ requeues \in [Keys -> 0..MaxRequeues]
    /\ crashes \in 0..MaxCrashes
    /\ lostAcks \in 0..MaxLostAcks
    /\ \A w \in Workers : (pc[w] \in Busy) <=> (claimed[w] # NoKey)

\* A job, and the OpenAI calls it makes, runs at most MaxAttempts times per
\* submission or requeue, whatever crashes, timeouts and retries happen and
\* however many workers there are (claim_next_pending_job's $expr and $inc).
RunsBounded ==
    \A k \in Keys : runs[k] <= MaxAttempts * (requeues[k] + 1)

\* Two workers have the same job at once only after the lease of that job ran
\* out under a worker that was still alive (the claim is atomic, a retry
\* releases the job before it is claimed again, a crash before the lease ends
\* keeps it reserved).
NoOverlapWithinLease ==
    \A k \in Undisturbed : \A v, w \in Workers :
        Holds(v, k) /\ Holds(w, k) => v = w

\* A job waiting as PENDING has an attempt left, so some worker will take it:
\* claim_next_pending_job would ignore it otherwise, and nothing else looks.
PendingIsClaimable ==
    \A k \in Undisturbed : jobs[k].status = "PENDING" => jobs[k].attempts < MaxAttempts

\* No job is given up while it has attempts left.
FailedIsExhausted ==
    \A k \in Undisturbed : jobs[k].status = "FAILED" => jobs[k].attempts = MaxAttempts

\* A worker that writes its result writes it over the job it claimed: still
\* PROCESSING, its lease running unless it overran, or COMPLETED by itself when
\* the reply to mark_completed was lost.  No other actor has settled, requeued
\* or claimed the job in between.
WorkerOwnsItsJob ==
    \A k \in Undisturbed : \A w \in Workers :
        Holds(w, k) =>
            \/ jobs[k].status = "PROCESSING" /\ (k \notin overran => jobs[k].lease = "fresh")
            \/ jobs[k].status = "COMPLETED" /\ pc[w] \in {"read", "write"}

\* Every submitted or requeued job is eventually COMPLETED or FAILED, through
\* crashes, restarts and errors, unless overlapping workers disturbed it.
EveryJobSettles ==
    \A k \in Keys : jobs[k].status \in {"PENDING", "PROCESSING"}
                      ~> (Final(k) \/ k \notin Undisturbed)

\* An exhausted job nobody works on is FAILED, which is what the operator's
\* script requeues ("Requeue an exhausted mediation AI job.").
ExhaustedIsRequeueable ==
    \A k \in Keys : jobs[k].attempts = MaxAttempts /\ ~Held(k)
                       => jobs[k].status # "PENDING"

\* The implemented lifecycle.  While a worker still has a job its outcome is
\* open, even if mark_completed was written and only its reply got lost.
Lifecycle == INSTANCE JobLifecycle WITH
    state <- [k \in Keys |-> IF Held(k) THEN "PROCESSING" ELSE jobs[k].status],
    tries <- [k \in Keys |-> jobs[k].attempts]
LifecycleSpec == Lifecycle!Spec
=============================================================================
