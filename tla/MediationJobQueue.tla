------------------------- MODULE MediationJobQueue -------------------------
(***************************************************************************)
(* The mediation AI job table (MediationJobRepository) and the worker      *)
(* loop that serves it (run_mediation_worker).  A job is one Mongo         *)
(* document per idempotency key.  Every repository call is one atomic      *)
(* database operation, except mark_failed_or_retry, which reads the job,   *)
(* decides, and then writes without looking again.                         *)
(*                                                                         *)
(* Time is abstracted to the one question the code asks of it: is          *)
(* started_at older than the processing timeout?  "lease" is the answer.   *)
(* What a job does is abstracted to "it returns or it raises".             *)
(***************************************************************************)
EXTENDS Integers

CONSTANTS
    Keys,          \* idempotency keys of jobs
    NoKey,         \* "this worker has no job"
    Workers,       \* worker loops, one per server process that runs one
    MaxAttempts,   \* MediationAIJob.max_attempts
    MaxCrashes,    \* bound: worker deaths (shutdown, crash, error outside the try)
    MaxLostAcks,   \* bound: mark_completed calls that raise
    MaxRequeues,   \* bound: operator requeues per job
    RequeueKeys,   \* bound: jobs the operator requeues
    SlowKeys       \* bound: jobs that may still run when their lease ends

ASSUME NoKeyAssumption == NoKey \notin Keys
ASSUME MaxAttemptsAssumption == MaxAttempts \in Nat \ {0}
ASSUME BoundsAssumption ==
    MaxCrashes \in Nat /\ MaxLostAcks \in Nat /\ MaxRequeues \in Nat
ASSUME BoundedKeysAssumption == RequeueKeys \subseteq Keys /\ SlowKeys \subseteq Keys

VARIABLES
    jobs,      \* jobs[k]: the stored document, status "NONE" if there is none
    older,     \* <<k, l>> \in older: k was created before l (sort by created_at)
    pc,        \* pc[w]: the statement worker w executes next
    claimed,   \* claimed[w]: the job w got from claim_next_pending_job
    verdict,   \* verdict[w]: the status mark_failed_or_retry decided to write
               \* ("PENDING" outside it)
    runs,      \* history: how often job k was handed to a worker
    overran,   \* history: jobs whose lease ran out while a worker still had them
    requeues,  \* bound counters
    crashes,
    lostAcks

counters == <<requeues, crashes, lostAcks>>
vars == <<jobs, older, pc, claimed, verdict, runs, overran, counters>>

JobStatus == {"NONE", "PENDING", "PROCESSING", "COMPLETED", "FAILED"}
Leases    == {"unset", "fresh", "stale"}
Job       == [status : JobStatus, attempts : 0..MaxAttempts, lease : Leases]
PCs       == {"off", "sweep", "claim", "process", "complete", "read", "write"}
Busy      == {"process", "complete", "read", "write"}

NoJob  == [status |-> "NONE", attempts |-> 0, lease |-> "unset"]
NewJob == [status |-> "PENDING", attempts |-> 0, lease |-> "unset"]

Exists(k)  == jobs[k].status # "NONE"
Holds(w, k) == pc[w] \in Busy /\ claimed[w] = k
Held(k)    == \E w \in Workers : Holds(w, k)
Final(k)   == jobs[k].status \in {"COMPLETED", "FAILED"}

\* Mutant: the filter forgets to look at started_at.
AnyProcessing(k) == jobs[k].status = "PROCESSING"

\* The stale-PROCESSING filter shared by the sweep and by the claim.
StaleProcessing(k) == jobs[k].status = "PROCESSING" /\ jobs[k].lease # "fresh"

\* Mutant: the claim has no $expr on attempts.
ClaimableForever(k) == jobs[k].status = "PENDING" \/ StaleProcessing(k)

Claimable(k) == /\ jobs[k].status = "PENDING" \/ StaleProcessing(k)
                /\ jobs[k].attempts < MaxAttempts

Init == /\ jobs = [k \in Keys |-> NoJob]
        /\ older = {}
        /\ pc = [w \in Workers |-> "off"]
        /\ claimed = [w \in Workers |-> NoKey]
        /\ verdict = [w \in Workers |-> "PENDING"]
        /\ runs = [k \in Keys |-> 0]
        /\ overran = {}
        /\ requeues = [k \in Keys |-> 0]
        /\ crashes = 0
        /\ lostAcks = 0

SetStatus(k, s) == jobs' = [jobs EXCEPT ![k].status = s]
Goto(w, label)  == pc' = [pc EXCEPT ![w] = label]
Release(w)      == claimed' = [claimed EXCEPT ![w] = NoKey]

-----------------------------------------------------------------------------
\* Mutant: an upsert in place of the insert that may fail.
CreateOverwrites(k) ==
    /\ jobs'  = [jobs EXCEPT ![k] = NewJob]
    /\ older' = IF Exists(k) THEN older ELSE older \cup ({l \in Keys : Exists(l)} \X {k})
    /\ UNCHANGED <<pc, claimed, verdict, runs, overran, counters>>

\* create_job_if_not_exists: the unique index turns a second insert into a read.
Create(k) ==
    /\ jobs'  = IF Exists(k) THEN jobs ELSE [jobs EXCEPT ![k] = NewJob]
    /\ older' = IF Exists(k) THEN older ELSE older \cup ({l \in Keys : Exists(l)} \X {k})
    /\ UNCHANGED <<pc, claimed, verdict, runs, overran, counters>>

\* Mutant: the script does not filter on FAILED.
RequeueAny(k) ==
    /\ Exists(k)
    /\ k \in RequeueKeys /\ requeues[k] < MaxRequeues
    /\ jobs' = [jobs EXCEPT ![k] = NewJob]
    /\ requeues' = [requeues EXCEPT ![k] = @ + 1]
    /\ UNCHANGED <<older, pc, claimed, verdict, runs, overran, crashes, lostAcks>>

\* scripts/requeue_mediation_job.py, run by an operator.
Requeue(k) ==
    /\ jobs[k].status = "FAILED"
    /\ k \in RequeueKeys /\ requeues[k] < MaxRequeues
    /\ jobs' = [jobs EXCEPT ![k] = NewJob]
    /\ requeues' = [requeues EXCEPT ![k] = @ + 1]
    /\ UNCHANGED <<older, pc, claimed, verdict, runs, overran, crashes, lostAcks>>

\* now - started_at exceeds mediation_job_processing_timeout_seconds.
LeaseExpires(k) ==
    /\ jobs[k].status = "PROCESSING" /\ jobs[k].lease = "fresh"
    /\ Held(k) => k \in SlowKeys
    /\ jobs' = [jobs EXCEPT ![k].lease = "stale"]
    /\ overran' = IF Held(k) THEN overran \cup {k} ELSE overran
    /\ UNCHANGED <<older, pc, claimed, verdict, runs, counters>>

-----------------------------------------------------------------------------
\* The lifespan hook of a server process starts its worker task.
Start(w) ==
    /\ pc[w] = "off"
    /\ Goto(w, "sweep")
    /\ UNCHANGED <<jobs, older, claimed, verdict, runs, overran, counters>>

\* Mutants: $gt in place of $gte; no test of attempts at all.
SweepBeyondMax(w) ==
    /\ pc[w] = "sweep"
    /\ jobs' = [k \in Keys |->
                  IF StaleProcessing(k) /\ jobs[k].attempts > MaxAttempts
                  THEN [jobs[k] EXCEPT !.status = "FAILED"] ELSE jobs[k]]
    /\ Goto(w, "claim")
    /\ UNCHANGED <<older, claimed, verdict, runs, overran, counters>>

SweepAllStale(w) ==
    /\ pc[w] = "sweep"
    /\ jobs' = [k \in Keys |->
                  IF StaleProcessing(k) THEN [jobs[k] EXCEPT !.status = "FAILED"] ELSE jobs[k]]
    /\ Goto(w, "claim")
    /\ UNCHANGED <<older, claimed, verdict, runs, overran, counters>>

\* fail_exhausted_stale_processing_jobs: one update_many.
Sweep(w) ==
    /\ pc[w] = "sweep"
    /\ jobs' = [k \in Keys |->
                  IF StaleProcessing(k) /\ jobs[k].attempts >= MaxAttempts
                  THEN [jobs[k] EXCEPT !.status = "FAILED"] ELSE jobs[k]]
    /\ Goto(w, "claim")
    /\ UNCHANGED <<older, claimed, verdict, runs, overran, counters>>

\* claim_next_pending_job finds the oldest claimable job and takes it.
Claim(w) ==
    /\ pc[w] = "claim"
    /\ \E k \in Keys :
         /\ Claimable(k)
         /\ \A l \in Keys : Claimable(l) => <<l, k>> \notin older
         /\ jobs' = [jobs EXCEPT ![k] = [status |-> "PROCESSING",
                                         attempts |-> @.attempts + 1,
                                         lease |-> "fresh"]]
         /\ claimed' = [claimed EXCEPT ![w] = k]
         /\ runs' = [runs EXCEPT ![k] = @ + 1]
    /\ Goto(w, "process")
    /\ UNCHANGED <<older, verdict, overran, counters>>

\* claim_next_pending_job finds nothing: sleep, then go round the loop.
Sleep(w) ==
    /\ pc[w] = "claim"
    /\ \A k \in Keys : ~Claimable(k)
    /\ Goto(w, "sweep")
    /\ UNCHANGED <<jobs, older, claimed, verdict, runs, overran, counters>>

\* process_job returns: go on to mark_completed.
Return(w) ==
    /\ pc[w] = "process"
    /\ Goto(w, "complete")
    /\ UNCHANGED <<jobs, older, claimed, verdict, runs, overran, counters>>

\* process_job raises an Exception: go on to mark_failed_or_retry.
Raise(w) ==
    /\ pc[w] = "process"
    /\ Goto(w, "read")
    /\ UNCHANGED <<jobs, older, claimed, verdict, runs, overran, counters>>

MarkCompleted(w) ==
    /\ pc[w] = "complete"
    /\ SetStatus(claimed[w], "COMPLETED")
    /\ Goto(w, "sweep")
    /\ Release(w)
    /\ UNCHANGED <<older, verdict, runs, overran, counters>>

\* mark_completed raises, the write done or not: it is inside the same try,
\* so the handler goes on to mark_failed_or_retry.
MarkCompletedRaises(w) ==
    /\ pc[w] = "complete"
    /\ lostAcks < MaxLostAcks
    /\ lostAcks' = lostAcks + 1
    /\ SetStatus(claimed[w], "COMPLETED") \/ UNCHANGED jobs
    /\ Goto(w, "read")
    /\ UNCHANGED <<older, claimed, verdict, runs, overran, requeues, crashes>>

\* Mutant: > in place of >=.
ReadAttemptsOffByOne(w) ==
    /\ pc[w] = "read"
    /\ verdict' = [verdict EXCEPT
         ![w] = IF jobs[claimed[w]].attempts > MaxAttempts THEN "FAILED" ELSE "PENDING"]
    /\ Goto(w, "write")
    /\ UNCHANGED <<jobs, older, claimed, runs, overran, counters>>

\* mark_failed_or_retry, first half: find_one, then choose the status.
ReadAttempts(w) ==
    /\ pc[w] = "read"
    /\ verdict' = [verdict EXCEPT
         ![w] = IF jobs[claimed[w]].attempts >= MaxAttempts THEN "FAILED" ELSE "PENDING"]
    /\ Goto(w, "write")
    /\ UNCHANGED <<jobs, older, claimed, runs, overran, counters>>

\* mark_failed_or_retry, second half: write it, whatever the job is by now.
WriteVerdict(w) ==
    /\ pc[w] = "write"
    /\ SetStatus(claimed[w], verdict[w])
    /\ Goto(w, "sweep")
    /\ Release(w)
    /\ verdict' = [verdict EXCEPT ![w] = "PENDING"]
    /\ UNCHANGED <<older, runs, overran, counters>>

\* Shutdown cancels the task (CancelledError is no Exception, so nothing is
\* marked), the process dies, or a database call outside the try raises.
Crash(w) ==
    /\ pc[w] # "off"
    /\ crashes < MaxCrashes
    /\ crashes' = crashes + 1
    /\ Goto(w, "off")
    /\ Release(w)
    /\ verdict' = [verdict EXCEPT ![w] = "PENDING"]
    /\ UNCHANGED <<jobs, older, runs, overran, requeues, lostAcks>>

-----------------------------------------------------------------------------
WorkerStep(w) == \/ Start(w) \/ Sweep(w) \/ Claim(w) \/ Sleep(w) \/ Return(w)
                 \/ Raise(w) \/ MarkCompleted(w) \/ ReadAttempts(w) \/ WriteVerdict(w)

Next == \/ \E k \in Keys : Create(k) \/ Requeue(k) \/ LeaseExpires(k)
        \/ \E w \in Workers : WorkerStep(w) \/ MarkCompletedRaises(w) \/ Crash(w)

\* The event loop keeps scheduling a worker task, OpenAI calls time out, a dead
\* process is started again by its supervisor, and the clock goes on.
Fairness == /\ \A w \in Workers : WF_vars(WorkerStep(w))
            /\ \A k \in Keys : WF_vars(LeaseExpires(k))

Spec     == Init /\ [][Next]_vars
FairSpec == Spec /\ Fairness
=============================================================================
