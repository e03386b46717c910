----------------------- MODULE MediationJobQueueProofs -----------------------
(***************************************************************************)
(* Proofs about the job queue, for any jobs, any number of workers and any *)
(* bounds.  Inv is inductive: besides the properties it says that the      *)
(* decision mark_failed_or_retry holds between its read and its write is   *)
(* still right, and counts the runs of a job exactly enough.               *)
(***************************************************************************)
EXTENDS MediationJobQueueProperties, TLAPS

\* The status decided from an earlier read of attempts is still the right one.
VerdictIsCurrent ==
    \A k \in Undisturbed : \A w \in Workers :
        Holds(w, k) /\ pc[w] = "write" =>
            (verdict[w] = "FAILED" <=> jobs[k].attempts = MaxAttempts)

\* No attempt is counted before the document exists.
AbsentIsUntried == \A k \in Keys : jobs[k].status = "NONE" => jobs[k].attempts = 0

\* Requeues reset attempts, so runs never exceed what they allowed in total.
RunsCounted ==
    \A k \in Keys : runs[k] <= MaxAttempts * requeues[k] + jobs[k].attempts

Ownership == WorkerOwnsItsJob /\ NoOverlapWithinLease
Counting  == AbsentIsUntried /\ RunsCounted
Attempts  == VerdictIsCurrent /\ PendingIsClaimable /\ FailedIsExhausted

Inv == TypeOK /\ Ownership /\ Attempts /\ Counting

USE NoKeyAssumption, MaxAttemptsAssumption, BoundsAssumption

-----------------------------------------------------------------------------
\* Type correctness: every reachable document and worker state is well formed.
LEMMA TypeInit == Init => TypeOK
  BY DEF Init, TypeOK, Job, JobStatus, Leases, PCs, Busy, NoJob

LEMMA TypeStep == TypeOK /\ [Next]_vars => TypeOK'
<1> SUFFICES ASSUME TypeOK, [Next]_vars PROVE TypeOK'
  OBVIOUS
<1> USE DEF TypeOK, Job, JobStatus, Leases, PCs, Busy
<1>1. ASSUME NEW k \in Keys, Create(k) PROVE TypeOK'
  BY <1>1 DEF Create, NewJob, counters, Exists
<1>2. ASSUME NEW k \in Keys, Requeue(k) PROVE TypeOK'
  BY <1>2 DEF Requeue, NewJob
<1>3. ASSUME NEW k \in Keys, LeaseExpires(k) PROVE TypeOK'
  BY <1>3 DEF LeaseExpires, counters
<1>4. ASSUME NEW w \in Workers, Start(w) PROVE TypeOK'
  BY <1>4 DEF Start, Goto, counters
<1>5. ASSUME NEW w \in Workers, Sweep(w) PROVE TypeOK'
  BY <1>5 DEF Sweep, Goto, counters
<1>6. ASSUME NEW w \in Workers, Claim(w) PROVE TypeOK'
  <2>1. PICK k \in Keys :
           /\ Claimable(k)
           /\ jobs' = [jobs EXCEPT ![k] = [status |-> "PROCESSING",
                                           attempts |-> @.attempts + 1,
                                           lease |-> "fresh"]]
           /\ claimed' = [claimed EXCEPT ![w] = k]
           /\ runs' = [runs EXCEPT ![k] = @ + 1]
    BY <1>6 DEF Claim
  <2>2. jobs[k].attempts + 1 \in 0..MaxAttempts
    BY <2>1 DEF Claimable
  <2>3. jobs' \in [Keys -> Job]
    BY <2>1, <2>2
  <2>4. QED
    BY <1>6, <2>1, <2>3 DEF Claim, Goto, counters
<1>7. ASSUME NEW w \in Workers, Sleep(w) PROVE TypeOK'
  BY <1>7 DEF Sleep, Goto, counters
<1>8. ASSUME NEW w \in Workers, Return(w) \/ Raise(w) PROVE TypeOK'
  BY <1>8 DEF Return, Raise, Goto, counters
<1>9. ASSUME NEW w \in Workers, MarkCompleted(w) PROVE TypeOK'
  BY <1>9 DEF MarkCompleted, Goto, SetStatus, Release, counters
<1>10. ASSUME NEW w \in Workers, ReadAttempts(w) PROVE TypeOK'
  BY <1>10 DEF ReadAttempts, Goto, counters
<1>11. ASSUME NEW w \in Workers, WriteVerdict(w) PROVE TypeOK'
  <2>1. verdict[w] \in JobStatus
    OBVIOUS
  <2>2. QED
    BY <1>11, <2>1 DEF WriteVerdict, Goto, SetStatus, Release, counters
<1>12. ASSUME NEW w \in Workers, MarkCompletedRaises(w) PROVE TypeOK'
  BY <1>12 DEF MarkCompletedRaises, Goto, SetStatus
<1>13. ASSUME NEW w \in Workers, Crash(w) PROVE TypeOK'
  BY <1>13 DEF Crash, Goto, Release
<1>14. CASE UNCHANGED vars
  BY <1>14 DEF vars, counters
<1>15. QED
  BY <1>1, <1>2, <1>3, <1>4, <1>5, <1>6, <1>7, <1>8, <1>9, <1>10, <1>11,
     <1>12, <1>13, <1>14 DEF Next, WorkerStep

\* TypeOK holds of every behaviour of the queue.
THEOREM TypeCorrect == Spec => []TypeOK
  BY TypeInit, TypeStep, PTL DEF Spec

-----------------------------------------------------------------------------
LEMMA OwnershipStep == Inv /\ [Next]_vars => Ownership'
<1> SUFFICES ASSUME Inv, [Next]_vars PROVE Ownership'
  OBVIOUS
<1> USE DEF Inv, Ownership, WorkerOwnsItsJob, NoOverlapWithinLease, Undisturbed, OneWorker, Holds, Busy, TypeOK, Job
<1>1. ASSUME NEW k \in Keys, Create(k) PROVE Ownership'
  BY <1>1 DEF Create, NewJob, counters, Exists
<1>2. ASSUME NEW k \in Keys, Requeue(k) PROVE Ownership'
  BY <1>2 DEF Requeue, NewJob
<1>3. ASSUME NEW k \in Keys, LeaseExpires(k) PROVE Ownership'
  BY <1>3 DEF LeaseExpires, counters, Held
<1>4. ASSUME NEW w \in Workers, Start(w) PROVE Ownership'
  BY <1>4 DEF Start, Goto, counters
<1>5. ASSUME NEW w \in Workers, Sweep(w) PROVE Ownership'
  BY <1>5 DEF Sweep, Goto, counters, StaleProcessing
<1>6. ASSUME NEW w \in Workers, Claim(w) PROVE Ownership'
  BY <1>6 DEF Claim, Goto, counters, Claimable, StaleProcessing
<1>7. ASSUME NEW w \in Workers, Sleep(w) PROVE Ownership'
  BY <1>7 DEF Sleep, Goto, counters
<1>8. ASSUME NEW w \in Workers, Return(w) \/ Raise(w) PROVE Ownership'
  BY <1>8 DEF Return, Raise, Goto, counters
<1>9. ASSUME NEW w \in Workers, MarkCompleted(w) PROVE Ownership'
  BY <1>9 DEF MarkCompleted, Goto, SetStatus, Release, counters
<1>10. ASSUME NEW w \in Workers, ReadAttempts(w) PROVE Ownership'
  BY <1>10 DEF ReadAttempts, Goto, counters
<1>11. ASSUME NEW w \in Workers, WriteVerdict(w) PROVE Ownership'
  BY <1>11 DEF WriteVerdict, Goto, SetStatus, Release, counters
<1>12. ASSUME NEW w \in Workers, MarkCompletedRaises(w) PROVE Ownership'
  BY <1>12 DEF MarkCompletedRaises, Goto, SetStatus
<1>13. ASSUME NEW w \in Workers, Crash(w) PROVE Ownership'
  BY <1>13 DEF Crash, Goto, Release
<1>14. CASE UNCHANGED vars
  BY <1>14 DEF vars, counters
<1>15. QED
  BY <1>1, <1>2, <1>3, <1>4, <1>5, <1>6, <1>7, <1>8, <1>9, <1>10, <1>11, <1>12, <1>13, <1>14 DEF Next, WorkerStep

\* attempts >= max_attempts, the code's test, means that none is left.
LEMMA ExhaustedMeansMax ==
    ASSUME TypeOK, NEW k \in Keys
    PROVE  /\ jobs[k].attempts >= MaxAttempts <=> jobs[k].attempts = MaxAttempts
           /\ jobs[k].attempts < MaxAttempts <=> jobs[k].attempts # MaxAttempts
  BY DEF TypeOK, Job

LEMMA AttemptsStep == Inv /\ [Next]_vars => Attempts'
<1> SUFFICES ASSUME Inv, [Next]_vars PROVE Attempts'
  OBVIOUS
<1> USE DEF Inv, Ownership, WorkerOwnsItsJob, NoOverlapWithinLease, Attempts, VerdictIsCurrent, PendingIsClaimable, FailedIsExhausted, Undisturbed, OneWorker, Holds, Busy, TypeOK, Job
<1>a. \A k \in Keys :
        /\ jobs[k].attempts >= MaxAttempts <=> jobs[k].attempts = MaxAttempts
        /\ jobs[k].attempts < MaxAttempts <=> jobs[k].attempts # MaxAttempts
  BY ExhaustedMeansMax
<1>1. ASSUME NEW k \in Keys, Create(k) PROVE Attempts'
  BY <1>1 DEF Create, NewJob, counters, Exists
<1>2. ASSUME NEW k \in Keys, Requeue(k) PROVE Attempts'
  BY <1>2 DEF Requeue, NewJob
<1>3. ASSUME NEW k \in Keys, LeaseExpires(k) PROVE Attempts'
  BY <1>3 DEF LeaseExpires, counters, Held
<1>4. ASSUME NEW w \in Workers, Start(w) PROVE Attempts'
  BY <1>4 DEF Start, Goto, counters
<1>5. ASSUME NEW w \in Workers, Sweep(w) PROVE Attempts'
  <2>1. \A k \in Keys :
          /\ jobs'[k].attempts = jobs[k].attempts
          /\ \/ jobs'[k].status = jobs[k].status
             \/ jobs'[k].status = "FAILED" /\ jobs[k].attempts >= MaxAttempts
    BY <1>5 DEF Sweep, StaleProcessing
  <2>2. pc' = [pc EXCEPT ![w] = "claim"] /\ UNCHANGED <<claimed, verdict, overran>>
    BY <1>5 DEF Sweep, Goto
  <2>3. VerdictIsCurrent'
    BY <2>1, <2>2
  <2>4. ASSUME NEW k \in Undisturbed'
        PROVE  /\ jobs'[k].status = "PENDING" => jobs'[k].attempts < MaxAttempts
               /\ jobs'[k].status = "FAILED" => jobs'[k].attempts = MaxAttempts
    <3>1. k \in Undisturbed
      BY <2>2, <2>4
    <3>2. /\ jobs[k].status = "PENDING" => jobs[k].attempts < MaxAttempts
          /\ jobs[k].status = "FAILED" => jobs[k].attempts = MaxAttempts
      BY <3>1
    <3>3. QED
      <4> HIDE DEF Inv, Undisturbed
      <4>1. k \in Keys
        BY <3>1 DEF Undisturbed
      <4>2. QED
        BY <1>a, <2>1, <3>2, <4>1, Zenon
  <2>5. QED
    BY <2>3, <2>4
<1>6. ASSUME NEW w \in Workers, Claim(w) PROVE Attempts'
  BY <1>6 DEF Claim, Goto, counters, Claimable, StaleProcessing
<1>7. ASSUME NEW w \in Workers, Sleep(w) PROVE Attempts'
  BY <1>7 DEF Sleep, Goto, counters
<1>8. ASSUME NEW w \in Workers, Return(w) \/ Raise(w) PROVE Attempts'
  BY <1>8 DEF Return, Raise, Goto, counters
<1>9. ASSUME NEW w \in Workers, MarkCompleted(w) PROVE Attempts'
  BY <1>9 DEF MarkCompleted, Goto, SetStatus, Release, counters
<1>10. ASSUME NEW w \in Workers, ReadAttempts(w) PROVE Attempts'
  <2>1. PendingIsClaimable' /\ FailedIsExhausted'
    BY <1>10 DEF ReadAttempts
  <2>2. VerdictIsCurrent'
    <3>1. ASSUME NEW k \in Undisturbed', NEW v \in Workers, Holds(v, k)', pc'[v] = "write"
          PROVE  verdict'[v] = "FAILED" <=> jobs'[k].attempts = MaxAttempts
      <4>1. CASE v = w
        <5>1. claimed[w] = k /\ k \in Keys
          BY <1>10, <3>1, <4>1 DEF ReadAttempts
        <5>2. verdict'[w] = IF jobs[k].attempts >= MaxAttempts THEN "FAILED" ELSE "PENDING"
          BY <1>10, <5>1 DEF ReadAttempts
        <5>3. QED
          <6> HIDE DEF Inv
          <6>1. jobs' = jobs
            BY <1>10 DEF ReadAttempts
          <6>2. QED
            BY <1>a, <4>1, <5>1, <5>2, <6>1
      <4>2. CASE v # w
        BY <1>10, <3>1, <4>2 DEF ReadAttempts, Goto
      <4>3. QED
        BY <4>1, <4>2
    <3>2. QED
      BY <3>1
  <2>3. QED
    BY <2>1, <2>2
<1>11. ASSUME NEW w \in Workers, WriteVerdict(w) PROVE Attempts'
  <2>1. /\ claimed[w] \in Keys
        /\ jobs' = [jobs EXCEPT ![claimed[w]].status = verdict[w]]
        /\ \A k \in Keys : jobs'[k].attempts = jobs[k].attempts
        /\ UNCHANGED overran
        /\ \A v \in Workers : pc'[v] = "write" => verdict'[v] = verdict[v] /\ pc[v] = "write"
        /\ \A v \in Workers, k \in Keys : Holds(v, k)' => Holds(v, k)
    BY <1>11 DEF WriteVerdict, SetStatus, Goto, Release
  <2>2. VerdictIsCurrent'
    BY <2>1
  <2>3. ASSUME NEW k \in Undisturbed', k # claimed[w]
        PROVE  jobs'[k] = jobs[k]
    BY <2>1, <2>3
  <2>4. ASSUME claimed[w] \in Undisturbed'
        PROVE  /\ jobs'[claimed[w]].status = verdict[w]
               /\ verdict[w] = "FAILED" <=> jobs[claimed[w]].attempts = MaxAttempts
    BY <1>11, <2>1, <2>4 DEF WriteVerdict
  <2>5. ASSUME NEW k \in Undisturbed'
        PROVE  /\ jobs'[k].status = "PENDING" => jobs'[k].attempts < MaxAttempts
               /\ jobs'[k].status = "FAILED" => jobs'[k].attempts = MaxAttempts
    <3>1. CASE k = claimed[w]
      <4> HIDE DEF Inv
      <4>1. jobs'[k].status = verdict[w] /\ (verdict[w] = "FAILED" <=> jobs[k].attempts = MaxAttempts)
        BY <2>4, <2>5, <3>1
      <4>2. k \in Keys /\ jobs'[k].attempts = jobs[k].attempts
        BY <2>1, <3>1
      <4>3. jobs'[k].status = "PENDING" => verdict[w] # "FAILED"
        BY <4>1
      <4>4. QED
        BY <1>a, <4>1, <4>2, <4>3
    <3>2. CASE k # claimed[w]
      BY <2>1, <2>3, <2>5, <3>2
    <3>3. QED
      BY <3>1, <3>2
  <2>6. QED
    BY <2>2, <2>5
<1>12. ASSUME NEW w \in Workers, MarkCompletedRaises(w) PROVE Attempts'
  BY <1>12 DEF MarkCompletedRaises, Goto, SetStatus
<1>13. ASSUME NEW w \in Workers, Crash(w) PROVE Attempts'
  BY <1>13 DEF Crash, Goto, Release
<1>14. CASE UNCHANGED vars
  BY <1>14 DEF vars, counters
<1>15. QED
  BY <1>1, <1>2, <1>3, <1>4, <1>5, <1>6, <1>7, <1>8, <1>9, <1>10, <1>11, <1>12, <1>13, <1>14 DEF Next, WorkerStep

LEMMA CountingStep == Inv /\ [Next]_vars => Counting'
<1> SUFFICES ASSUME Inv, [Next]_vars PROVE Counting'
  OBVIOUS
<1> USE DEF Inv, Counting, AbsentIsUntried, RunsCounted, TypeOK, Job
<1>1. ASSUME NEW k \in Keys, Create(k) PROVE Counting'
  BY <1>1 DEF Create, NewJob, counters, Exists
<1>2. ASSUME NEW k \in Keys, Requeue(k) PROVE Counting'
  <2>1. AbsentIsUntried'
    BY <1>2 DEF Requeue, NewJob
  <2>2. ASSUME NEW l \in Keys, l # k
        PROVE  runs'[l] <= MaxAttempts * requeues'[l] + jobs'[l].attempts
    BY <1>2, <2>2 DEF Requeue
  <2>3. runs'[k] <= MaxAttempts * requeues'[k] + jobs'[k].attempts
    <3>1. runs'[k] = runs[k] /\ requeues'[k] = requeues[k] + 1 /\ jobs'[k].attempts = 0
      BY <1>2 DEF Requeue, NewJob
    <3>2. runs[k] <= MaxAttempts * requeues[k] + jobs[k].attempts
      OBVIOUS
    <3>3. jobs[k].attempts <= MaxAttempts
      OBVIOUS
    <3>4. /\ runs[k] \in Int /\ jobs[k].attempts \in Int /\ MaxAttempts \in Int
          /\ requeues[k] \in Int /\ MaxAttempts * requeues[k] \in Int
      OBVIOUS
    <3>5. MaxAttempts * (requeues[k] + 1) = MaxAttempts * requeues[k] + MaxAttempts
      BY <3>4
    <3>6. QED
      BY <3>1, <3>2, <3>3, <3>4, <3>5
  <2>4. QED
    BY <2>1, <2>2, <2>3
<1>3. ASSUME NEW k \in Keys, LeaseExpires(k) PROVE Counting'
  BY <1>3 DEF LeaseExpires, counters, Held
<1>4. ASSUME NEW w \in Workers, Start(w) PROVE Counting'
  BY <1>4 DEF Start, Goto, counters
<1>5. ASSUME NEW w \in Workers, Sweep(w) PROVE Counting'
  BY <1>5 DEF Sweep, Goto, counters, StaleProcessing
<1>6. ASSUME NEW w \in Workers, Claim(w) PROVE Counting'
  BY <1>6 DEF Claim, Goto, counters, Claimable, StaleProcessing
<1>7. ASSUME NEW w \in Workers, Sleep(w) PROVE Counting'
  BY <1>7 DEF Sleep, Goto, counters
<1>8. ASSUME NEW w \in Workers, Return(w) \/ Raise(w) PROVE Counting'
  BY <1>8 DEF Return, Raise, Goto, counters
<1>9. ASSUME NEW w \in Workers, MarkCompleted(w) PROVE Counting'
  BY <1>9 DEF MarkCompleted, Goto, SetStatus, Release, counters
<1>10. ASSUME NEW w \in Workers, ReadAttempts(w) PROVE Counting'
  BY <1>10 DEF ReadAttempts, Goto, counters
<1>11. ASSUME NEW w \in Workers, WriteVerdict(w) PROVE Counting'
  BY <1>11 DEF WriteVerdict, Goto, SetStatus, Release, counters
<1>12. ASSUME NEW w \in Workers, MarkCompletedRaises(w) PROVE Counting'
  BY <1>12 DEF MarkCompletedRaises, Goto, SetStatus
<1>13. ASSUME NEW w \in Workers, Crash(w) PROVE Counting'
  BY <1>13 DEF Crash, Goto, Release
<1>14. CASE UNCHANGED vars
  BY <1>14 DEF vars, counters
<1>15. QED
  BY <1>1, <1>2, <1>3, <1>4, <1>5, <1>6, <1>7, <1>8, <1>9, <1>10, <1>11, <1>12, <1>13, <1>14 DEF Next, WorkerStep

LEMMA InvInit == Init => Inv
  BY TypeInit DEF Init, Inv, Ownership, WorkerOwnsItsJob, NoOverlapWithinLease, Attempts,
     VerdictIsCurrent, PendingIsClaimable, FailedIsExhausted, Counting, AbsentIsUntried,
     RunsCounted, Holds, Busy, NoJob, Undisturbed

LEMMA InvStep == Inv /\ [Next]_vars => Inv'
  BY TypeStep, OwnershipStep, AttemptsStep, CountingStep DEF Inv

\* The inductive invariant holds of every behaviour of the queue.
THEOREM Invariance == Spec => []Inv
  BY InvInit, InvStep, PTL DEF Spec

-----------------------------------------------------------------------------
LEMMA RunsAccounted == Inv => RunsBounded
<1> SUFFICES ASSUME Inv, NEW k \in Keys
             PROVE  runs[k] <= MaxAttempts * (requeues[k] + 1)
  BY DEF RunsBounded
<1>1. /\ runs[k] \in Int /\ jobs[k].attempts \in Int /\ jobs[k].attempts <= MaxAttempts
      /\ MaxAttempts \in Int /\ requeues[k] \in Int
  BY DEF Inv, TypeOK, Job
<1>2. runs[k] <= MaxAttempts * requeues[k] + jobs[k].attempts
  BY DEF Inv, Counting, RunsCounted
<1>3. MaxAttempts * (requeues[k] + 1) = MaxAttempts * requeues[k] + MaxAttempts
  BY <1>1
<1>4. MaxAttempts * requeues[k] \in Int
  BY <1>1
<1>5. QED
  BY <1>1, <1>2, <1>3, <1>4

\* A job runs at most MaxAttempts times per submission or requeue, with any
\* number of workers, crashes and lost replies.
THEOREM RunsAreBounded == Spec => []RunsBounded
  BY Invariance, RunsAccounted, PTL

\* Two workers never have the same undisturbed job.
THEOREM Exclusion == Spec => []NoOverlapWithinLease
<1>1. Inv => NoOverlapWithinLease
  BY DEF Inv, Ownership
<1>2. QED
  BY Invariance, <1>1, PTL

\* A worker finds its undisturbed job as it left it when it writes its result.
THEOREM OwnJob == Spec => []WorkerOwnsItsJob
<1>1. Inv => WorkerOwnsItsJob
  BY DEF Inv, Ownership
<1>2. QED
  BY Invariance, <1>1, PTL

\* No undisturbed job waits as PENDING without an attempt left.
THEOREM PendingAlwaysClaimable == Spec => []PendingIsClaimable
<1>1. Inv => PendingIsClaimable
  BY DEF Inv, Attempts
<1>2. QED
  BY Invariance, <1>1, PTL

\* No undisturbed job is given up with an attempt left.
THEOREM FailedAlwaysExhausted == Spec => []FailedIsExhausted
<1>1. Inv => FailedIsExhausted
  BY DEF Inv, Attempts
<1>2. QED
  BY Invariance, <1>1, PTL

-----------------------------------------------------------------------------
(* What the components built on the queue need to know of its steps. *)

\* A worker's job is in the table.
InHandExists == \A w \in Workers : pc[w] \in Busy => Exists(claimed[w])

\* No document is ever deleted.
LEMMA JobsStay ==
    ASSUME TypeOK, [Next]_vars, NEW k \in Keys, Exists(k)
    PROVE  Exists(k)'
<1> USE DEF TypeOK, Exists, Job
<1>1. CASE \E l \in Keys : Create(l) \/ Requeue(l) \/ LeaseExpires(l)
  BY <1>1 DEF Create, Requeue, LeaseExpires, NewJob
<1>2. ASSUME NEW w \in Workers, Sweep(w) PROVE Exists(k)'
  BY <1>2 DEF Sweep
<1>3. ASSUME NEW w \in Workers, Claim(w) PROVE Exists(k)'
  BY <1>3 DEF Claim
<1>4. ASSUME NEW w \in Workers, MarkCompleted(w) \/ MarkCompletedRaises(w) \/ WriteVerdict(w)
      PROVE  Exists(k)'
  <2>1. PICK s \in {"COMPLETED", "PENDING", "FAILED"} :
             jobs' = jobs \/ jobs' = [jobs EXCEPT ![claimed[w]].status = s]
    BY <1>4 DEF MarkCompleted, MarkCompletedRaises, WriteVerdict, SetStatus
  <2>2. QED
    BY <2>1
<1>5. ASSUME NEW w \in Workers,
             Start(w) \/ Sleep(w) \/ Return(w) \/ Raise(w) \/ ReadAttempts(w) \/ Crash(w)
      PROVE  Exists(k)'
  BY <1>5 DEF Start, Sleep, Return, Raise, ReadAttempts, Crash
<1>6. CASE UNCHANGED vars
  BY <1>6 DEF vars
<1>7. QED
  BY <1>1, <1>2, <1>3, <1>4, <1>5, <1>6 DEF Next, WorkerStep

LEMMA OverranStays == [Next]_vars => overran \subseteq overran'
  BY DEF Next, WorkerStep, Create, Requeue, LeaseExpires, Start, Sweep, Claim, Sleep, Return, Raise,
     MarkCompleted, ReadAttempts, WriteVerdict, MarkCompletedRaises, Crash, vars, counters

LEMMA InHandInit == Init => InHandExists
  BY DEF Init, InHandExists, Busy

LEMMA InHandStep == ASSUME TypeOK, InHandExists, [Next]_vars PROVE InHandExists'
<1>1. ASSUME NEW w \in Workers, claimed'[w] = claimed[w], pc[w] \in Busy
      PROVE  Exists(claimed[w])'
  BY <1>1, JobsStay DEF TypeOK, InHandExists
<1>2. ASSUME NEW w \in Workers, pc'[w] \in Busy
      PROVE  \/ claimed'[w] = claimed[w] /\ pc[w] \in Busy
             \/ Exists(claimed[w])'
  <2> USE DEF TypeOK, Busy
  <2>1. CASE \E l \in Keys : Create(l) \/ Requeue(l) \/ LeaseExpires(l)
    BY <1>2, <2>1 DEF Create, Requeue, LeaseExpires
  <2>2. ASSUME NEW v \in Workers, Claim(v)
        PROVE  \/ claimed'[w] = claimed[w] /\ pc[w] \in Busy
               \/ Exists(claimed[w])'
    BY <1>2, <2>2 DEF Claim, Goto, Exists, Job
  <2>3. ASSUME NEW v \in Workers,
               \/ Start(v) \/ Sweep(v) \/ Sleep(v) \/ Return(v) \/ Raise(v)
               \/ MarkCompleted(v) \/ ReadAttempts(v) \/ WriteVerdict(v)
               \/ MarkCompletedRaises(v) \/ Crash(v)
        PROVE  claimed'[w] = claimed[w] /\ pc[w] \in Busy
    BY <1>2, <2>3 DEF Start, Sweep, Sleep, Return, Raise, MarkCompleted, ReadAttempts,
       WriteVerdict, MarkCompletedRaises, Crash, Goto, Release
  <2>4. CASE UNCHANGED vars
    BY <1>2, <2>4 DEF vars
  <2>5. QED
    BY <2>1, <2>2, <2>3, <2>4 DEF Next, WorkerStep
<1>3. QED
  BY <1>1, <1>2 DEF InHandExists, Exists

-----------------------------------------------------------------------------
(* With one worker the queue implements JobLifecycle. *)

LEMMA LifecycleInit == Init => Lifecycle!Init
  BY DEF Init, Lifecycle!Init, Held, Holds, Busy, NoJob

\* The only worker there is holds whatever is held.
LEMMA OneHolder ==
    ASSUME OneWorker, NEW w \in Workers, NEW l \in Keys
    PROVE  /\ Held(l) <=> Holds(w, l)
           /\ Held(l)' <=> Holds(w, l)'
  BY DEF OneWorker, Held, Holds

\* With one worker, a job in hand is PROCESSING, or COMPLETED by that worker.
LEMMA HeldStatus ==
    ASSUME OneWorker, Inv, NEW l \in Keys, Held(l)
    PROVE  jobs[l].status \in {"PROCESSING", "COMPLETED"}
  BY DEF Inv, Ownership, WorkerOwnsItsJob, Undisturbed, Held

LEMMA LifecycleKeyStep ==
    ASSUME OneWorker, Inv, Next, NEW l \in Keys
    PROVE  Lifecycle!KeyStep(l)
<1> DEFINE st  == IF Held(l) THEN "PROCESSING" ELSE jobs[l].status
           tr  == jobs[l].attempts
<1>a. SUFFICES \/ st = "NONE" /\ st' = "PENDING" /\ tr' = 0
               \/ st \in {"PENDING", "PROCESSING"} /\ st' = "PROCESSING"
                    /\ tr < MaxAttempts /\ tr' = tr + 1
               \/ st = "PROCESSING" /\ st' = "PENDING" /\ tr < MaxAttempts /\ tr' = tr
               \/ st = "PROCESSING" /\ st' = "COMPLETED" /\ tr' = tr
               \/ st = "PROCESSING" /\ st' = "FAILED" /\ tr = MaxAttempts /\ tr' = tr
               \/ st = "FAILED" /\ st' = "PENDING" /\ tr' = 0
               \/ st' = st /\ tr' = tr
  BY DEF Lifecycle!KeyStep, Lifecycle!Submit, Lifecycle!Attempt, Lifecycle!Retry,
         Lifecycle!Succeed, Lifecycle!GiveUp, Lifecycle!Requeue, Lifecycle!Same,
         Lifecycle!Moves
<1>b. TypeOK /\ l \in Undisturbed
  BY DEF Inv, Undisturbed
<1>c. /\ jobs[l].attempts >= MaxAttempts <=> jobs[l].attempts = MaxAttempts
      /\ jobs[l].attempts < MaxAttempts <=> jobs[l].attempts # MaxAttempts
  BY <1>b, ExhaustedMeansMax
<1>d. Held(l) => jobs[l].status \in {"PROCESSING", "COMPLETED"}
  BY HeldStatus
<1> USE DEF TypeOK, Job, JobStatus
<1> HIDE DEF Inv
<1>1. CASE \E k \in Keys : Create(k)
  <2>1. PICK k \in Keys : Create(k)
    BY <1>1
  <2>2. Held(l)' <=> Held(l)
    BY <2>1 DEF Create, Held, Holds
  <2>3. QED
    BY <1>b, <1>d, <2>1, <2>2 DEF Create, NewJob, Exists
<1>2. CASE \E k \in Keys : Requeue(k)
  <2>1. PICK k \in Keys : Requeue(k)
    BY <1>2
  <2>2. Held(l)' <=> Held(l)
    BY <2>1 DEF Requeue, Held, Holds
  <2>3. QED
    BY <1>b, <1>d, <2>1, <2>2 DEF Requeue, NewJob
<1>3. CASE \E k \in Keys : LeaseExpires(k)
  <2>1. PICK k \in Keys : LeaseExpires(k)
    BY <1>3
  <2>2. Held(l)' <=> Held(l)
    BY <2>1 DEF LeaseExpires, Held, Holds
  <2>3. QED
    BY <1>b, <1>d, <2>1, <2>2 DEF LeaseExpires
<1>4. CASE \E w \in Workers : Start(w)
  <2>1. PICK w \in Workers : Start(w)
    BY <1>4
  <2>2. (Held(l) <=> Holds(w, l)) /\ (Held(l)' <=> Holds(w, l)')
    BY OneHolder
  <2>3. QED
    BY <1>b, <1>c, <1>d, <2>1, <2>2 DEF Start, Goto, Holds, Busy
<1>5. CASE \E w \in Workers : Sweep(w)
  <2>1. PICK w \in Workers : Sweep(w)
    BY <1>5
  <2>2. (Held(l) <=> Holds(w, l)) /\ (Held(l)' <=> Holds(w, l)')
    BY OneHolder
  <2>3. QED
    BY <1>b, <1>c, <1>d, <2>1, <2>2 DEF Sweep, Goto, StaleProcessing, Holds, Busy
<1>6. CASE \E w \in Workers : Claim(w)
  <2>1. PICK w \in Workers : Claim(w)
    BY <1>6
  <2>2. (Held(l) <=> Holds(w, l)) /\ (Held(l)' <=> Holds(w, l)')
    BY OneHolder
  <2>3. QED
    BY <1>b, <1>c, <1>d, <2>1, <2>2 DEF Claim, Goto, Claimable, StaleProcessing, Holds, Busy
<1>7. CASE \E w \in Workers : Sleep(w)
  <2>1. PICK w \in Workers : Sleep(w)
    BY <1>7
  <2>2. (Held(l) <=> Holds(w, l)) /\ (Held(l)' <=> Holds(w, l)')
    BY OneHolder
  <2>3. QED
    BY <1>b, <1>c, <1>d, <2>1, <2>2 DEF Sleep, Goto, Holds, Busy
<1>8. CASE \E w \in Workers : Return(w) \/ Raise(w)
  <2>1. PICK w \in Workers : Return(w) \/ Raise(w)
    BY <1>8
  <2>2. (Held(l) <=> Holds(w, l)) /\ (Held(l)' <=> Holds(w, l)')
    BY OneHolder
  <2>3. QED
    BY <1>b, <1>c, <1>d, <2>1, <2>2 DEF Return, Raise, Goto, Holds, Busy
<1>9. CASE \E w \in Workers : MarkCompleted(w)
  <2>1. PICK w \in Workers : MarkCompleted(w)
    BY <1>9
  <2>2. (Held(l) <=> Holds(w, l)) /\ (Held(l)' <=> Holds(w, l)')
    BY OneHolder
  <2>3. QED
    BY <1>b, <1>c, <1>d, <2>1, <2>2 DEF MarkCompleted, Goto, SetStatus, Release, Holds, Busy
<1>10. CASE \E w \in Workers : ReadAttempts(w)
  <2>1. PICK w \in Workers : ReadAttempts(w)
    BY <1>10
  <2>2. (Held(l) <=> Holds(w, l)) /\ (Held(l)' <=> Holds(w, l)')
    BY OneHolder
  <2>3. QED
    BY <1>b, <1>c, <1>d, <2>1, <2>2 DEF ReadAttempts, Goto, Holds, Busy
<1>11. CASE \E w \in Workers : WriteVerdict(w)
  <2>1. PICK w \in Workers : WriteVerdict(w)
    BY <1>11
  <2>2. (Held(l) <=> Holds(w, l)) /\ (Held(l)' <=> Holds(w, l)')
    BY OneHolder
  <2>3. QED
    <3>1. CASE Holds(w, l)
      <4>1. verdict[w] = "FAILED" <=> jobs[l].attempts = MaxAttempts
        BY <1>b, <2>1, <3>1 DEF WriteVerdict, Inv, Attempts, VerdictIsCurrent
      <4>2. jobs'[l].status = verdict[w] /\ jobs'[l].attempts = jobs[l].attempts
        BY <1>b, <2>1, <3>1 DEF WriteVerdict, SetStatus, Holds
      <4>3. ~Held(l)' /\ verdict[w] \in {"PENDING", "FAILED"}
        BY <1>b, <2>1, <2>2 DEF WriteVerdict, Goto, Holds, Busy
      <4>4. QED
        BY <1>c, <2>2, <3>1, <4>1, <4>2, <4>3
    <3>2. CASE ~Holds(w, l)
      BY <1>b, <2>1, <2>2, <3>2 DEF WriteVerdict, Goto, SetStatus, Release, Holds, Busy
    <3>3. QED
      BY <3>1, <3>2
<1>12. CASE \E w \in Workers : MarkCompletedRaises(w)
  <2>1. PICK w \in Workers : MarkCompletedRaises(w)
    BY <1>12
  <2>2. (Held(l) <=> Holds(w, l)) /\ (Held(l)' <=> Holds(w, l)')
    BY OneHolder
  <2>3. QED
    BY <1>b, <1>c, <1>d, <2>1, <2>2 DEF MarkCompletedRaises, Goto, SetStatus, Holds, Busy
<1>13. CASE \E w \in Workers : Crash(w)
  <2>1. PICK w \in Workers : Crash(w)
    BY <1>13
  <2>2. (Held(l) <=> Holds(w, l)) /\ (Held(l)' <=> Holds(w, l)')
    BY OneHolder
  <2>3. QED
    BY <1>b, <1>c, <1>d, <2>1, <2>2 DEF Crash, Goto, Release, Holds, Busy
<1>14. QED
  BY <1>1, <1>2, <1>3, <1>4, <1>5, <1>6, <1>7, <1>8, <1>9, <1>10, <1>11, <1>12, <1>13 DEF Next, WorkerStep

LEMMA LifecycleStep ==
    ASSUME OneWorker, Inv, Inv', [Next]_vars
    PROVE  [Lifecycle!Next]_(Lifecycle!vars)
<1>1. CASE UNCHANGED vars
  BY <1>1 DEF vars, Lifecycle!vars, Held, Holds
<1>2. CASE Next
  <2>1. \A l \in Keys : Lifecycle!KeyStep(l)
    BY <1>2, LifecycleKeyStep
  <2>2. \A l \in Keys : /\ (IF Held(l) THEN "PROCESSING" ELSE jobs[l].status)' \in JobStatus
                        /\ jobs'[l].attempts \in 0..MaxAttempts
    BY DEF Inv, TypeOK, Job, JobStatus
  <2>3. QED
    BY <2>1, <2>2 DEF Lifecycle!Next, Lifecycle!JobStates, JobStatus
<1>3. QED
  BY <1>1, <1>2

\* A single worker, with any crashes, errors, lost replies and requeues,
\* implements the abstract lifecycle: COMPLETED is final, FAILED comes after the
\* last attempt and ends only by a requeue.
THEOREM Refinement == ASSUME OneWorker PROVE Spec => LifecycleSpec
  BY Invariance, LifecycleInit, LifecycleStep, PTL DEF Spec, LifecycleSpec, Lifecycle!Spec
=============================================================================
