-------------------- MODULE MediationWorkflowOutputProofs --------------------
(***************************************************************************)
(* Proofs about what the handlers of a mediation session produce.  Advice  *)
(* comes before the status that announces it, and a result before the      *)
(* COMPLETED of its job, for any number of workers and requests.  The rest *)
(* needs one request at a time of each user (OneTab): otherwise a draft    *)
(* that was read before the submission overwrites it.  Grounded then       *)
(* follows a perspective from its submission through the moderation to the *)
(* jobs made from it.  That a COMPLETED moderation created those jobs also *)
(* needs that no worker has overrun a lease: of two workers about to lock  *)
(* the same perspective, the second finds it locked and completes the job  *)
(* while the first has yet to create the reflection job.                   *)
(***************************************************************************)
EXTENDS MediationWorkflowProofs

-----------------------------------------------------------------------------
(* Which steps change a request, a worker, a perspective, a job. *)

LEMMA CallMoves ==
    ASSUME Typed, [Next]_vars, NEW c \in Calls
    PROVE  \/ call'[c] = call[c]
           \/ DraftReads(c) \/ SubmitReads(c) \/ CommentReads(c) \/ CallContinues(c) \/ CallAborts(c)
<1>b. call \in [Calls -> [at : CallSteps, sawAdvice : BOOLEAN, about : SUBSET Comments]]
  BY DEF Typed, TypeOK
<1>1. ASSUME NEW d \in Calls, d # c,
             DraftReads(d) \/ SubmitReads(d) \/ CommentReads(d) \/ CallContinues(d) \/ CallAborts(d)
      PROVE  call'[c] = call[c]
  <2>1. PICK v : call' = [call EXCEPT ![d] = v]
    <3> USE DEF CallTo, CallEnds
    <3>1. CASE DraftReads(d) \/ SubmitReads(d) \/ CommentReads(d) \/ CallAborts(d)
      BY <1>b, <3>1 DEF DraftReads, SubmitReads, CommentReads, CallAborts
    <3>2. CASE DraftUpserts(d) \/ SubmitMarks(d) \/ SubmitEnqueues(d)
      BY <1>b, <3>2 DEF DraftUpserts, SubmitMarks, SubmitEnqueues
    <3>3. CASE CommentInserts(d)
      BY <1>b, <3>3 DEF CommentInserts
    <3>4. CASE CommentEnqueues(d) \/ CommentOpens(d)
      BY <1>b, <3>4 DEF CommentEnqueues, CommentOpens
    <3>5. QED
      BY <1>1, <3>1, <3>2, <3>3, <3>4 DEF CallContinues
  <2>2. QED
    BY <1>b, <1>1, <2>1
<1>2. ASSUME NEW w \in Workers, WorkerStep(w) \/ WorkerFault(w) PROVE call'[c] = call[c]
  <2>1. CASE HandlerStep(w)
    BY <2>1, HandlerTypeStep
  <2>2. QED
    BY <1>2, <2>1 DEF WorkerStep, WorkerFault
<1>3. ASSUME NEW k \in JobKeys, LeaseExpires(k) \/ OperatorRequeues(k) PROVE call'[c] = call[c]
  BY <1>3 DEF LeaseExpires, OperatorRequeues
<1>4. CASE AgreementStep
  BY <1>4 DEF AgreementStep
<1>5. CASE UNCHANGED vars
  BY <1>5 DEF vars
<1>6. QED
  BY <1>1, <1>2, <1>3, <1>4, <1>5 DEF Next

\* What the loop does to a worker: it takes a job, goes from a handler that is
\* done to mark_completed, or is neither in a handler nor there afterwards.
LoopMoves(w) ==
    \/ step'[w] = step[w] /\ pc'[w] = pc[w] /\ claimed'[w] = claimed[w]
    \/ /\ pc'[w] = "process" /\ step'[w] = [step[w] EXCEPT !.at = "start"]
    \/ /\ pc[w] = "process" /\ step[w].at = "done"
       /\ pc'[w] = "complete" /\ claimed'[w] = claimed[w] /\ step'[w] = NotRunning
    \/ /\ pc'[w] \notin {"process", "complete"}
       /\ step'[w] = NotRunning \/ step'[w] = step[w]

LEMMA WorkerMoves ==
    ASSUME Typed, [Next]_vars, NEW w \in Workers
    PROVE  HandlerStep(w) \/ LoopMoves(w)
<1>b. /\ step \in [Workers -> [at : HandlerSteps, sawAdvice : BOOLEAN]]
      /\ pc \in [Workers -> QueueProofs!PCs]
      /\ claimed \in [Workers -> JobKeys \cup {NoKey}]
  BY DEF Typed, TypeOK, QueueProofs!TypeOK
<1> USE DEF LoopMoves
<1>1. ASSUME NEW v \in Workers, HandlerStep(v), v # w PROVE LoopMoves(w)
  BY <1>1, HandlerTypeStep
<1>2. ASSUME NEW v \in Workers, LoopStep(v) PROVE LoopMoves(w)
  BY <1>b, <1>2 DEF LoopStep, Queue!Start, Queue!Sweep, Queue!Sleep, Queue!MarkCompleted,
     Queue!ReadAttempts, Queue!WriteVerdict, Queue!Goto, Queue!Release
<1>3. ASSUME NEW v \in Workers, Claims(v) PROVE LoopMoves(w)
  BY <1>b, <1>3 DEF Claims, To, Queue!Claim, Queue!Goto
<1>4. ASSUME NEW v \in Workers, Returns(v) PROVE LoopMoves(w)
  BY <1>b, <1>4 DEF Returns, Queue!Return, Queue!Goto, Stops
<1>5. ASSUME NEW v \in Workers, RaisesException(v) PROVE LoopMoves(w)
  BY <1>b, <1>5 DEF RaisesException, Queue!Raise, Queue!Goto, Stops
<1>6. ASSUME NEW v \in Workers, WorkerFault(v) PROVE LoopMoves(w)
  <2>1. CASE Dies(v)
    BY <1>b, <2>1 DEF Dies, Queue!Crash, Queue!Goto, Queue!Release, Stops
  <2>2. CASE Queue!MarkCompletedRaises(v) /\ UNCHANGED step
    BY <1>b, <2>2 DEF Queue!MarkCompletedRaises, Queue!Goto
  <2>3. QED
    BY <1>6, <2>1, <2>2 DEF WorkerFault
<1>7. ASSUME UNCHANGED <<step, pc, claimed>> PROVE LoopMoves(w)
  BY <1>7
<1>8. ASSUME NEW c \in Calls,
             DraftReads(c) \/ SubmitReads(c) \/ CommentReads(c) \/ CallContinues(c) \/ CallAborts(c)
      PROVE  LoopMoves(w)
  BY <1>7, <1>8 DEF DraftReads, SubmitReads, CommentReads, CallContinues, CallAborts, DraftUpserts,
     SubmitMarks, SubmitEnqueues, CommentInserts, CommentEnqueues, CommentOpens, queueVars, Queue!Create
<1>9. ASSUME NEW k \in JobKeys, LeaseExpires(k) \/ OperatorRequeues(k) PROVE LoopMoves(w)
  BY <1>7, <1>9 DEF LeaseExpires, OperatorRequeues, Queue!LeaseExpires, Queue!Requeue
<1>10. ASSUME AgreementStep \/ UNCHANGED vars PROVE LoopMoves(w)
  BY <1>7, <1>10 DEF AgreementStep, vars, queueVars
<1>11. QED
  BY <1>1, <1>2, <1>3, <1>4, <1>5, <1>6, <1>8, <1>9, <1>10 DEF Next, WorkerStep

\* The only writes to the perspective of u.
PerspMoves(u) ==
    \/ persp'[u] = persp[u]
    \/ \E c \in Calls : c[1] = u /\ DraftUpserts(c)
    \/ /\ \E c \in Calls : c[1] = u /\ SubmitMarks(c)
       /\ persp[u].status = "DRAFT"
       /\ persp'[u] = [persp[u] EXCEPT !.status = "SUBMITTED_PENDING_REVIEW"]
    \/ /\ \E w \in Workers : Subject(w) = u /\ LocksPerspective(w)
       /\ persp[u].status = "SUBMITTED_PENDING_REVIEW"
       /\ persp'[u] = [persp[u] EXCEPT !.status = "LOCKED"]

LEMMA PerspMove ==
    ASSUME Typed, [Next]_vars, NEW u \in Users
    PROVE  PerspMoves(u)
<1>b. persp \in [Users -> Perspective]
  BY DEF Typed, TypeOK
<1> USE DEF PerspMoves
<1>1. ASSUME NEW c \in Calls, DraftUpserts(c) PROVE PerspMoves(u)
  BY <1>b, <1>1 DEF DraftUpserts
<1>2. ASSUME NEW c \in Calls, SubmitMarks(c) PROVE PerspMoves(u)
  BY <1>b, <1>2 DEF SubmitMarks
<1>3. ASSUME NEW w \in Workers, LocksPerspective(w) PROVE PerspMoves(u)
  BY <1>b, <1>3 DEF LocksPerspective
<1>4. ASSUME NEW w \in Workers, WorkerStep(w) \/ WorkerFault(w), ~LocksPerspective(w)
      PROVE  UNCHANGED persp
  BY <1>4 DEF WorkerStep, WorkerFault, HandlerStep, ReadsPerspective, CreatesReflectionJob,
     CountsLocked, SetsPartialOrProcessing, CreatesAdviceJob, Reflects, InsertsReflection,
     BlocksOutput, Advises, InsertsAdvice, SetsLatestAdvice, ReadsSession, Responds, InsertsReply,
     SetsReviewOrOpen, docVars
<1>5. ASSUME NEW c \in Calls,
             DraftReads(c) \/ SubmitReads(c) \/ CommentReads(c) \/ CallContinues(c) \/ CallAborts(c),
             ~DraftUpserts(c), ~SubmitMarks(c)
      PROVE  UNCHANGED persp
  BY <1>5 DEF DraftReads, SubmitReads, CommentReads, CallContinues, CallAborts,
     SubmitEnqueues, CommentInserts, CommentEnqueues, CommentOpens, docVars
<1>6. ASSUME NEW k \in JobKeys, LeaseExpires(k) \/ OperatorRequeues(k) PROVE UNCHANGED persp
  BY <1>6 DEF LeaseExpires, OperatorRequeues, docVars
<1>7. CASE AgreementStep \/ UNCHANGED vars
  BY <1>7 DEF AgreementStep, vars, docVars
<1>8. QED
  BY <1>1, <1>2, <1>3, <1>4, <1>5, <1>6, <1>7 DEF Next

\* Stored results stay.
LEMMA ResultsStay ==
    ASSUME Typed, [Next]_vars
    PROVE  /\ advices > 0 => advices' > 0
           /\ latest => latest'
           /\ \A u \in Users : reflections[u] > 0 => reflections'[u] > 0
           /\ \A c \in Comments : replies[c] > 0 => replies'[c] > 0
<1>b. /\ advices \in Nat /\ reflections \in [Users -> Nat] /\ replies \in [Comments -> Nat]
  BY DEF Typed, TypeOK
<1>1. ASSUME UNCHANGED <<advices, latest, reflections, replies>>
      PROVE  /\ advices > 0 => advices' > 0
             /\ latest => latest'
             /\ \A u \in Users : reflections[u] > 0 => reflections'[u] > 0
             /\ \A c \in Comments : replies[c] > 0 => replies'[c] > 0
  BY <1>1
<1>2. ASSUME NEW w \in Workers, InsertsAdvice(w)
      PROVE  advices' > 0 /\ UNCHANGED <<latest, reflections, replies>>
  BY <1>b, <1>2 DEF InsertsAdvice, sessionVars
<1>3. ASSUME NEW w \in Workers, SetsLatestAdvice(w)
      PROVE  latest' /\ UNCHANGED <<advices, reflections, replies>>
  BY <1>b, <1>3 DEF SetsLatestAdvice, docVars
<1>4. ASSUME NEW w \in Workers, InsertsReflection(w)
      PROVE  /\ UNCHANGED <<advices, latest, replies>>
             /\ \A u \in Users : reflections[u] > 0 => reflections'[u] > 0
  BY <1>b, <1>4 DEF InsertsReflection, sessionVars
<1>5. ASSUME NEW w \in Workers, InsertsReply(w)
      PROVE  /\ UNCHANGED <<advices, latest, reflections>>
             /\ \A c \in Comments : replies[c] > 0 => replies'[c] > 0
  BY <1>b, <1>5 DEF InsertsReply, sessionVars
<1>6. ASSUME NEW w \in Workers, WorkerStep(w) \/ WorkerFault(w), ~InsertsAdvice(w),
             ~SetsLatestAdvice(w), ~InsertsReflection(w), ~InsertsReply(w)
      PROVE  UNCHANGED <<advices, latest, reflections, replies>>
  BY <1>6 DEF WorkerStep, WorkerFault, HandlerStep, ReadsPerspective, LocksPerspective,
     CreatesReflectionJob, CountsLocked, SetsPartialOrProcessing, CreatesAdviceJob, Reflects,
     BlocksOutput, Advises, ReadsSession, Responds, SetsReviewOrOpen, SetStatus, SetSafety,
     sessionVars, docVars
<1>7. ASSUME NEW c \in Calls,
             DraftReads(c) \/ SubmitReads(c) \/ CommentReads(c) \/ CallContinues(c) \/ CallAborts(c)
      PROVE  UNCHANGED <<advices, latest, reflections, replies>>
  BY <1>7, CallTypeStep
<1>8. ASSUME NEW k \in JobKeys, LeaseExpires(k) \/ OperatorRequeues(k)
      PROVE  UNCHANGED <<advices, latest, reflections, replies>>
  BY <1>8 DEF LeaseExpires, OperatorRequeues, sessionVars, docVars
<1>9. ASSUME AgreementStep \/ UNCHANGED vars
      PROVE  UNCHANGED <<advices, latest, reflections, replies>>
  BY <1>9 DEF AgreementStep, vars, sessionVars, docVars
<1>10. QED
  BY <1>1, <1>2, <1>3, <1>4, <1>5, <1>6, <1>7, <1>8, <1>9 DEF Next

\* Every job is the first of its key and comes from one of four steps.
JobMoves(k) ==
    \/ JobExists(k)
    \/ \E c \in Calls : SubmitEnqueues(c) /\ k = ModerationJob(c[1])
    \/ \E c \in Calls : \E cm \in call[c].about : CommentEnqueues(c) /\ k = ResponseJob(cm)
    \/ \E w \in Workers : CreatesReflectionJob(w) /\ k = ReflectionJob(Subject(w))
    \/ \E w \in Workers : CreatesAdviceJob(w) /\ k = AdviceJob

LEMMA CreateMakesOne ==
    ASSUME Typed, NEW l \in JobKeys, Queue!Create(l), NEW k \in JobKeys
    PROVE  /\ JobExists(k)' <=> (JobExists(k) \/ k = l)
           /\ JobIs(k, "COMPLETED")' => JobIs(k, "COMPLETED")
  BY DEF Typed, QueueProofs!TypeOK, Queue!Create, Queue!Exists, Queue!NewJob, JobExists, JobIs

LEMMA JobMove ==
    ASSUME Base, [Next]_vars, NEW k \in JobKeys
    PROVE  /\ JobExists(k) => JobExists(k)'
           /\ JobExists(k)' => JobMoves(k)
           /\ JobIs(k, "COMPLETED")' =>
                \/ JobIs(k, "COMPLETED")
                \/ \E w \in Workers : pc[w] = "complete" /\ claimed[w] = k
<1>a. Typed
  BY DEF Base
<1>b. /\ jobs \in [JobKeys -> QueueProofs!Job]
      /\ claimed \in [Workers -> JobKeys \cup {NoKey}]
      /\ verdict \in [Workers -> {"PENDING", "FAILED"}]
      /\ \A w \in Workers : pc[w] \in {"complete", "write"} => JobExists(claimed[w]) /\ claimed[w] \in JobKeys
  BY QueueAssumption DEF Base, Typed, QueueProofs!TypeOK, QueueProofs!InHandExists, QueueProofs!Busy,
     QueueProofs!Exists, JobExists
<1> DEFINE Goal == /\ JobExists(k)' => JobMoves(k)
                   /\ JobIs(k, "COMPLETED")' =>
                        \/ JobIs(k, "COMPLETED")
                        \/ \E w \in Workers : pc[w] = "complete" /\ claimed[w] = k
<1>0. ASSUME JobExists(k) PROVE JobExists(k)'
  BY <1>0, <1>a, QueueStep, SameQueue, QueueAssumption, QueueProofs!JobsStay
     DEF Base, Typed, QueueProofs!JobsStay, QueueProofs!Exists, JobExists
<1>1. ASSUME UNCHANGED jobs PROVE Goal
  BY <1>1 DEF JobMoves, JobExists, JobIs
<1>2. ASSUME NEW c \in Calls, SubmitEnqueues(c) PROVE Goal
  <2>1. c[1] \in Users /\ Queue!Create(ModerationJob(c[1]))
    BY <1>2 DEF Calls, SubmitEnqueues
  <2>2. ModerationJob(c[1]) \in JobKeys
    BY <2>1 DEF JobKeys
  <2>3. QED
    BY <1>a, <1>2, <2>1, <2>2, CreateMakesOne DEF JobMoves
<1>3. ASSUME NEW c \in Calls, CommentEnqueues(c) PROVE Goal
  <2>1. PICK cm \in call[c].about : Queue!Create(ResponseJob(cm))
    BY <1>3 DEF CommentEnqueues
  <2>2. cm \in Comments /\ ResponseJob(cm) \in JobKeys
    BY <1>a, <2>1 DEF Typed, TypeOK, JobKeys
  <2>3. k = ResponseJob(cm) => JobMoves(k)
    BY <1>3, <2>1 DEF JobMoves
  <2>4. QED
    BY <1>a, <2>1, <2>2, <2>3, CreateMakesOne DEF JobMoves
<1>4. ASSUME NEW w \in Workers, CreatesReflectionJob(w) PROVE Goal
  <2>1. Subject(w) \in Users
    BY <1>a, <1>4, HandledSubject DEF CreatesReflectionJob
  <2>2. Queue!Create(ReflectionJob(Subject(w))) /\ ReflectionJob(Subject(w)) \in JobKeys
    BY <1>4, <2>1 DEF CreatesReflectionJob, JobKeys
  <2>3. QED
    BY <1>a, <1>4, <2>2, CreateMakesOne DEF JobMoves
<1>5. ASSUME NEW w \in Workers, CreatesAdviceJob(w) PROVE Goal
  <2>1. Queue!Create(AdviceJob) /\ AdviceJob \in JobKeys
    BY <1>5 DEF CreatesAdviceJob, JobKeys
  <2>2. QED
    BY <1>a, <1>5, <2>1, CreateMakesOne DEF JobMoves
<1>6. ASSUME NEW c \in Calls,
             DraftReads(c) \/ SubmitReads(c) \/ CommentReads(c) \/ CallContinues(c) \/ CallAborts(c),
             ~SubmitEnqueues(c), ~CommentEnqueues(c)
      PROVE  UNCHANGED jobs
  BY <1>6 DEF DraftReads, SubmitReads, CommentReads, CallContinues, CallAborts, DraftUpserts,
     SubmitMarks, CommentInserts, CommentOpens, queueVars
<1>7. ASSUME NEW w \in Workers, HandlerStep(w), ~CreatesReflectionJob(w), ~CreatesAdviceJob(w)
      PROVE  UNCHANGED jobs
  BY <1>7 DEF HandlerStep, ReadsPerspective, LocksPerspective, CountsLocked,
     SetsPartialOrProcessing, Reflects, InsertsReflection, BlocksOutput, Advises, InsertsAdvice,
     SetsLatestAdvice, ReadsSession, Responds, InsertsReply, SetsReviewOrOpen, queueVars
<1>8. ASSUME NEW w \in Workers, Queue!Claim(w) PROVE Goal
  <2>1. PICK l \in JobKeys :
          /\ JobExists(l)
          /\ jobs' = [jobs EXCEPT ![l] = [status |-> "PROCESSING", attempts |-> @.attempts + 1,
                                          lease |-> "fresh"]]
    BY <1>8 DEF Queue!Claim, Queue!Claimable, Queue!StaleProcessing, JobExists
  <2>2. QED
    BY <1>b, <2>1 DEF JobMoves, JobExists, JobIs
<1>9. ASSUME NEW w \in Workers, Queue!MarkCompleted(w) \/ Queue!MarkCompletedRaises(w) PROVE Goal
  <2>1. /\ pc[w] = "complete"
        /\ jobs' = jobs \/ jobs' = [jobs EXCEPT ![claimed[w]].status = "COMPLETED"]
    BY <1>9 DEF Queue!MarkCompleted, Queue!MarkCompletedRaises, Queue!SetStatus
  <2>2. JobExists(claimed[w])
    BY <1>b, <2>1
  <2>3. QED
    BY <1>b, <2>1, <2>2 DEF JobMoves, JobExists, JobIs
<1>10. ASSUME NEW w \in Workers, Queue!WriteVerdict(w) PROVE Goal
  <2>1. pc[w] = "write" /\ jobs' = [jobs EXCEPT ![claimed[w]].status = verdict[w]]
    BY <1>10 DEF Queue!WriteVerdict, Queue!SetStatus
  <2>2. JobExists(claimed[w]) /\ verdict[w] \in {"PENDING", "FAILED"}
    BY <1>b, <2>1
  <2>3. QED
    BY <1>b, <2>1, <2>2 DEF JobMoves, JobExists, JobIs
<1>11. ASSUME NEW w \in Workers, Queue!Sweep(w) PROVE Goal
  BY <1>b, <1>11 DEF Queue!Sweep, Queue!StaleProcessing, JobMoves, JobExists, JobIs
<1>12. ASSUME NEW w \in Workers,
              LoopStep(w) \/ Claims(w) \/ Returns(w) \/ RaisesException(w) \/ WorkerFault(w)
       PROVE  Goal
  <2>1. \/ Queue!Claim(w) \/ Queue!MarkCompleted(w) \/ Queue!MarkCompletedRaises(w)
        \/ Queue!WriteVerdict(w) \/ Queue!Sweep(w) \/ UNCHANGED jobs
    BY <1>12 DEF LoopStep, Claims, Returns, RaisesException, WorkerFault, Dies, Queue!Start,
       Queue!Sleep, Queue!ReadAttempts, Queue!Return, Queue!Raise, Queue!Crash
  <2>2. QED
    BY <2>1, <1>1, <1>8, <1>9, <1>10, <1>11
<1>13. ASSUME NEW l \in JobKeys, LeaseExpires(l) \/ OperatorRequeues(l) PROVE Goal
  <2>1. \/ jobs[l].status = "PROCESSING" /\ jobs' = [jobs EXCEPT ![l].lease = "stale"]
        \/ jobs[l].status = "FAILED" /\ jobs' = [jobs EXCEPT ![l] = Queue!NewJob]
    BY <1>13 DEF LeaseExpires, OperatorRequeues, Queue!LeaseExpires, Queue!Requeue
  <2>2. CASE jobs[l].status = "PROCESSING" /\ jobs' = [jobs EXCEPT ![l].lease = "stale"]
    BY <1>b, <2>2 DEF JobMoves, JobExists, JobIs, QueueProofs!Job
  <2>3. CASE jobs[l].status = "FAILED" /\ jobs' = [jobs EXCEPT ![l] = Queue!NewJob]
    BY <1>b, <2>3 DEF JobMoves, JobExists, JobIs, Queue!NewJob
  <2>4. QED
    BY <2>1, <2>2, <2>3
<1>14. ASSUME AgreementStep \/ UNCHANGED vars PROVE UNCHANGED jobs
  BY <1>14 DEF AgreementStep, vars, queueVars
<1> HIDE DEF Goal
<1>15. Goal
  BY <1>1, <1>2, <1>3, <1>4, <1>5, <1>6, <1>7, <1>12, <1>13, <1>14 DEF Next, WorkerStep
<1>16. QED
  BY <1>0, <1>15 DEF Goal

-----------------------------------------------------------------------------
(* The session is opened for comments only when there is advice. *)

\* Whoever saw AI_ADVICE_AVAILABLE, or is about to write a status that opens the
\* comments, does so with advice stored.
SawAdvice ==
    /\ status \in {"AI_ADVICE_AVAILABLE", "DISCUSSION_OPEN"} => advices > 0
    /\ \A c \in Calls : call[c].sawAdvice \/ CallAt(c, "open") => advices > 0
    /\ \A w \in Workers : step[w].sawAdvice \/ step[w].at \in {"set_latest", "set_open"} => advices > 0

LEMMA AgreementStatus ==
    ASSUME [Agreement!Next]_(Agreement!vars)
    PROVE  status' = status \/ status' \in {"RESOLVED", "ARCHIVED"}
<1>1. ASSUME NEW r \in Requests, NEW u \in Users, Agreement!Read(r, u) PROVE status' = status
  BY <1>1 DEF Agreement!Read, Agreement!ResolveSession, Agreement!UnresolveSession,
     Agreement!ArchiveSession, Agreement!UnarchiveSession, Agreement!Decide
<1>2. ASSUME NEW r \in Requests, Agreement!Write(r) \/ Agreement!Abort(r)
      PROVE  status' = status \/ status' \in {"RESOLVED", "ARCHIVED"}
  BY <1>2 DEF Agreement!Write, Agreement!MarkResolved, Agreement!UnmarkResolved,
     Agreement!MarkArchived, Agreement!UnmarkArchived, Agreement!Abort
<1>3. CASE UNCHANGED Agreement!vars
  BY <1>3 DEF Agreement!vars
<1>4. QED
  BY <1>1, <1>2, <1>3 DEF Agreement!Next

LEMMA CallSawAdvice ==
    ASSUME Typed, [Next]_vars, NEW c \in Calls
    PROVE  /\ call'[c].sawAdvice => call[c].sawAdvice \/ status = "AI_ADVICE_AVAILABLE"
           /\ call'[c].at = "open" => call[c].sawAdvice \/ call[c].at = "open"
<1>b. call \in [Calls -> [at : CallSteps, sawAdvice : BOOLEAN, about : SUBSET Comments]]
  BY DEF Typed, TypeOK
<1> USE DEF CallTo, CallEnds, NoCall, CallAt
<1>1. CASE DraftReads(c) \/ SubmitReads(c)
  BY <1>b, <1>1 DEF DraftReads, SubmitReads
<1>2. CASE CommentReads(c)
  BY <1>b, <1>2 DEF CommentReads
<1>3. CASE DraftUpserts(c) \/ SubmitMarks(c) \/ SubmitEnqueues(c)
  BY <1>b, <1>3 DEF DraftUpserts, SubmitMarks, SubmitEnqueues
<1>4. CASE CommentInserts(c)
  BY <1>b, <1>4 DEF CommentInserts
<1>5. CASE CommentEnqueues(c)
  BY <1>b, <1>5 DEF CommentEnqueues
<1>6. CASE CommentOpens(c) \/ CallAborts(c)
  BY <1>b, <1>6 DEF CommentOpens, CallAborts
<1>7. QED
  BY <1>1, <1>2, <1>3, <1>4, <1>5, <1>6, CallMoves DEF CallContinues

LEMMA HandlerSawAdvice ==
    ASSUME Typed, NEW w \in Workers, HandlerStep(w)
    PROVE  /\ step'[w].sawAdvice => step[w].sawAdvice \/ status = "AI_ADVICE_AVAILABLE"
           /\ step'[w].at = "set_open" => step[w].sawAdvice
           /\ step'[w].at = "set_latest" => advices' > 0
<1>b. step \in [Workers -> [at : HandlerSteps, sawAdvice : BOOLEAN]] /\ advices \in Nat
  BY DEF Typed, TypeOK
<1> USE DEF To
<1>1. CASE ReadsPerspective(w) \/ LocksPerspective(w) \/ CreatesReflectionJob(w)
  BY <1>b, <1>1 DEF ReadsPerspective, LocksPerspective, CreatesReflectionJob
<1>2. CASE CountsLocked(w)
  BY <1>b, <1>2 DEF CountsLocked
<1>3. CASE SetsPartialOrProcessing(w) \/ CreatesAdviceJob(w)
  BY <1>b, <1>3 DEF SetsPartialOrProcessing, CreatesAdviceJob
<1>4. CASE Reflects(w) \/ InsertsReflection(w) \/ BlocksOutput(w) \/ Advises(w)
  BY <1>b, <1>4 DEF Reflects, InsertsReflection, BlocksOutput, Advises
<1>5. CASE InsertsAdvice(w)
  BY <1>b, <1>5 DEF InsertsAdvice
<1>6. CASE SetsLatestAdvice(w) \/ Responds(w) \/ SetsReviewOrOpen(w)
  BY <1>b, <1>6 DEF SetsLatestAdvice, Responds, SetsReviewOrOpen
<1>7. CASE ReadsSession(w)
  BY <1>b, <1>7 DEF ReadsSession
<1>8. CASE InsertsReply(w)
  BY <1>b, <1>8 DEF InsertsReply
<1>9. QED
  BY <1>1, <1>2, <1>3, <1>4, <1>5, <1>6, <1>7, <1>8 DEF HandlerStep

LEMMA SawAdviceStep == ASSUME Typed, SawAdvice, [Next]_vars PROVE SawAdvice'
<1>a. advices > 0 => advices' > 0
  BY ResultsStay
<1>1. ASSUME status' \in {"AI_ADVICE_AVAILABLE", "DISCUSSION_OPEN"} PROVE advices > 0
  <2>1. CASE [Agreement!Next]_(Agreement!vars)
    BY <1>1, <2>1, AgreementStatus DEF SawAdvice
  <2>2. CASE StatusWrites
    <3>1. CASE \E c \in Calls : CommentOpens(c)
      BY <3>1 DEF CommentOpens, SawAdvice
    <3>2. CASE \E w \in Workers : SetsLatestAdvice(w) \/ Handling(w, "comment_response", "set_open")
      BY <3>2 DEF SetsLatestAdvice, Handling, SawAdvice
    <3>3. CASE UNCHANGED status
      BY <1>1, <3>3 DEF SawAdvice
    <3>4. QED
      BY <1>1, <2>2, <3>1, <3>2, <3>3 DEF StatusWrites
  <2>3. QED
    BY <2>1, <2>2, StatusMoves
<1>2. ASSUME NEW c \in Calls, (call[c].sawAdvice \/ CallAt(c, "open"))' PROVE advices > 0
  BY <1>2, CallSawAdvice DEF SawAdvice, CallAt
<1>3. ASSUME NEW w \in Workers,
             (step[w].sawAdvice \/ step[w].at \in {"set_latest", "set_open"})'
      PROVE  advices' > 0
  <2>1. CASE HandlerStep(w)
    BY <1>3, <1>a, <2>1, HandlerSawAdvice DEF SawAdvice
  <2>2. CASE LoopMoves(w)
    <3>1. step[w] \in [at : HandlerSteps, sawAdvice : BOOLEAN]
      BY DEF Typed, TypeOK
    <3>2. step[w].sawAdvice \/ step[w].at \in {"set_latest", "set_open"}
      BY <1>3, <2>2, <3>1 DEF LoopMoves, NotRunning
    <3>3. QED
      BY <1>a, <3>2 DEF SawAdvice
  <2>3. QED
    BY <2>1, <2>2, WorkerMoves
<1>4. QED
  BY <1>a, <1>1, <1>2, <1>3 DEF SawAdvice

\* A session opens for comments only after its advice was stored, whichever of
\* the worker and the comments writes the status, with any number of both.
THEOREM AdviceComesFirst == Spec => []SawAdvice
<1>1. Init => SawAdvice
  BY DEF Init, Agreement!Init, SawAdvice, NoCall, NotRunning, CallAt
<1>2. Base /\ SawAdvice /\ [Next]_vars => SawAdvice'
  BY SawAdviceStep DEF Base
<1>3. QED
  BY BaseInvariance, <1>1, <1>2, PTL DEF Spec

-----------------------------------------------------------------------------
(* The moderation of a perspective, step by step. *)

Submitted(u) == persp[u].status = "SUBMITTED_PENDING_REVIEW"
Sent(u)      == persp[u].status \in {"SUBMITTED_PENDING_REVIEW", "LOCKED"}

\* From step a to step b with the perspective of u in hand.
ModerationMove(a, b, u) ==
    \/ a = "start" /\ Locked(u) /\ b = "relocked"
    \/ a = "start" /\ Submitted(u) /\ b = "lock"
    \/ a = "lock" /\ Locked(u)' /\ b = "create_reflection"
    \/ a = "lock" /\ ~Submitted(u) /\ b = "done"
    \/ /\ a \in {"create_reflection", "relocked"} /\ b \in {"count", "recount"}
       /\ JobExists(ReflectionJob(u))'
    \/ a = "count" /\ Cardinality(LockedUsers) = 1 /\ b = "set_partial"
    \/ a = "recount" /\ ~(Cardinality(LockedUsers) >= 2) /\ b = "done"
    \/ /\ \/ a = "count" /\ Cardinality(LockedUsers) # 1
          \/ a = "recount" /\ Cardinality(LockedUsers) >= 2
       /\ b = "set_processing"
    \/ a = "set_partial" /\ b = "done"
    \/ a = "set_processing" /\ b = "create_advice"
    \/ a = "create_advice" /\ b = "done" /\ JobExists(AdviceJob)'

LEMMA Moderates ==
    ASSUME Typed, NEW w \in Workers, HandlerStep(w),
           NEW u \in Users, claimed[w] = ModerationJob(u)
    PROVE  ModerationMove(step[w].at, step'[w].at, u)
<1>b. /\ step \in [Workers -> [at : HandlerSteps, sawAdvice : BOOLEAN]]
      /\ persp \in [Users -> Perspective]
  BY DEF Typed, TypeOK
<1>c. Subject(w) = u /\ claimed[w][1] = "perspective_moderation"
  BY DEF Subject, ModerationJob
<1> USE DEF To, Handling, ModerationMove
<1>1. CASE ReadsPerspective(w)
  BY <1>b, <1>c, <1>1 DEF ReadsPerspective, Submitted
<1>2. CASE LocksPerspective(w)
  BY <1>b, <1>c, <1>2 DEF LocksPerspective, Submitted, Locked, Perspective
<1>3. CASE CreatesReflectionJob(w)
  <2>1. Queue!Create(ReflectionJob(u)) /\ ReflectionJob(u) \in JobKeys
    BY <1>3, <1>c DEF CreatesReflectionJob, JobKeys
  <2>2. JobExists(ReflectionJob(u))'
    BY <2>1, CreateMakesOne
  <2>3. QED
    BY <1>b, <1>3, <2>2 DEF CreatesReflectionJob
<1>4. CASE CountsLocked(w)
  BY <1>b, <1>4 DEF CountsLocked
<1>5. CASE SetsPartialOrProcessing(w)
  BY <1>b, <1>5 DEF SetsPartialOrProcessing
<1>6. CASE CreatesAdviceJob(w)
  <2>1. JobExists(AdviceJob)'
    BY <1>6, CreateMakesOne DEF CreatesAdviceJob, JobKeys
  <2>2. QED
    BY <1>b, <1>6, <2>1 DEF CreatesAdviceJob
<1>7. QED
  BY <1>c, <1>1, <1>2, <1>3, <1>4, <1>5, <1>6 DEF HandlerStep, Reflects, InsertsReflection, BlocksOutput,
     Advises, InsertsAdvice, SetsLatestAdvice, ReadsSession, Responds, InsertsReply, SetsReviewOrOpen

\* With two users, the count of locked perspectives says which are locked.
LEMMA CountOfTwo ==
    /\ Cardinality(LockedUsers) = 2 <=> BothLocked
    /\ \A u \in Users : Locked(u) => Cardinality(LockedUsers) \in {1, 2}
<1>1. LockedUsers \subseteq Users
  BY DEF LockedUsers
<1>2. /\ IsFiniteSet(Users) /\ Cardinality(Users) = 2
      /\ IsFiniteSet(LockedUsers) /\ Cardinality(LockedUsers) \in Nat
      /\ Cardinality(LockedUsers) <= 2
  BY <1>1, FiniteAssumption, TwoUsersAssumption, FS_Subset, FS_CardinalityType
<1>3. ASSUME Cardinality(LockedUsers) = 2 PROVE BothLocked
  <2>1. LockedUsers = Users
    BY <1>1, <1>2, <1>3, FS_Subset
  <2>2. QED
    BY <2>1 DEF LockedUsers, BothLocked
<1>4. ASSUME BothLocked PROVE Cardinality(LockedUsers) = 2
  <2>1. LockedUsers = Users
    BY <1>4 DEF LockedUsers, BothLocked
  <2>2. QED
    BY <1>2, <2>1
<1>5. ASSUME NEW u \in Users, Locked(u) PROVE Cardinality(LockedUsers) \in {1, 2}
  <2>1. LockedUsers # {}
    BY <1>5 DEF LockedUsers
  <2>2. Cardinality(LockedUsers) # 0
    BY <1>2, <2>1, FS_EmptySet
  <2>3. QED
    BY <1>2, <2>2
<1>6. QED
  BY <1>3, <1>4, <1>5

-----------------------------------------------------------------------------
(* One request at a time of each user. *)

OneTab == \A s, t \in Tabs : s = t

\* What a request read of the perspective of its user is still so.
CallIsCurrent(c) ==
    /\ CallAt(c, "upsert") => ~Sent(c[1])
    /\ CallAt(c, "mark") => persp[c[1]].status = "DRAFT" /\ persp[c[1]].long
    /\ CallAt(c, "enqueue") => Sent(c[1])
CallsAreCurrent == \A c \in Calls : CallIsCurrent(c)

SentIsLong == \A u \in Users : Sent(u) => persp[u].long

\* Jobs exist for what was submitted and locked only.
JobsAreGrounded ==
    /\ \A u \in Users : /\ JobExists(ModerationJob(u)) => Sent(u)
                        /\ JobExists(ReflectionJob(u)) => Locked(u)
    /\ JobExists(AdviceJob) => BothLocked

\* The steps of a moderation that come after the lock, and after the count.
AfterLock  == {"create_reflection", "relocked", "count", "recount", "set_partial",
               "set_processing", "create_advice", "done"}
AfterCount == {"set_processing", "create_advice"}

ModeratorsAreGrounded ==
    \A w \in Workers : \A u \in Users : claimed[w] = ModerationJob(u) =>
        /\ step[w].at \in AfterLock \/ pc[w] = "complete" => Locked(u)
        /\ step[w].at \in AfterCount => BothLocked

ReviewedIsLocked == \A u \in Users : JobIs(ModerationJob(u), "COMPLETED") => Locked(u)

\* Somebody will still create the moderation job of a submission, or nobody can.
NotStranded ==
    \A u \in Users : Submitted(u) =>
        \/ \E c \in Calls : c[1] = u /\ CallAt(c, "enqueue")
        \/ JobExists(ModerationJob(u))
        \/ aborts > 0

Grounded == /\ CallsAreCurrent /\ SentIsLong /\ JobsAreGrounded
            /\ ModeratorsAreGrounded /\ ReviewedIsLocked /\ NotStranded

\* No request that is current writes over a perspective that was sent.
LEMMA SentStays ==
    ASSUME Typed, CallsAreCurrent, [Next]_vars, NEW u \in Users
    PROVE  /\ Locked(u) => persp'[u] = persp[u]
           /\ Sent(u) => Sent(u)' /\ persp'[u].long = persp[u].long
<1>1. persp[u] \in Perspective
  BY DEF Typed, TypeOK
<1>2. ASSUME NEW c \in Calls, c[1] = u, DraftUpserts(c) PROVE ~Sent(u)
  BY <1>2 DEF CallsAreCurrent, CallIsCurrent, DraftUpserts
<1>3. CASE persp'[u] = persp[u]
  BY <1>3 DEF Sent
<1>4. CASE \E c \in Calls : c[1] = u /\ DraftUpserts(c)
  <2>1. ~Sent(u)
    BY <1>2, <1>4
  <2>2. QED
    BY <2>1 DEF Sent, Locked
<1>5. CASE persp[u].status = "DRAFT"
  BY <1>5 DEF Sent, Locked
<1>6. CASE /\ persp[u].status = "SUBMITTED_PENDING_REVIEW"
           /\ persp'[u] = [persp[u] EXCEPT !.status = "LOCKED"]
  <2>1. persp'[u].status = "LOCKED" /\ persp'[u].long = persp[u].long
    BY <1>1, <1>6 DEF Perspective
  <2>2. QED
    BY <1>6, <2>1 DEF Sent, Locked
<1>7. PerspMoves(u)
  BY PerspMove
<1>8. QED
  BY <1>3, <1>4, <1>5, <1>6, <1>7 DEF PerspMoves

LEMMA LockedStays ==
    ASSUME Typed, CallsAreCurrent, [Next]_vars
    PROVE  /\ \A u \in Users : Locked(u) => Locked(u)'
           /\ BothLocked => BothLocked'
  BY SentStays DEF Locked, BothLocked

\* Only the request in the tab of u writes the perspective of u before it is sent.
LEMMA OwnPerspective ==
    ASSUME OneTab, Typed, [Next]_vars, NEW c \in Calls, call'[c] = call[c], ~CallAt(c, "idle")
    PROVE  \/ persp'[c[1]] = persp[c[1]]
           \/ Sent(c[1]) /\ Sent(c[1])'
<1>a. call \in [Calls -> [at : CallSteps, sawAdvice : BOOLEAN, about : SUBSET Comments]]
  BY DEF Typed, TypeOK
<1>b. c[1] \in Users /\ persp[c[1]] \in Perspective
  BY DEF Calls, Typed, TypeOK
<1>c. ASSUME NEW d \in Calls, d[1] = c[1] PROVE d = c
  BY <1>c DEF OneTab, Calls
<1>1. ~DraftUpserts(c) /\ ~SubmitMarks(c)
  BY <1>a DEF DraftUpserts, SubmitMarks, CallAt, CallTo, CallEnds, NoCall
<1>2. CASE persp'[c[1]] = persp[c[1]]
  BY <1>2
<1>3. CASE /\ persp[c[1]].status = "SUBMITTED_PENDING_REVIEW"
           /\ persp'[c[1]] = [persp[c[1]] EXCEPT !.status = "LOCKED"]
  BY <1>b, <1>3 DEF Sent, Perspective
<1>4. QED
  BY <1>b, <1>c, <1>1, <1>2, <1>3, PerspMove DEF PerspMoves

LEMMA CallsStayCurrent ==
    ASSUME OneTab, Typed, CallsAreCurrent, [Next]_vars, NEW c \in Calls
    PROVE  CallIsCurrent(c)'
<1>a. call \in [Calls -> [at : CallSteps, sawAdvice : BOOLEAN, about : SUBSET Comments]]
  BY DEF Typed, TypeOK
<1>b. c[1] \in Users /\ persp \in [Users -> Perspective]
  BY DEF Calls, Typed, TypeOK
<1>c. Sent(c[1]) => Sent(c[1])'
  BY <1>b, SentStays
<1> USE DEF CallIsCurrent, CallAt, CallTo, CallEnds, NoCall
<1>1. CASE call'[c] = call[c] /\ ~CallAt(c, "idle")
  <2>1. CASE persp'[c[1]] = persp[c[1]]
    BY <1>1, <2>1 DEF CallsAreCurrent, Sent
  <2>2. CASE Sent(c[1]) /\ Sent(c[1])'
    BY <1>1, <2>2 DEF CallsAreCurrent, Sent
  <2>3. QED
    BY <1>1, <2>1, <2>2, OwnPerspective
<1>2. CASE call'[c] = call[c] /\ CallAt(c, "idle")
  BY <1>2
<1>3. CASE DraftReads(c) \/ SubmitReads(c)
  BY <1>a, <1>b, <1>3 DEF DraftReads, SubmitReads, docVars, Sent
<1>4. CASE CommentReads(c)
  BY <1>a, <1>4 DEF CommentReads
<1>5. CASE DraftUpserts(c) \/ SubmitEnqueues(c) \/ CommentOpens(c) \/ CallAborts(c)
  BY <1>a, <1>5 DEF DraftUpserts, SubmitEnqueues, CommentOpens, CallAborts
<1>6. CASE SubmitMarks(c)
  BY <1>a, <1>b, <1>6 DEF SubmitMarks, Sent, Perspective
<1>7. CASE CommentInserts(c)
  BY <1>a, <1>7 DEF CommentInserts
<1>8. CASE CommentEnqueues(c)
  BY <1>a, <1>8 DEF CommentEnqueues
<1>9. QED
  BY <1>1, <1>2, <1>3, <1>4, <1>5, <1>6, <1>7, <1>8, CallMoves DEF CallContinues

LEMMA SentIsLongStep ==
    ASSUME Typed, CallsAreCurrent, SentIsLong, [Next]_vars
    PROVE  SentIsLong'
<1> SUFFICES ASSUME NEW u \in Users, Sent(u)' PROVE persp'[u].long
  BY DEF SentIsLong
<1>1. persp \in [Users -> Perspective]
  BY DEF Typed, TypeOK
<1>2. CASE Sent(u)
  BY <1>2, SentStays DEF SentIsLong
<1>3. ASSUME NEW c \in Calls, c[1] = u, DraftUpserts(c) PROVE FALSE
  BY <1>1, <1>3 DEF DraftUpserts, Sent
<1>4. ASSUME NEW c \in Calls, c[1] = u, SubmitMarks(c),
             persp'[u] = [persp[u] EXCEPT !.status = "SUBMITTED_PENDING_REVIEW"]
      PROVE  persp'[u].long
  BY <1>1, <1>4 DEF SubmitMarks, CallsAreCurrent, CallIsCurrent, Perspective
<1>5. QED
  BY <1>2, <1>3, <1>4, PerspMove DEF PerspMoves, Sent

LEMMA SameJob ==
    ASSUME NEW u, NEW v
    PROVE  /\ ModerationJob(u) = ModerationJob(v) => u = v
           /\ ReflectionJob(u) = ReflectionJob(v) => u = v
           /\ ResponseJob(u) = ResponseJob(v) => u = v
           /\ ModerationJob(u) # ReflectionJob(v) /\ ModerationJob(u) # AdviceJob
           /\ ModerationJob(u) # ResponseJob(v)
           /\ ReflectionJob(u) # AdviceJob /\ ReflectionJob(u) # ResponseJob(v)
           /\ AdviceJob # ResponseJob(v)
  BY DEF ModerationJob, ReflectionJob, AdviceJob, ResponseJob

LEMMA JobsAreGroundedStep ==
    ASSUME Base, CallsAreCurrent, JobsAreGrounded, ModeratorsAreGrounded, [Next]_vars
    PROVE  JobsAreGrounded'
<1>a. Typed
  BY DEF Base
<1>b. ASSUME NEW u \in Users PROVE ModerationJob(u) \in JobKeys /\ ReflectionJob(u) \in JobKeys
  BY DEF JobKeys
<1>c. AdviceJob \in JobKeys
  BY DEF JobKeys
<1>1. ASSUME NEW u \in Users, JobExists(ModerationJob(u))' PROVE Sent(u)'
  <2>1. Sent(u)
    <3>1. JobMoves(ModerationJob(u))
      BY <1>1, <1>b, JobMove
    <3>2. ASSUME NEW c \in Calls, SubmitEnqueues(c), c[1] = u PROVE Sent(u)
      BY <3>2 DEF SubmitEnqueues, CallsAreCurrent, CallIsCurrent
    <3>3. QED
      BY <3>1, <3>2, SameJob DEF JobMoves, JobsAreGrounded
  <2>2. QED
    BY <1>a, <2>1, SentStays
<1>2. ASSUME NEW u \in Users, JobExists(ReflectionJob(u))' PROVE Locked(u)'
  <2>1. Locked(u)
    <3>1. JobMoves(ReflectionJob(u))
      BY <1>2, <1>b, JobMove
    <3>2. ASSUME NEW w \in Workers, CreatesReflectionJob(w), Subject(w) = u PROVE Locked(u)
      <4>1. claimed[w] = ModerationJob(u) /\ step[w].at \in AfterLock
        BY <1>a, <3>2, HandledSubject DEF CreatesReflectionJob, Handling, AfterLock
      <4>2. QED
        BY <4>1 DEF ModeratorsAreGrounded
    <3>3. QED
      BY <3>1, <3>2, SameJob DEF JobMoves, JobsAreGrounded
  <2>2. QED
    BY <1>a, <2>1, LockedStays
<1>3. ASSUME JobExists(AdviceJob)' PROVE BothLocked'
  <2>1. BothLocked
    <3>1. JobMoves(AdviceJob)
      BY <1>3, <1>c, JobMove
    <3>2. ASSUME NEW w \in Workers, CreatesAdviceJob(w) PROVE BothLocked
      <4>1. /\ Subject(w) \in Users /\ claimed[w] = ModerationJob(Subject(w))
            /\ step[w].at \in AfterCount
        BY <1>a, <3>2, HandledSubject DEF CreatesAdviceJob, Handling, AfterCount
      <4>2. QED
        BY <4>1 DEF ModeratorsAreGrounded
    <3>3. QED
      BY <3>1, <3>2, SameJob DEF JobMoves, JobsAreGrounded
  <2>2. QED
    BY <1>a, <2>1, LockedStays
<1>4. QED
  BY <1>1, <1>2, <1>3 DEF JobsAreGrounded

\* What a worker has in hand is a job of the table.
LEMMA InHand ==
    ASSUME Base, NEW w \in Workers, pc[w] \in {"process", "complete"}
    PROVE  claimed[w] \in JobKeys /\ JobExists(claimed[w])
  BY QueueAssumption DEF Base, Typed, QueueProofs!TypeOK, QueueProofs!Busy, QueueProofs!InHandExists,
     QueueProofs!Exists, JobExists

LEMMA ModeratorsAreGroundedStep ==
    ASSUME Base, Typed', CallsAreCurrent, JobsAreGrounded, ModeratorsAreGrounded, [Next]_vars
    PROVE  ModeratorsAreGrounded'
<1> SUFFICES ASSUME NEW w \in Workers, NEW u \in Users, claimed'[w] = ModerationJob(u)
             PROVE  /\ step'[w].at \in AfterLock \/ pc'[w] = "complete" => Locked(u)'
                    /\ step'[w].at \in AfterCount => BothLocked'
  BY DEF ModeratorsAreGrounded
<1>a. Typed
  BY DEF Base
<1>b. (Locked(u) => Locked(u)') /\ (BothLocked => BothLocked')
  BY <1>a, LockedStays
<1>c. claimed[w] = ModerationJob(u) =>
        /\ step[w].at \in AfterLock \/ pc[w] = "complete" => Locked(u)
        /\ step[w].at \in AfterCount => BothLocked
  BY DEF ModeratorsAreGrounded
<1>1. CASE HandlerStep(w)
  <2>1. claimed[w] = ModerationJob(u) /\ pc[w] = "process" /\ pc'[w] = "process"
    BY <1>1, <1>a, HandlerTypeStep
  <2>2. Sent(u)
    BY <2>1, InHand DEF JobsAreGrounded
  <2>3. Locked(u) => Cardinality(LockedUsers) \in {1, 2} /\ (Cardinality(LockedUsers) = 2 <=> BothLocked)
    BY CountOfTwo
  <2>4. ModerationMove(step[w].at, step'[w].at, u)
    BY <1>1, <1>a, <2>1, Moderates
  <2>5. step'[w].at \in AfterLock => Locked(u)'
    BY <1>b, <1>c, <2>1, <2>2, <2>4 DEF ModerationMove, AfterLock, Sent, Submitted, Locked
  <2>6. step'[w].at \in AfterCount => BothLocked'
    BY <1>b, <1>c, <2>1, <2>3, <2>4 DEF ModerationMove, AfterLock, AfterCount
  <2>7. QED
    BY <2>1, <2>5, <2>6
<1>2. CASE LoopMoves(w)
  <2>1. step \in [Workers -> [at : HandlerSteps, sawAdvice : BOOLEAN]]
    BY <1>a DEF Typed, TypeOK
  <2>2. pc'[w] # "process" => step'[w].at = "idle"
    BY DEF Typed, TypeOK
  <2>3. QED
    BY <1>2, <1>b, <1>c, <2>1, <2>2 DEF LoopMoves, NotRunning, AfterLock, AfterCount
<1>3. QED
  BY <1>1, <1>2, <1>a, WorkerMoves

LEMMA ReviewedIsLockedStep ==
    ASSUME Base, CallsAreCurrent, ModeratorsAreGrounded, ReviewedIsLocked, [Next]_vars
    PROVE  ReviewedIsLocked'
<1> SUFFICES ASSUME NEW u \in Users, JobIs(ModerationJob(u), "COMPLETED")' PROVE Locked(u)'
  BY DEF ReviewedIsLocked
<1>1. \/ JobIs(ModerationJob(u), "COMPLETED")
      \/ \E w \in Workers : pc[w] = "complete" /\ claimed[w] = ModerationJob(u)
  BY JobMove DEF JobKeys
<1>2. Locked(u)
  BY <1>1 DEF ReviewedIsLocked, ModeratorsAreGrounded
<1>3. QED
  BY <1>2, LockedStays DEF Base

LEMMA NotStrandedStep ==
    ASSUME Base, CallsAreCurrent, NotStranded, [Next]_vars
    PROVE  NotStranded'
<1> SUFFICES ASSUME NEW u \in Users, Submitted(u)'
             PROVE  (\E c \in Calls : c[1] = u /\ CallAt(c, "enqueue"))'
                    \/ JobExists(ModerationJob(u))' \/ aborts' > 0
  BY DEF NotStranded
<1>a. Typed
  BY DEF Base
<1>b. /\ persp \in [Users -> Perspective] /\ aborts \in Nat
      /\ call \in [Calls -> [at : CallSteps, sawAdvice : BOOLEAN, about : SUBSET Comments]]
  BY <1>a, FaultsAssumption DEF Typed, TypeOK
<1>c. ModerationJob(u) \in JobKeys
  BY DEF JobKeys
<1>d. aborts' = aborts \/ aborts' = aborts + 1
  <2>1. ASSUME NEW w \in Workers, WorkerStep(w) \/ WorkerFault(w) PROVE aborts' = aborts
    <3>1. CASE HandlerStep(w)
      BY <1>a, <3>1, HandlerTypeStep
    <3>2. QED
      BY <2>1, <3>1 DEF WorkerStep, WorkerFault
  <2>2. ASSUME NEW c \in Calls,
               DraftReads(c) \/ SubmitReads(c) \/ CommentReads(c) \/ CallContinues(c) \/ CallAborts(c)
        PROVE  aborts' = aborts \/ aborts' = aborts + 1
    BY <2>2 DEF DraftReads, SubmitReads, CommentReads, CallContinues, CallAborts, DraftUpserts,
       SubmitMarks, SubmitEnqueues, CommentInserts, CommentEnqueues, CommentOpens
  <2>3. ASSUME NEW k \in JobKeys, LeaseExpires(k) \/ OperatorRequeues(k) PROVE aborts' = aborts
    BY <2>3 DEF LeaseExpires, OperatorRequeues
  <2>4. CASE AgreementStep \/ UNCHANGED vars
    BY <2>4 DEF AgreementStep, vars
  <2>5. QED
    BY <1>b, <2>1, <2>2, <2>3, <2>4 DEF Next
<1>1. ASSUME NEW c \in Calls, c[1] = u, CallAt(c, "enqueue"), ~(CallAt(c, "enqueue")')
      PROVE  JobExists(ModerationJob(u))' \/ aborts' > 0
  <2>1. SubmitEnqueues(c) \/ CallAborts(c)
    BY <1>1, <1>a, CallMoves DEF CallAt, DraftReads, SubmitReads, CommentReads, CallContinues,
       DraftUpserts, SubmitMarks, CommentInserts, CommentEnqueues, CommentOpens
  <2>2. CASE SubmitEnqueues(c)
    BY <1>1, <1>a, <1>c, <2>2, CreateMakesOne DEF SubmitEnqueues
  <2>3. CASE CallAborts(c)
    BY <1>b, <2>3 DEF CallAborts
  <2>4. QED
    BY <2>1, <2>2, <2>3
<1>2. CASE Submitted(u)
  <2>1. CASE \E c \in Calls : c[1] = u /\ CallAt(c, "enqueue")
    BY <1>1, <2>1
  <2>2. CASE JobExists(ModerationJob(u))
    BY <1>c, <2>2, JobMove
  <2>3. CASE aborts > 0
    BY <1>b, <1>d, <2>3
  <2>4. QED
    BY <1>2, <2>1, <2>2, <2>3 DEF NotStranded
<1>3. CASE ~Submitted(u)
  <2>1. ASSUME NEW c \in Calls, c[1] = u, SubmitMarks(c), persp[u].status = "DRAFT"
        PROVE  CallAt(c, "enqueue")'
    BY <1>b, <2>1 DEF SubmitMarks, CallTo, CallAt
  <2>2. ASSUME NEW c \in Calls, c[1] = u, DraftUpserts(c) PROVE FALSE
    BY <1>b, <2>2 DEF DraftUpserts, Submitted
  <2>3. \E c \in Calls : c[1] = u /\ SubmitMarks(c) /\ persp[u].status = "DRAFT"
    BY <1>a, <1>b, <1>3, <2>2, PerspMove DEF PerspMoves, Submitted, Perspective
  <2>4. QED
    BY <2>1, <2>3
<1>4. QED
  BY <1>2, <1>3

LEMMA GroundedInit == Init => Grounded
<1> SUFFICES ASSUME Init PROVE Grounded
  OBVIOUS
<1>1. /\ \A k \in JobKeys : ~JobExists(k) /\ ~JobIs(k, "COMPLETED")
      /\ \A w \in Workers : pc[w] = "off" /\ step[w].at = "idle"
      /\ \A u \in Users : ~Sent(u) /\ ~Submitted(u)
      /\ \A c \in Calls : CallAt(c, "idle")
  BY DEF Init, Queue!Init, Queue!NoJob, JobExists, JobIs, NotRunning, NoCall, Sent, Submitted, CallAt
<1>2. \A u \in Users : {ModerationJob(u), ReflectionJob(u), AdviceJob} \subseteq JobKeys
  BY DEF JobKeys
<1>3. CallsAreCurrent /\ SentIsLong /\ NotStranded
  BY <1>1 DEF CallsAreCurrent, CallIsCurrent, CallAt, SentIsLong, NotStranded
<1>4. JobsAreGrounded /\ ReviewedIsLocked
  BY <1>1, <1>2 DEF JobsAreGrounded, ReviewedIsLocked, JobKeys
<1>5. ModeratorsAreGrounded
  BY <1>1 DEF ModeratorsAreGrounded, AfterLock, AfterCount
<1>6. QED
  BY <1>3, <1>4, <1>5 DEF Grounded

\* With one request at a time of each user, everything built on a perspective
\* is built on one that was sent, or locked, and long enough.
THEOREM Grounding == ASSUME OneTab PROVE Spec => []Grounded
<1>1. Base /\ Grounded /\ [Next]_vars => Grounded'
  <2> SUFFICES ASSUME Base, Grounded, [Next]_vars PROVE Grounded'
    OBVIOUS
  <2>1. Typed /\ Typed'
    BY BaseStep DEF Base
  <2>2. CallsAreCurrent'
    BY <2>1, CallsStayCurrent DEF CallsAreCurrent, Grounded
  <2>3. SentIsLong'
    BY <2>1, SentIsLongStep DEF Grounded
  <2>4. JobsAreGrounded'
    BY JobsAreGroundedStep DEF Grounded
  <2>5. ModeratorsAreGrounded' /\ ReviewedIsLocked'
    BY <2>1, ModeratorsAreGroundedStep, ReviewedIsLockedStep DEF Grounded
  <2>6. NotStranded'
    BY NotStrandedStep DEF Grounded
  <2>7. QED
    BY <2>2, <2>3, <2>4, <2>5, <2>6 DEF Grounded
<1>2. QED
  BY BaseInvariance, GroundedInit, <1>1, PTL DEF Spec

\* With one request at a time of each user, no draft and no retry touches a
\* perspective once the worker has locked it (upsert_draft and lock_perspective).
THEOREM LockedStaysFinal == ASSUME OneTab PROVE Spec => LockedIsFinal
<1>1. Base /\ Grounded /\ [Next]_vars => [\A u \in Users : Locked(u) => persp'[u] = persp[u]]_vars
  BY SentStays DEF Base, Grounded
<1>2. QED
  BY BaseInvariance, Grounding, <1>1, PTL DEF Spec, LockedIsFinal

\* AI output, and the jobs that make it, exist only for locked perspectives that
\* passed the 50 characters test: reflections after their own, advice after both.
OutputIsGrounded ==
    /\ \A u \in Users : JobExists(ReflectionJob(u)) => Locked(u) /\ persp[u].long
    /\ JobExists(AdviceJob) => BothLocked
    /\ status \in {"AI_ADVICE_AVAILABLE", "DISCUSSION_OPEN"} => advices > 0

\* With one request at a time of each user, reflections are of locked
\* perspectives of 50 characters, advice is of two of them, and comments are
\* open only when there is advice.
THEOREM OutputStaysGrounded == ASSUME OneTab PROVE Spec => []OutputIsGrounded
<1>1. Grounded /\ SawAdvice => OutputIsGrounded
  BY DEF Grounded, SawAdvice, SentIsLong, JobsAreGrounded, OutputIsGrounded, Sent, Locked
<1>2. QED
  BY Grounding, AdviceComesFirst, <1>1, PTL

\* With one request at a time of each user, a submission nobody will review was
\* left by a request that died before it created the job, or its job FAILED.
THEOREM OnlyAbortsStrand == ASSUME OneTab PROVE Spec => []StrandedOnlyByAbort
<1>1. Base /\ Grounded => StrandedOnlyByAbort
  <2> SUFFICES ASSUME Base, Grounded, Quiet, NEW u \in Users, Submitted(u)
               PROVE  JobIs(ModerationJob(u), "FAILED") \/ aborts > 0
    BY DEF StrandedOnlyByAbort, Submitted
  <2>1. ModerationJob(u) \in JobKeys
    BY DEF JobKeys
  <2>2. ~JobIs(ModerationJob(u), "COMPLETED")
    BY DEF Grounded, ReviewedIsLocked, Locked, Submitted
  <2>3. QED
    BY <2>1, <2>2 DEF Grounded, NotStranded, Quiet, CallAt, JobExists, JobIs
<1>2. QED
  BY BaseInvariance, Grounding, <1>1, PTL

-----------------------------------------------------------------------------
(* A job is COMPLETED after its results, first those the worker stores. *)

AtEnd(w) == pc[w] = "complete" \/ step[w].at = "done"

\* The result of a reflection, advice or response job is stored.
HasResult(k) ==
    /\ \A u \in Users : k = ReflectionJob(u) => reflections[u] > 0
    /\ k = AdviceJob => advices > 0 /\ latest
    /\ \A c \in Comments : k = ResponseJob(c) => replies[c] > 0

ResultsComeFirst ==
    /\ \A w \in Workers : AtEnd(w) => HasResult(claimed[w])
    /\ \A w \in Workers : step[w].at \in {"set_needs_review", "set_open"} => HasResult(claimed[w])
    /\ \A k \in JobKeys : JobIs(k, "COMPLETED") => HasResult(k)

LEMMA HasResultStays ==
    ASSUME Typed, [Next]_vars, NEW k, HasResult(k)
    PROVE  HasResult(k)'
  BY ResultsStay DEF HasResult

LEMMA HandlerStores ==
    ASSUME Typed, SawAdvice, ResultsComeFirst, [Next]_vars, NEW w \in Workers, HandlerStep(w),
           step'[w].at \in {"done", "set_needs_review", "set_open"}
    PROVE  HasResult(claimed[w])'
<1>a. claimed' = claimed
  BY HandlerTypeStep
<1>b. /\ step \in [Workers -> [at : HandlerSteps, sawAdvice : BOOLEAN]]
      /\ reflections \in [Users -> Nat] /\ replies \in [Comments -> Nat]
  BY DEF Typed, TypeOK
<1>c. ASSUME NEW label, Handling(w, "perspective_moderation", label) PROVE HasResult(claimed[w])'
  BY <1>a, <1>c, HandledSubject, SameJob DEF HasResult
<1> USE DEF To
<1>1. CASE ReadsPerspective(w) \/ LocksPerspective(w) \/ CreatesReflectionJob(w)
  BY <1>c, <1>1 DEF ReadsPerspective, LocksPerspective, CreatesReflectionJob
<1>2. CASE CountsLocked(w) \/ SetsPartialOrProcessing(w) \/ CreatesAdviceJob(w)
  BY <1>c, <1>2 DEF CountsLocked, SetsPartialOrProcessing, CreatesAdviceJob
<1>3. CASE InsertsReflection(w)
  <2>1. Subject(w) \in Users /\ claimed[w] = ReflectionJob(Subject(w))
    BY <1>3, HandledSubject DEF InsertsReflection
  <2>2. reflections'[Subject(w)] > 0
    BY <1>b, <1>3, <2>1 DEF InsertsReflection
  <2>3. QED
    BY <1>a, <2>1, <2>2, SameJob DEF HasResult
<1>4. CASE SetsLatestAdvice(w)
  <2>1. claimed[w] = AdviceJob
    BY <1>4, HandledSubject DEF SetsLatestAdvice
  <2>2. advices' > 0 /\ latest'
    BY <1>4 DEF SetsLatestAdvice, SawAdvice, Handling, docVars
  <2>3. /\ \A u \in Users : claimed'[w] # ReflectionJob(u)
        /\ \A c \in Comments : claimed'[w] # ResponseJob(c)
    BY <1>a, <2>1 DEF AdviceJob, ReflectionJob, ResponseJob
  <2>4. QED
    BY <2>2, <2>3, Zenon DEF HasResult
<1>5. CASE InsertsReply(w)
  <2>1. Subject(w) \in Comments /\ claimed[w] = ResponseJob(Subject(w))
    BY <1>5, HandledSubject DEF InsertsReply
  <2>2. replies'[Subject(w)] > 0
    BY <1>b, <1>5, <2>1 DEF InsertsReply
  <2>3. /\ \A u \in Users : claimed'[w] # ReflectionJob(u)
        /\ claimed'[w] # AdviceJob
        /\ \A c \in Comments : claimed'[w] = ResponseJob(c) => c = Subject(w)
    BY <1>a, <2>1, SameJob DEF AdviceJob, ResponseJob, ReflectionJob
  <2>4. QED
    BY <2>2, <2>3 DEF HasResult
<1>6. CASE SetsReviewOrOpen(w)
  <2>1. HasResult(claimed[w])
    BY <1>6 DEF SetsReviewOrOpen, Handling, ResultsComeFirst
  <2>2. QED
    BY <1>a, <2>1, HasResultStays DEF HasResult
<1>7. CASE Reflects(w) \/ BlocksOutput(w) \/ Advises(w) \/ InsertsAdvice(w) \/ Responds(w)
  BY <1>b, <1>7 DEF Reflects, BlocksOutput, Advises, InsertsAdvice, Responds
<1>8. CASE ReadsSession(w)
  BY <1>b, <1>8 DEF ReadsSession
<1>9. QED
  BY <1>1, <1>2, <1>3, <1>4, <1>5, <1>6, <1>7, <1>8 DEF HandlerStep

LEMMA ResultsComeFirstStep ==
    ASSUME Base, Typed', SawAdvice, ResultsComeFirst, [Next]_vars
    PROVE  ResultsComeFirst'
<1>a. Typed
  BY DEF Base
<1>1. ASSUME NEW w \in Workers,
             (AtEnd(w) \/ step[w].at \in {"set_needs_review", "set_open"})'
      PROVE  HasResult(claimed[w])'
  <2>1. CASE HandlerStep(w)
    <3>1. pc'[w] = "process"
      BY <1>a, <2>1, HandlerTypeStep
    <3>2. QED
      BY <1>a, <1>1, <2>1, <3>1, HandlerStores DEF AtEnd
  <2>2. CASE LoopMoves(w)
    <3>1. step \in [Workers -> [at : HandlerSteps, sawAdvice : BOOLEAN]]
      BY <1>a DEF Typed, TypeOK
    <3>2. pc'[w] # "process" => step'[w].at = "idle"
      BY DEF Typed, TypeOK
    <3>3. /\ claimed'[w] = claimed[w]
          /\ AtEnd(w) \/ step[w].at \in {"set_needs_review", "set_open"}
      BY <1>1, <2>2, <3>1, <3>2 DEF LoopMoves, AtEnd, NotRunning
    <3>4. HasResult(claimed[w])
      BY <3>3 DEF ResultsComeFirst
    <3>5. QED
      BY <1>a, <3>3, <3>4, HasResultStays DEF HasResult
  <2>3. QED
    BY <1>a, <2>1, <2>2, WorkerMoves
<1>2. ASSUME NEW k \in JobKeys, JobIs(k, "COMPLETED")'
      PROVE  HasResult(k)'
  <2>1. HasResult(k)
    BY <1>2, JobMove DEF ResultsComeFirst, AtEnd
  <2>2. QED
    BY <1>a, <2>1, HasResultStays
<1>3. QED
  BY <1>1, <1>2 DEF ResultsComeFirst

\* A reflection, advice or response job that is COMPLETED, or whose handler has
\* returned, left its result behind, for any number of workers and requests.
THEOREM CompletedHasResult == Spec => []ResultsComeFirst
<1>1. Init => ResultsComeFirst
  BY DEF Init, Queue!Init, Queue!NoJob, ResultsComeFirst, AtEnd, JobIs, NotRunning
<1>2. Base /\ Base' /\ SawAdvice /\ ResultsComeFirst /\ [Next]_vars => ResultsComeFirst'
  BY ResultsComeFirstStep DEF Base
<1>3. QED
  BY BaseInvariance, AdviceComesFirst, <1>1, <1>2, PTL DEF Spec

-----------------------------------------------------------------------------
(* Then the jobs a moderation creates.                                      *)

\* No worker has been at a job for longer than the lease of the job.
NoOverrun == QueueProofs!OneWorker \/ overran = {}

AfterCreate == {"count", "recount", "set_partial", "set_processing", "create_advice", "done"}

\* The moderation of u will not create the advice job, if it has not yet.
Passed(u) ==
    \/ JobIs(ModerationJob(u), "COMPLETED")
    \/ \E w \in Workers : claimed[w] = ModerationJob(u) /\ (AtEnd(w) \/ step[w].at = "set_partial")

ModeratorsProceed ==
    /\ \A w \in Workers : \A u \in Users : claimed[w] = ModerationJob(u) =>
         /\ step[w].at = "lock" => Submitted(u)
         /\ AtEnd(w) \/ step[w].at \in AfterCreate => JobExists(ReflectionJob(u))
    /\ \A u \in Users : JobIs(ModerationJob(u), "COMPLETED") => JobExists(ReflectionJob(u))
    /\ (\A u \in Users : Passed(u)) => JobExists(AdviceJob)

\* An overrun stays on the record.
LEMMA NoOverrunBefore == ASSUME Typed, [Next]_vars, NoOverrun' PROVE NoOverrun
  BY QueueStep, SameQueue, QueueAssumption, QueueProofs!OverranStays
     DEF NoOverrun, QueueProofs!OverranStays, QueueProofs!OneWorker

LEMMA OneModerator ==
    ASSUME Base, NoOverrun, NEW v \in Workers, NEW w \in Workers, pc[v] = "process",
           pc[w] = "process", claimed[v] = claimed[w]
    PROVE  v = w
<1>1. claimed[w] \in JobKeys
  BY InHand
<1>2. claimed[w] \in QueueProofs!Undisturbed
  BY <1>1 DEF NoOverrun, QueueProofs!Undisturbed
<1>3. QED
  BY <1>2 DEF Base, QueueProofs!Inv, QueueProofs!Ownership, QueueProofs!NoOverlapWithinLease,
     QueueProofs!Holds, QueueProofs!Busy

LEMMA SubmittedAtLock ==
    ASSUME Base, Typed', NoOverrun, CallsAreCurrent, ModeratorsProceed, [Next]_vars,
           NEW w \in Workers, NEW u \in Users, claimed'[w] = ModerationJob(u), step'[w].at = "lock"
    PROVE  Submitted(u)'
<1>a. Typed
  BY DEF Base
<1>b. step \in [Workers -> [at : HandlerSteps, sawAdvice : BOOLEAN]]
  BY <1>a DEF Typed, TypeOK
<1>c. pc'[w] = "process"
  BY DEF Typed, TypeOK
<1>1. CASE HandlerStep(w)
  <2>1. claimed[w] = ModerationJob(u)
    BY <1>1, <1>a, HandlerTypeStep
  <2>2. ModerationMove(step[w].at, "lock", u)
    BY <1>1, <1>a, <2>1, Moderates
  <2>3. Submitted(u) /\ step[w].at = "start"
    BY <2>2 DEF ModerationMove
  <2>4. ReadsPerspective(w)
    BY <1>1, <1>b, <2>1, <2>3 DEF HandlerStep, LocksPerspective, CreatesReflectionJob, CountsLocked,
       SetsPartialOrProcessing, CreatesAdviceJob, Reflects, InsertsReflection, BlocksOutput, Advises,
       InsertsAdvice, SetsLatestAdvice, ReadsSession, Responds, InsertsReply, SetsReviewOrOpen,
       Handling, ModerationJob
  <2>5. QED
    BY <2>3, <2>4 DEF ReadsPerspective, docVars, Submitted
<1>2. CASE LoopMoves(w) /\ ~HandlerStep(w)
  <2>1. /\ claimed[w] = ModerationJob(u) /\ pc[w] = "process" /\ step[w].at = "lock"
    BY <1>2, <1>b, <1>c DEF LoopMoves
  <2>2. Submitted(u)
    BY <2>1 DEF ModeratorsProceed
  <2>3. ASSUME NEW v \in Workers, Subject(v) = u, LocksPerspective(v) PROVE FALSE
    <3>1. claimed[v] = ModerationJob(u) /\ pc[v] = "process"
      BY <1>a, <2>3, HandledSubject DEF LocksPerspective, Handling
    <3>2. v = w
      BY <2>1, <3>1, OneModerator
    <3>3. QED
      BY <1>2, <2>3, <3>2 DEF HandlerStep
  <2>4. ASSUME NEW c \in Calls, c[1] = u, DraftUpserts(c) PROVE FALSE
    BY <2>2, <2>4 DEF DraftUpserts, CallsAreCurrent, CallIsCurrent, Sent, Submitted
  <2>5. QED
    BY <1>a, <2>2, <2>3, <2>4, PerspMove DEF PerspMoves, Submitted
<1>3. QED
  BY <1>1, <1>2, <1>a, WorkerMoves

LEMMA ReflectionJobFirst ==
    ASSUME Base, Typed', ModeratorsProceed, [Next]_vars,
           NEW w \in Workers, NEW u \in Users, claimed'[w] = ModerationJob(u),
           (AtEnd(w) \/ step[w].at \in AfterCreate)'
    PROVE  JobExists(ReflectionJob(u))'
<1>a. Typed
  BY DEF Base
<1>b. ReflectionJob(u) \in JobKeys
  BY DEF JobKeys
<1>c. ASSUME JobExists(ReflectionJob(u)) PROVE JobExists(ReflectionJob(u))'
  BY <1>b, <1>c, JobMove
<1>1. CASE HandlerStep(w)
  <2>1. claimed[w] = ModerationJob(u) /\ pc'[w] = "process"
    BY <1>1, <1>a, HandlerTypeStep
  <2>2. ModerationMove(step[w].at, step'[w].at, u)
    BY <1>1, <1>a, <2>1, Moderates
  <2>3. step[w].at = "lock" => Submitted(u)
    BY <2>1 DEF ModeratorsProceed
  <2>4. step'[w].at \in AfterCreate
    BY <2>1 DEF AtEnd, AfterCreate
  <2>5. \/ step[w].at \in AfterCreate
        \/ JobExists(ReflectionJob(u))'
    BY <2>2, <2>3, <2>4 DEF ModerationMove, AfterCreate
  <2>6. QED
    BY <1>c, <2>1, <2>5 DEF ModeratorsProceed
<1>2. CASE LoopMoves(w)
  <2>1. step \in [Workers -> [at : HandlerSteps, sawAdvice : BOOLEAN]]
    BY <1>a DEF Typed, TypeOK
  <2>2. pc'[w] # "process" => step'[w].at = "idle"
    BY DEF Typed, TypeOK
  <2>3. claimed[w] = ModerationJob(u) /\ (AtEnd(w) \/ step[w].at \in AfterCreate)
    BY <1>2, <2>1, <2>2 DEF LoopMoves, NotRunning, AtEnd, AfterCreate
  <2>4. QED
    BY <1>c, <2>3 DEF ModeratorsProceed
<1>3. QED
  BY <1>1, <1>2, <1>a, WorkerMoves

LEMMA HandlerPassed ==
    ASSUME Base, Grounded, Grounded', NoOverrun, ModeratorsProceed, [Next]_vars,
           NEW w \in Workers, HandlerStep(w), NEW u \in Users, claimed[w] = ModerationJob(u),
           step'[w].at \in {"done", "set_partial"}, \A v \in Users : Passed(v)'
    PROVE  Passed(u) \/ JobExists(AdviceJob)'
<1>a. Typed
  BY DEF Base
<1>b. step \in [Workers -> [at : HandlerSteps, sawAdvice : BOOLEAN]]
  BY <1>a DEF Typed, TypeOK
<1>1. ModerationMove(step[w].at, step'[w].at, u)
  BY <1>a, Moderates
<1>2. step[w].at = "lock" => Submitted(u)
  BY DEF ModeratorsProceed
<1>3. CASE CountsLocked(w)
  <2>1. \A v \in Users : Locked(v)'
    BY DEF Passed, AtEnd, Grounded, ReviewedIsLocked, ModeratorsAreGrounded, AfterLock
  <2>2. BothLocked
    BY <1>3, <2>1 DEF CountsLocked, docVars, Locked, BothLocked
  <2>3. Cardinality(LockedUsers) = 2
    BY <2>2, CountOfTwo
  <2>4. step[w].at \in {"count", "recount"}
    BY <1>3 DEF CountsLocked, Handling
  <2>5. QED
    BY <1>1, <2>3, <2>4 DEF ModerationMove
<1>4. CASE ~CountsLocked(w)
  <2>1. step[w].at \notin {"count", "recount"}
    BY <1>b, <1>4 DEF HandlerStep, ReadsPerspective, LocksPerspective, CreatesReflectionJob, CountsLocked,
       SetsPartialOrProcessing, CreatesAdviceJob, Reflects, InsertsReflection, BlocksOutput, Advises,
       InsertsAdvice, SetsLatestAdvice, ReadsSession, Responds, InsertsReply, SetsReviewOrOpen, Handling
  <2>2. step[w].at = "set_partial" \/ JobExists(AdviceJob)'
    BY <1>1, <1>2, <2>1 DEF ModerationMove
  <2>3. QED
    BY <2>2 DEF Passed
<1>5. QED
  BY <1>3, <1>4

LEMMA PassedMove ==
    ASSUME Base, Typed', Grounded, Grounded', NoOverrun, ModeratorsProceed, [Next]_vars,
           NEW u \in Users, \A v \in Users : Passed(v)'
    PROVE  Passed(u) \/ JobExists(AdviceJob)'
<1>a. Typed
  BY DEF Base
<1>1. CASE JobIs(ModerationJob(u), "COMPLETED")'
  <2>1. \/ JobIs(ModerationJob(u), "COMPLETED")
        \/ \E w \in Workers : pc[w] = "complete" /\ claimed[w] = ModerationJob(u)
    BY <1>1, JobMove DEF JobKeys
  <2>2. QED
    BY <2>1 DEF Passed, AtEnd
<1>2. ASSUME NEW w \in Workers, claimed'[w] = ModerationJob(u),
             (AtEnd(w) \/ step[w].at = "set_partial")'
      PROVE  Passed(u) \/ JobExists(AdviceJob)'
  <2>1. CASE HandlerStep(w)
    <3>1. claimed[w] = ModerationJob(u) /\ pc'[w] = "process"
      BY <1>2, <2>1, <1>a, HandlerTypeStep
    <3>2. step'[w].at \in {"done", "set_partial"}
      BY <1>2, <3>1 DEF AtEnd
    <3>3. QED
      BY <2>1, <3>1, <3>2, HandlerPassed
  <2>2. CASE LoopMoves(w)
    <3>1. step \in [Workers -> [at : HandlerSteps, sawAdvice : BOOLEAN]]
      BY <1>a DEF Typed, TypeOK
    <3>2. pc'[w] # "process" => step'[w].at = "idle"
      BY DEF Typed, TypeOK
    <3>3. claimed[w] = ModerationJob(u) /\ (AtEnd(w) \/ step[w].at = "set_partial")
      BY <1>2, <2>2, <3>1, <3>2 DEF LoopMoves, NotRunning, AtEnd
    <3>4. QED
      BY <3>3 DEF Passed
  <2>3. QED
    BY <2>1, <2>2, <1>a, WorkerMoves
<1>3. QED
  BY <1>1, <1>2 DEF Passed

LEMMA ModeratorsProceedStep ==
    ASSUME Base, Typed', Grounded, Grounded', NoOverrun, ModeratorsProceed, [Next]_vars
    PROVE  ModeratorsProceed'
<1>1. ASSUME NEW w \in Workers, NEW u \in Users, claimed'[w] = ModerationJob(u)
      PROVE  /\ step'[w].at = "lock" => Submitted(u)'
             /\ (AtEnd(w) \/ step[w].at \in AfterCreate)' => JobExists(ReflectionJob(u))'
  BY <1>1, SubmittedAtLock, ReflectionJobFirst DEF Grounded
<1>2. ASSUME NEW u \in Users, JobIs(ModerationJob(u), "COMPLETED")'
      PROVE  JobExists(ReflectionJob(u))'
  <2>1. \/ JobIs(ModerationJob(u), "COMPLETED")
        \/ \E w \in Workers : pc[w] = "complete" /\ claimed[w] = ModerationJob(u)
    BY <1>2, JobMove DEF JobKeys
  <2>2. JobExists(ReflectionJob(u))
    BY <2>1 DEF ModeratorsProceed, AtEnd
  <2>3. QED
    BY <2>2, JobMove DEF JobKeys
<1>3. ASSUME \A u \in Users : Passed(u)' PROVE JobExists(AdviceJob)'
  <2>1. (\A u \in Users : Passed(u)) \/ JobExists(AdviceJob)'
    BY <1>3, PassedMove
  <2>2. AdviceJob \in JobKeys
    BY DEF JobKeys
  <2>3. QED
    BY <2>1, <2>2, JobMove DEF ModeratorsProceed
<1>4. QED
  BY <1>1, <1>2, <1>3 DEF ModeratorsProceed

\* With one request at a time of each user, and until a worker overruns the
\* lease of a job, a job marked COMPLETED left all its results and all the jobs
\* that follow from it, however its runs were interrupted.
THEOREM CompletedIsDone == ASSUME OneTab PROVE Spec => [](NoOverrun => CompletedMeansDone)
<1>1. Init => ModeratorsProceed
  <2> SUFFICES ASSUME Init PROVE ModeratorsProceed
    OBVIOUS
  <2>1. /\ \A u \in Users : ~JobIs(ModerationJob(u), "COMPLETED")
        /\ \A w \in Workers : claimed[w] = NoKey
    BY DEF Init, Queue!Init, Queue!NoJob, JobIs, JobKeys
  <2>2. \A u \in Users : ModerationJob(u) # NoKey
    BY QueueAssumption DEF JobKeys
  <2>3. \A w \in Workers, u \in Users : claimed[w] # ModerationJob(u)
    BY <2>1, <2>2
  <2>4. \E u \in Users : TRUE
    BY TwoUsersAssumption, FS_EmptySet
  <2>5. QED
    BY <2>1, <2>3, <2>4 DEF ModeratorsProceed, Passed
<1>2. /\ Base /\ Base' /\ Grounded /\ Grounded' /\ (NoOverrun => ModeratorsProceed) /\ [Next]_vars
      => (NoOverrun => ModeratorsProceed)'
  BY NoOverrunBefore, ModeratorsProceedStep DEF Base
<1>3. Spec => [](NoOverrun => ModeratorsProceed)
  BY BaseInvariance, Grounding, <1>1, <1>2, PTL DEF Spec
<1>4. /\ Grounded /\ ResultsComeFirst /\ (NoOverrun => ModeratorsProceed)
      => (NoOverrun => CompletedMeansDone)
  <2> SUFFICES ASSUME Grounded, ResultsComeFirst, ModeratorsProceed PROVE CompletedMeansDone
    OBVIOUS
  <2>1. \A u \in Users : JobIs(ModerationJob(u), "COMPLETED") =>
          Locked(u) /\ JobExists(ReflectionJob(u))
    BY DEF Grounded, ReviewedIsLocked, ModeratorsProceed
  <2>2. (\A u \in Users : JobIs(ModerationJob(u), "COMPLETED")) => JobExists(AdviceJob)
    BY DEF ModeratorsProceed, Passed
  <2>3. /\ \A u \in Users : ReflectionJob(u) \in JobKeys
        /\ AdviceJob \in JobKeys
        /\ \A c \in Comments : ResponseJob(c) \in JobKeys
    BY DEF JobKeys
  <2>4. /\ \A u \in Users : JobIs(ReflectionJob(u), "COMPLETED") => reflections[u] > 0
        /\ JobIs(AdviceJob, "COMPLETED") => advices > 0 /\ latest
        /\ \A c \in Comments : JobIs(ResponseJob(c), "COMPLETED") => replies[c] > 0
    BY <2>3, Zenon DEF ResultsComeFirst, HasResult
  <2>5. QED
    BY <2>1, <2>2, <2>4 DEF CompletedMeansDone
<1>5. QED
  BY Grounding, CompletedHasResult, <1>3, <1>4, PTL

\* With the one worker the deployment runs, that is always so.
COROLLARY CompletedIsDoneWithOneWorker ==
    ASSUME OneTab, QueueProofs!OneWorker
    PROVE  Spec => []CompletedMeansDone
<1>1. NoOverrun
  BY DEF NoOverrun
<1>2. (NoOverrun => CompletedMeansDone) => CompletedMeansDone
  BY <1>1
<1>3. QED
  BY CompletedIsDone, <1>2, PTL

-----------------------------------------------------------------------------
(* The session keeps its promises. *)

\* Comments come before the requests for an answer, and these before answers.
CommentsComeFirst ==
    /\ \A c \in Calls : CallAt(c, "answer") => call[c].about \subseteq posted
    /\ \A cm \in Comments : JobExists(ResponseJob(cm)) => cm \in posted

\* The steps that store something, and all others.
DocMoves ==
    \/ UNCHANGED docVars
    \/ \E c \in Calls : DraftUpserts(c) \/ SubmitMarks(c) \/ CommentInserts(c)
    \/ \E w \in Workers : LocksPerspective(w) \/ InsertsReflection(w) \/ InsertsAdvice(w) \/ InsertsReply(w)

LEMMA DocMove == ASSUME [Next]_vars PROVE DocMoves
<1> USE DEF DocMoves
<1>1. ASSUME NEW c \in Calls,
             DraftReads(c) \/ SubmitReads(c) \/ CommentReads(c) \/ CallContinues(c) \/ CallAborts(c)
      PROVE  DocMoves
  BY <1>1 DEF DraftReads, SubmitReads, CommentReads, CallContinues, CallAborts, SubmitEnqueues,
     CommentEnqueues, CommentOpens
<1>2. ASSUME NEW w \in Workers, WorkerStep(w) \/ WorkerFault(w) PROVE DocMoves
  BY <1>2 DEF WorkerStep, WorkerFault, HandlerStep, ReadsPerspective, CreatesReflectionJob,
     CountsLocked, SetsPartialOrProcessing, CreatesAdviceJob, Reflects, BlocksOutput, Advises,
     SetsLatestAdvice, ReadsSession, Responds, SetsReviewOrOpen
<1>3. ASSUME NEW k \in JobKeys, LeaseExpires(k) \/ OperatorRequeues(k) PROVE DocMoves
  BY <1>3 DEF LeaseExpires, OperatorRequeues
<1>4. CASE AgreementStep \/ UNCHANGED vars
  BY <1>4 DEF AgreementStep, vars
<1>5. QED
  BY <1>1, <1>2, <1>3, <1>4 DEF Next

LEMMA CommentsComeFirstStep ==
    ASSUME Base, CommentsComeFirst, [Next]_vars
    PROVE  CommentsComeFirst'
<1>a. /\ Typed
      /\ call \in [Calls -> [at : CallSteps, sawAdvice : BOOLEAN, about : SUBSET Comments]]
  BY DEF Base, Typed, TypeOK
<1>b. posted \subseteq posted'
  BY DocMove DEF DocMoves, docVars, DraftUpserts, SubmitMarks, CommentInserts, LocksPerspective,
     InsertsReflection, InsertsAdvice, InsertsReply
<1>1. ASSUME NEW c \in Calls, CallAt(c, "answer")' PROVE call'[c].about \subseteq posted'
  <2> USE DEF CallAt, CallTo, CallEnds, NoCall
  <2>1. CASE call'[c] = call[c]
    BY <1>1, <1>b, <2>1 DEF CommentsComeFirst
  <2>2. CASE CommentInserts(c)
    BY <1>a, <2>2 DEF CommentInserts
  <2>3. CASE DraftReads(c) \/ SubmitReads(c) \/ CommentReads(c) \/ CallAborts(c)
    BY <1>1, <1>a, <2>3 DEF DraftReads, SubmitReads, CommentReads, CallAborts
  <2>4. CASE DraftUpserts(c) \/ SubmitMarks(c) \/ SubmitEnqueues(c)
    BY <1>1, <1>a, <2>4 DEF DraftUpserts, SubmitMarks, SubmitEnqueues
  <2>5. CASE CommentEnqueues(c) \/ CommentOpens(c)
    BY <1>1, <1>a, <2>5 DEF CommentEnqueues, CommentOpens
  <2>6. QED
    BY <1>a, <2>1, <2>2, <2>3, <2>4, <2>5, CallMoves DEF CallContinues
<1>2. ASSUME NEW cm \in Comments, JobExists(ResponseJob(cm))' PROVE cm \in posted'
  <2>1. JobMoves(ResponseJob(cm))
    BY <1>2, JobMove DEF JobKeys
  <2>2. ASSUME NEW c \in Calls, CommentEnqueues(c), cm \in call[c].about PROVE cm \in posted
    BY <2>2 DEF CommentEnqueues, CommentsComeFirst
  <2>3. QED
    BY <1>b, <2>1, <2>2, SameJob DEF JobMoves, CommentsComeFirst
<1>3. QED
  BY <1>1, <1>2 DEF CommentsComeFirst

LEMMA CommentsComeFirstInit == Init => CommentsComeFirst
  BY DEF Init, Queue!Init, Queue!NoJob, CommentsComeFirst, NoCall, CallAt, JobExists, JobKeys

\* A step that stores nothing may open or close the discussion.
LEMMA StatusPromise ==
    ASSUME UNCHANGED docVars, SawAdvice'
    PROVE  Promise!Open \/ Promise!Close
<1> DEFINE opens == status \in {"AI_ADVICE_AVAILABLE", "DISCUSSION_OPEN"}
<1>1. opens' => advices > 0
  BY DEF SawAdvice, docVars
<1>2. /\ \A u \in Users : persp'[u] = persp[u]
      /\ UNCHANGED <<persp, reflections, advices, posted, replies>>
      /\ (advices > 0)' = (advices > 0)
  BY DEF docVars
<1>3. CASE opens'
  BY <1>1, <1>2, <1>3 DEF Promise!Open, Locked
<1>4. CASE ~opens'
  BY <1>2, <1>4 DEF Promise!Close, Locked
<1>5. QED
  BY <1>3, <1>4

\* A step on perspectives leaves the rest alone, and so for the others.
LEMMA PerspectivePromise ==
    ASSUME Typed, Grounded, [Next]_vars, NEW u \in Users,
           UNCHANGED <<status, reflections, advices, posted, replies>>,
           \A v \in Users \ {u} : persp'[v] = persp[v],
           \/ persp[u].status \in {"NONE", "DRAFT"} /\ persp'[u].status = "DRAFT"
           \/ /\ persp[u].status = "DRAFT" /\ persp[u].long
              /\ persp'[u] = [persp[u] EXCEPT !.status = "SUBMITTED_PENDING_REVIEW"]
           \/ /\ persp[u].status = "SUBMITTED_PENDING_REVIEW"
              /\ persp'[u] = [persp[u] EXCEPT !.status = "LOCKED"],
           persp' \in [Users -> Perspective]
    PROVE  Promise!Write(u) \/ Promise!Submit(u) \/ Promise!Lock(u)
<1>1. persp \in [Users -> Perspective]
  BY DEF Typed, TypeOK
<1> DEFINE phase == [v \in Users |-> IF Locked(v) THEN "locked"
                              ELSE IF persp[v].status = "SUBMITTED_PENDING_REVIEW"
                                   THEN "submitted" ELSE "writing"]
           long  == [v \in Users |-> persp[v].long]
<1>2. CASE persp[u].status \in {"NONE", "DRAFT"} /\ persp'[u].status = "DRAFT"
  <2>1. phase[u] = "writing" /\ phase' = phase
    BY <1>1, <1>2 DEF Locked
  <2>2. long' = [long EXCEPT ![u] = persp'[u].long] /\ persp'[u].long \in BOOLEAN
    BY DEF Perspective
  <2>3. QED
    BY <2>1, <2>2 DEF Promise!Write, Locked
<1>3. CASE /\ persp[u].status = "DRAFT" /\ persp[u].long
           /\ persp'[u] = [persp[u] EXCEPT !.status = "SUBMITTED_PENDING_REVIEW"]
  <2>1. persp'[u].status = "SUBMITTED_PENDING_REVIEW" /\ persp'[u].long = persp[u].long
    BY <1>1, <1>3 DEF Perspective
  <2>2. phase[u] = "writing" /\ phase' = [phase EXCEPT ![u] = "submitted"] /\ long' = long
    BY <1>3, <2>1 DEF Locked
  <2>3. long[u]
    BY <1>3
  <2>4. QED
    BY <2>2, <2>3 DEF Promise!Submit, Locked
<1>4. CASE /\ persp[u].status = "SUBMITTED_PENDING_REVIEW"
           /\ persp'[u] = [persp[u] EXCEPT !.status = "LOCKED"]
  <2>1. persp'[u].status = "LOCKED" /\ persp'[u].long = persp[u].long
    BY <1>1, <1>4 DEF Perspective
  <2>2. phase[u] = "submitted" /\ phase' = [phase EXCEPT ![u] = "locked"] /\ long' = long
    BY <1>4, <2>1 DEF Locked
  <2>3. QED
    BY <2>2 DEF Promise!Lock, Locked
<1>5. QED
  BY <1>2, <1>3, <1>4

LEMMA PromiseStep ==
    ASSUME Base, Typed', Grounded, SawAdvice', CommentsComeFirst, [Next]_vars
    PROVE  [Promise!Next]_(Promise!vars)
<1>a. /\ Typed
      /\ persp \in [Users -> Perspective] /\ persp' \in [Users -> Perspective]
      /\ reflections \in [Users -> Nat] /\ advices \in Nat /\ replies \in [Comments -> Nat]
  BY DEF Base, Typed, TypeOK
<1>b. UNCHANGED persp => UNCHANGED <<[u \in Users |-> IF Locked(u) THEN "locked"
                              ELSE IF persp[u].status = "SUBMITTED_PENDING_REVIEW"
                                   THEN "submitted" ELSE "writing"],
                              [u \in Users |-> persp[u].long]>>
  BY DEF Locked
<1>1. CASE UNCHANGED docVars
  BY <1>1, StatusPromise DEF Promise!Next
<1>2. ASSUME NEW c \in Calls, DraftUpserts(c) PROVE [Promise!Next]_(Promise!vars)
  <2>1. c[1] \in Users /\ ~Sent(c[1])
    BY <1>2 DEF Calls, DraftUpserts, Grounded, CallsAreCurrent, CallIsCurrent
  <2>2. /\ persp[c[1]].status \in {"NONE", "DRAFT"} /\ persp'[c[1]].status = "DRAFT"
        /\ \A v \in Users \ {c[1]} : persp'[v] = persp[v]
    BY <1>a, <1>2, <2>1 DEF DraftUpserts, Sent, Perspective, PerspectiveStatus
  <2>3. UNCHANGED <<status, reflections, advices, posted, replies>>
    BY <1>2 DEF DraftUpserts, sessionVars
  <2>4. Promise!Write(c[1]) \/ Promise!Submit(c[1]) \/ Promise!Lock(c[1])
    BY <1>a, <2>1, <2>2, <2>3, PerspectivePromise
  <2>5. QED
    BY <2>1, <2>4 DEF Promise!Next
<1>3. ASSUME NEW c \in Calls, SubmitMarks(c) PROVE [Promise!Next]_(Promise!vars)
  <2>1. c[1] \in Users /\ persp[c[1]].long
    BY <1>3 DEF Calls, SubmitMarks, Grounded, CallsAreCurrent, CallIsCurrent
  <2>2. /\ persp[c[1]].status = "DRAFT"
        /\ persp'[c[1]] = [persp[c[1]] EXCEPT !.status = "SUBMITTED_PENDING_REVIEW"]
        /\ \A v \in Users \ {c[1]} : persp'[v] = persp[v]
    BY <1>a, <1>3, <2>1 DEF SubmitMarks, Grounded, CallsAreCurrent, CallIsCurrent
  <2>3. UNCHANGED <<status, reflections, advices, posted, replies>>
    BY <1>3 DEF SubmitMarks, sessionVars
  <2>4. Promise!Write(c[1]) \/ Promise!Submit(c[1]) \/ Promise!Lock(c[1])
    BY <1>a, <2>1, <2>2, <2>3, PerspectivePromise
  <2>5. QED
    BY <2>1, <2>4 DEF Promise!Next
<1>4. ASSUME NEW w \in Workers, LocksPerspective(w) PROVE [Promise!Next]_(Promise!vars)
  <2>1. PICK u \in Users : u = Subject(w)
    BY <1>a, <1>4, HandledSubject DEF LocksPerspective
  <2>2. UNCHANGED <<status, reflections, advices, posted, replies>>
    BY <1>4 DEF LocksPerspective, sessionVars
  <2>3. CASE persp[u].status = "SUBMITTED_PENDING_REVIEW"
    <3>1. /\ persp'[u] = [persp[u] EXCEPT !.status = "LOCKED"]
          /\ \A v \in Users \ {u} : persp'[v] = persp[v]
      BY <1>a, <1>4, <2>1, <2>3 DEF LocksPerspective
    <3>2. Promise!Write(u) \/ Promise!Submit(u) \/ Promise!Lock(u)
      BY <1>a, <2>2, <2>3, <3>1, PerspectivePromise
    <3>3. QED
      BY <3>2 DEF Promise!Next
  <2>4. CASE persp[u].status # "SUBMITTED_PENDING_REVIEW"
    <3>1. UNCHANGED persp
      BY <1>4, <2>1, <2>4 DEF LocksPerspective
    <3>2. QED
      BY <1>b, <2>2, <3>1 DEF Promise!vars
  <2>5. QED
    BY <2>3, <2>4
<1>5. ASSUME NEW w \in Workers, InsertsReflection(w) PROVE [Promise!Next]_(Promise!vars)
  <2>1. PICK u \in Users : u = Subject(w) /\ claimed[w] = ReflectionJob(u) /\ pc[w] = "process"
    BY <1>a, <1>5, HandledSubject DEF InsertsReflection, Handling
  <2>2. Locked(u)
    BY <2>1, InHand DEF Grounded, JobsAreGrounded
  <2>3. UNCHANGED <<persp, status, advices, posted, replies>>
    BY <1>5 DEF InsertsReflection, sessionVars
  <2>4. {v \in Users : reflections'[v] > 0} = {v \in Users : reflections[v] > 0} \cup {u}
    BY <1>a, <1>5, <2>1 DEF InsertsReflection
  <2>5. Promise!Reflect(u)
    BY <1>b, <2>2, <2>3, <2>4 DEF Promise!Reflect
  <2>6. QED
    BY <2>5 DEF Promise!Next
<1>6. ASSUME NEW w \in Workers, InsertsAdvice(w) PROVE [Promise!Next]_(Promise!vars)
  <2>1. claimed[w] = AdviceJob /\ pc[w] = "process"
    BY <1>a, <1>6, HandledSubject DEF InsertsAdvice, Handling
  <2>2. BothLocked
    BY <2>1, InHand DEF Grounded, JobsAreGrounded
  <2>3. UNCHANGED <<persp, status, reflections, posted, replies>> /\ advices' > 0
    BY <1>a, <1>6 DEF InsertsAdvice, sessionVars
  <2>4. Promise!Advise
    BY <1>b, <2>2, <2>3 DEF Promise!Advise, BothLocked
  <2>5. QED
    BY <2>4 DEF Promise!Next
<1>7. ASSUME NEW w \in Workers, InsertsReply(w) PROVE [Promise!Next]_(Promise!vars)
  <2>1. PICK c \in Comments : c = Subject(w) /\ claimed[w] = ResponseJob(c) /\ pc[w] = "process"
    BY <1>a, <1>7, HandledSubject DEF InsertsReply, Handling
  <2>2. c \in posted
    BY <2>1, InHand DEF CommentsComeFirst
  <2>3. UNCHANGED <<persp, status, reflections, advices, posted>>
    BY <1>7 DEF InsertsReply, sessionVars
  <2>4. {d \in Comments : replies'[d] > 0} = {d \in Comments : replies[d] > 0} \cup {c}
    BY <1>a, <1>7, <2>1 DEF InsertsReply
  <2>5. Promise!Answer(c)
    BY <1>b, <2>2, <2>3, <2>4 DEF Promise!Answer
  <2>6. QED
    BY <2>5 DEF Promise!Next
<1>8. ASSUME NEW c \in Calls, CommentInserts(c) PROVE [Promise!Next]_(Promise!vars)
  <2>1. PICK cm \in Comments \ posted : posted' = posted \cup {cm}
    BY <1>8 DEF CommentInserts
  <2>2. UNCHANGED <<persp, status, reflections, advices, replies>>
    BY <1>8 DEF CommentInserts, sessionVars
  <2>3. Promise!Post(cm)
    BY <1>b, <2>1, <2>2 DEF Promise!Post
  <2>4. QED
    BY <2>3 DEF Promise!Next
<1>9. QED
  BY <1>1, <1>2, <1>3, <1>4, <1>5, <1>6, <1>7, <1>8, DocMove DEF DocMoves

\* With one request at a time of each user, the session keeps its promises:
\* whatever requests, jobs, retries and faults there are, its documents behave
\* as SessionLifecycle says.
THEOREM PromisesKept == ASSUME OneTab PROVE Spec => PromiseSpec
<1>1. Init => Promise!Init
  <2> SUFFICES ASSUME Init PROVE Promise!Init
    OBVIOUS
  <2>1. /\ \A u \in Users : persp[u].status = "NONE" /\ persp[u].long = FALSE /\ ~(reflections[u] > 0)
        /\ ~(advices > 0) /\ \A c \in Comments : ~(replies[c] > 0)
        /\ posted = {} /\ status \notin {"AI_ADVICE_AVAILABLE", "DISCUSSION_OPEN"}
    BY DEF Init, Agreement!Init
  <2>2. \A u \in Users : ~Locked(u) /\ persp[u].status # "SUBMITTED_PENDING_REVIEW"
    BY <2>1 DEF Locked
  <2>3. {u \in Users : reflections[u] > 0} = {} /\ {c \in Comments : replies[c] > 0} = {}
    BY <2>1
  <2>4. (advices > 0) = FALSE /\ (status \in {"AI_ADVICE_AVAILABLE", "DISCUSSION_OPEN"}) = FALSE
    BY <2>1
  <2>5. /\ [u \in Users |-> persp[u].long] = [u \in Users |-> FALSE]
        /\ [u \in Users |-> IF Locked(u) THEN "locked"
                            ELSE IF persp[u].status = "SUBMITTED_PENDING_REVIEW"
                                 THEN "submitted" ELSE "writing"]
           = [u \in Users |-> "writing"]
    BY <2>1, <2>2
  <2>6. QED
    BY <2>1, <2>3, <2>4, <2>5 DEF Promise!Init
<1>2. Base /\ CommentsComeFirst /\ [Next]_vars => CommentsComeFirst'
  BY CommentsComeFirstStep
<1>3. /\ Base /\ Base' /\ Grounded /\ SawAdvice' /\ CommentsComeFirst /\ [Next]_vars
      => [Promise!Next]_(Promise!vars)
  BY PromiseStep DEF Base
<1>4. QED
  BY BaseInvariance, Grounding, AdviceComesFirst, CommentsComeFirstInit, <1>1, <1>2, <1>3, PTL
     DEF Spec, PromiseSpec, Promise!Spec
=============================================================================
