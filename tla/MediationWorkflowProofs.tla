----------------------- MODULE MediationWorkflowProofs -----------------------
(***************************************************************************)
(* Proofs about a mediation session, for any number of workers, requests,  *)
(* comments and faults.  The job queue and the agreement inside a session  *)
(* are instances of modules with theorems of their own: every step of the  *)
(* session is a step of the queue or leaves it alone, and so for the       *)
(* agreement except that the workers and comments write the status too, so *)
(* the inductive invariants of both hold here as well.  Base puts them     *)
(* together with the types.  How often results are stored follows from     *)
(* counting: a run that has not stored its result yet may still do so.     *)
(***************************************************************************)
EXTENDS MediationWorkflowProperties, FiniteSetTheorems, TLAPS

QueueProofs     == INSTANCE MediationJobQueueProofs WITH Keys <- JobKeys
AgreementProofs == INSTANCE MediationAgreementProofs

\* The queue of the session is the one the theorems are about.
LEMMA SameQueue ==
    /\ Queue!Init <=> QueueProofs!Init
    /\ [Queue!Next]_(Queue!vars) <=> [QueueProofs!Next]_(QueueProofs!vars)
<1> USE DEF Queue!Goto, QueueProofs!Goto, Queue!Release, QueueProofs!Release,
        Queue!SetStatus, QueueProofs!SetStatus, Queue!counters, QueueProofs!counters,
        Queue!Held, QueueProofs!Held, Queue!Holds, QueueProofs!Holds, Queue!Busy, QueueProofs!Busy,
        Queue!Exists, QueueProofs!Exists, Queue!NewJob, QueueProofs!NewJob, Queue!NoJob, QueueProofs!NoJob,
        Queue!Claimable, QueueProofs!Claimable, Queue!StaleProcessing, QueueProofs!StaleProcessing
<1>1. ASSUME NEW k
      PROVE  /\ Queue!Create(k) <=> QueueProofs!Create(k)
             /\ Queue!Requeue(k) <=> QueueProofs!Requeue(k)
             /\ Queue!LeaseExpires(k) <=> QueueProofs!LeaseExpires(k)
  BY DEF Queue!Create, QueueProofs!Create, Queue!Requeue, QueueProofs!Requeue,
         Queue!LeaseExpires, QueueProofs!LeaseExpires
<1>2. ASSUME NEW w
      PROVE  Queue!WorkerStep(w) <=> QueueProofs!WorkerStep(w)
  BY DEF Queue!WorkerStep, QueueProofs!WorkerStep, Queue!Start, QueueProofs!Start,
         Queue!Sweep, QueueProofs!Sweep, Queue!Claim, QueueProofs!Claim, Queue!Sleep, QueueProofs!Sleep,
         Queue!Return, QueueProofs!Return, Queue!Raise, QueueProofs!Raise,
         Queue!MarkCompleted, QueueProofs!MarkCompleted, Queue!ReadAttempts, QueueProofs!ReadAttempts,
         Queue!WriteVerdict, QueueProofs!WriteVerdict
<1>3. ASSUME NEW w
      PROVE  /\ Queue!MarkCompletedRaises(w) <=> QueueProofs!MarkCompletedRaises(w)
             /\ Queue!Crash(w) <=> QueueProofs!Crash(w)
  BY DEF Queue!MarkCompletedRaises, QueueProofs!MarkCompletedRaises, Queue!Crash, QueueProofs!Crash
<1>4. Queue!Init <=> QueueProofs!Init
  BY DEF Queue!Init, QueueProofs!Init
<1>5. Queue!vars = QueueProofs!vars /\ Queue!vars' = QueueProofs!vars'
  BY DEF Queue!vars, QueueProofs!vars
<1> HIDE DEF Queue!Goto
<1>6. Queue!Next <=> QueueProofs!Next
  BY <1>1, <1>2, <1>3, Zenon DEF Queue!Next, QueueProofs!Next
<1>7. QED
  BY <1>4, <1>5, <1>6

LEMMA SameAgreement ==
    /\ Agreement!Init <=> AgreementProofs!Init
    /\ [Agreement!Next]_(Agreement!vars) <=> [AgreementProofs!Next]_(AgreementProofs!vars)
<1> USE DEF Agreement!Decide, AgreementProofs!Decide, Agreement!Idle, AgreementProofs!Idle,
        Agreement!history, AgreementProofs!history
<1>1. ASSUME NEW r, NEW u
      PROVE  Agreement!Read(r, u) <=> AgreementProofs!Read(r, u)
  BY DEF Agreement!Read, AgreementProofs!Read, Agreement!ResolveSession, AgreementProofs!ResolveSession,
         Agreement!UnresolveSession, AgreementProofs!UnresolveSession,
         Agreement!ArchiveSession, AgreementProofs!ArchiveSession,
         Agreement!UnarchiveSession, AgreementProofs!UnarchiveSession
<1>2. ASSUME NEW r
      PROVE  (Agreement!Write(r) <=> AgreementProofs!Write(r)) /\ (Agreement!Abort(r) <=> AgreementProofs!Abort(r))
  BY DEF Agreement!Write, AgreementProofs!Write, Agreement!MarkResolved, AgreementProofs!MarkResolved,
         Agreement!UnmarkResolved, AgreementProofs!UnmarkResolved,
         Agreement!MarkArchived, AgreementProofs!MarkArchived,
         Agreement!UnmarkArchived, AgreementProofs!UnmarkArchived, Agreement!Abort, AgreementProofs!Abort
<1>3. Agreement!Init <=> AgreementProofs!Init
  BY DEF Agreement!Init, AgreementProofs!Init
<1>4. Agreement!vars = AgreementProofs!vars /\ Agreement!vars' = AgreementProofs!vars'
  BY DEF Agreement!vars, AgreementProofs!vars
<1>5. Agreement!Next <=> AgreementProofs!Next
  BY <1>1, <1>2, Zenon DEF Agreement!Next, AgreementProofs!Next
<1>6. QED
  BY <1>3, <1>4, <1>5

-----------------------------------------------------------------------------
(* Types. *)

Typed == TypeOK /\ QueueProofs!TypeOK /\ AgreementProofs!TypeOK

\* The type of a job says what it is about.
LEMMA JobKinds ==
    ASSUME NEW k \in JobKeys
    PROVE  /\ k[1] = "perspective_moderation" => k[2] \in Users /\ k = ModerationJob(k[2])
           /\ k[1] = "private_reflection" => k[2] \in Users /\ k = ReflectionJob(k[2])
           /\ k[1] = "shared_advice" => k = AdviceJob
           /\ k[1] = "comment_response" => k[2] \in Comments /\ k = ResponseJob(k[2])
  BY DEF JobKeys, ModerationJob, ReflectionJob, AdviceJob, ResponseJob

\* A worker inside process_job handles a job of the table.
LEMMA HandledJob ==
    ASSUME Typed, NEW w \in Workers, pc[w] = "process"
    PROVE  claimed[w] \in JobKeys
  BY QueueAssumption DEF Typed, QueueProofs!TypeOK, QueueProofs!Busy

LEMMA HandledSubject ==
    ASSUME Typed, NEW w \in Workers, NEW label
    PROVE  /\ Handling(w, "perspective_moderation", label) =>
                Subject(w) \in Users /\ claimed[w] = ModerationJob(Subject(w))
           /\ Handling(w, "private_reflection", label) =>
                Subject(w) \in Users /\ claimed[w] = ReflectionJob(Subject(w))
           /\ Handling(w, "shared_advice", label) => claimed[w] = AdviceJob
           /\ Handling(w, "comment_response", label) =>
                Subject(w) \in Comments /\ claimed[w] = ResponseJob(Subject(w))
  BY HandledJob, JobKinds DEF Handling, Subject

LEMMA TypedInit == Init => Typed
<1> SUFFICES ASSUME Init PROVE Typed
  OBVIOUS
<1>1. QueueProofs!TypeOK
  BY SameQueue, QueueAssumption, QueueProofs!TypeInit DEF Init, QueueProofs!TypeInit
<1>2. AgreementProofs!TypeOK
  <2>1. AgreementProofs!Init
    BY SameAgreement DEF Init
  <2>2. QED
    BY <2>1 DEF AgreementProofs!Init, AgreementProofs!TypeOK, AgreementProofs!SessionStatus,
       AgreementProofs!Request, AgreementProofs!Ops, AgreementProofs!Idle
<1>3. TypeOK
  <2> USE DEF Init, NotRunning, NoCall
  <2>1. persp \in [Users -> Perspective]
    BY DEF Perspective, PerspectiveStatus
  <2>2. step \in [Workers -> [at : HandlerSteps, sawAdvice : BOOLEAN]]
    BY DEF HandlerSteps
  <2>3. call \in [Calls -> [at : CallSteps, sawAdvice : BOOLEAN, about : SUBSET Comments]]
    BY DEF CallSteps
  <2>4. \A w \in Workers : (pc[w] = "process") <=> (step[w].at # "idle")
    BY DEF Queue!Init
  <2>5. status \in Agreement!SessionStatus /\ safety \in SafetyStatus /\ latest \in BOOLEAN
    BY DEF SafetyStatus, Agreement!Init, Agreement!SessionStatus
  <2>6. /\ reflections \in [Users -> Nat] /\ advices \in Nat
        /\ posted \subseteq Comments /\ replies \in [Comments -> Nat]
    OBVIOUS
  <2>7. aborts \in 0..MaxAborts /\ raises \in 0..MaxRaises
    BY FaultsAssumption
  <2>8. QED
    BY <2>1, <2>2, <2>3, <2>4, <2>5, <2>6, <2>7 DEF TypeOK
<1>4. QED
  BY <1>1, <1>2, <1>3 DEF Typed

-----------------------------------------------------------------------------
(* Every step of the workflow is a step of the queue or leaves it alone. *)

LEMMA QueueUntouched == UNCHANGED queueVars => UNCHANGED Queue!vars
  BY DEF queueVars, Queue!vars, Queue!counters

LEMMA HandlerQueueStep ==
    ASSUME Typed, NEW w \in Workers, HandlerStep(w)
    PROVE  [Queue!Next]_(Queue!vars)
<1>1. CASE CreatesReflectionJob(w)
  <2>1. Subject(w) \in Users
    BY <1>1, HandledSubject DEF CreatesReflectionJob
  <2>2. Queue!Create(ReflectionJob(Subject(w))) /\ ReflectionJob(Subject(w)) \in JobKeys
    BY <1>1, <2>1 DEF CreatesReflectionJob, JobKeys
  <2>3. QED
    BY <2>2 DEF Queue!Next
<1>2. CASE CreatesAdviceJob(w)
  BY <1>2 DEF CreatesAdviceJob, JobKeys, Queue!Next
<1>3. CASE UNCHANGED queueVars
  BY <1>3, QueueUntouched
<1>4. QED
  BY <1>1, <1>2, <1>3 DEF HandlerStep, ReadsPerspective, LocksPerspective, CountsLocked,
     SetsPartialOrProcessing, Reflects, InsertsReflection, BlocksOutput, Advises,
     InsertsAdvice, SetsLatestAdvice, ReadsSession, Responds, InsertsReply, SetsReviewOrOpen

LEMMA CallQueueStep ==
    ASSUME Typed, NEW c \in Calls,
           DraftReads(c) \/ SubmitReads(c) \/ CommentReads(c) \/ CallContinues(c) \/ CallAborts(c)
    PROVE  [Queue!Next]_(Queue!vars)
<1>1. CASE SubmitEnqueues(c)
  <2>1. c[1] \in Users
    BY DEF Calls
  <2>2. QED
    BY <1>1, <2>1 DEF SubmitEnqueues, JobKeys, Queue!Next
<1>2. CASE CommentEnqueues(c)
  <2>1. PICK cm \in call[c].about : Queue!Create(ResponseJob(cm))
    BY <1>2 DEF CommentEnqueues
  <2>2. cm \in Comments
    BY <2>1 DEF Typed, TypeOK
  <2>3. QED
    BY <2>1, <2>2 DEF JobKeys, Queue!Next
<1>3. CASE UNCHANGED queueVars
  BY <1>3, QueueUntouched
<1>4. QED
  BY <1>1, <1>2, <1>3 DEF DraftReads, SubmitReads, CommentReads, CallContinues, CallAborts,
     DraftUpserts, SubmitMarks, CommentInserts, CommentOpens

LEMMA QueueStep ==
    ASSUME Typed, [Next]_vars
    PROVE  [Queue!Next]_(Queue!vars)
<1>1. ASSUME NEW w \in Workers, WorkerStep(w) \/ WorkerFault(w)
      PROVE  [Queue!Next]_(Queue!vars)
  <2>1. CASE HandlerStep(w)
    BY <2>1, HandlerQueueStep
  <2>2. CASE LoopStep(w) \/ Claims(w) \/ Returns(w) \/ RaisesException(w)
    BY <2>2 DEF LoopStep, Claims, Returns, RaisesException, Queue!Next, Queue!WorkerStep
  <2>3. CASE WorkerFault(w)
    BY <2>3 DEF WorkerFault, Dies, Queue!Next
  <2>4. QED
    BY <1>1, <2>1, <2>2, <2>3 DEF WorkerStep
<1>2. ASSUME NEW k \in JobKeys, LeaseExpires(k) \/ OperatorRequeues(k)
      PROVE  [Queue!Next]_(Queue!vars)
  BY <1>2 DEF LeaseExpires, OperatorRequeues, Queue!Next
<1>3. CASE AgreementStep \/ UNCHANGED vars
  BY <1>3, QueueUntouched DEF AgreementStep, vars
<1>4. QED
  BY <1>1, <1>2, <1>3, CallQueueStep DEF Next

-----------------------------------------------------------------------------
(* What the other steps do to the fields the agreement writes. *)

\* Who but the agreement writes the status of the session, and what.
StatusWrites ==
    \/ UNCHANGED status
    \/ status' = "DISCUSSION_OPEN" /\ \E c \in Calls : CommentOpens(c)
    \/ status' \in {"PARTIAL_PERSPECTIVE_SUBMITTED", "AI_MEDIATION_PROCESSING"}
    \/ status' = "AI_ADVICE_AVAILABLE" /\ \E w \in Workers : SetsLatestAdvice(w)
    \/ /\ status' = "DISCUSSION_OPEN"
       /\ \E w \in Workers : Handling(w, "comment_response", "set_open")

LEMMA StatusMoves ==
    ASSUME [Next]_vars
    PROVE  [Agreement!Next]_(Agreement!vars) \/ (UNCHANGED markVars /\ StatusWrites)
<1>a. UNCHANGED sessionVars => UNCHANGED status /\ UNCHANGED markVars
  BY DEF sessionVars
<1> USE DEF StatusWrites
<1>1. ASSUME NEW w \in Workers, WorkerStep(w) \/ WorkerFault(w)
      PROVE  UNCHANGED markVars /\ StatusWrites
  <2>1. CASE SetsPartialOrProcessing(w) \/ SetsReviewOrOpen(w) \/ SetsLatestAdvice(w) \/ BlocksOutput(w)
    BY <2>1 DEF SetsPartialOrProcessing, SetsReviewOrOpen, SetsLatestAdvice, BlocksOutput,
       SetStatus, SetSafety
  <2>2. CASE UNCHANGED sessionVars
    BY <1>a, <2>2
  <2>3. QED
    BY <1>1, <2>1, <2>2 DEF WorkerStep, WorkerFault, HandlerStep, ReadsPerspective, LocksPerspective,
       CreatesReflectionJob, CountsLocked, CreatesAdviceJob, Reflects, InsertsReflection, Advises,
       InsertsAdvice, ReadsSession, Responds, InsertsReply
<1>2. ASSUME NEW c \in Calls,
             DraftReads(c) \/ SubmitReads(c) \/ CommentReads(c) \/ CallContinues(c) \/ CallAborts(c)
      PROVE  UNCHANGED markVars /\ StatusWrites
  <2>1. CASE CommentOpens(c)
    BY <2>1 DEF CommentOpens, SetStatus
  <2>2. CASE UNCHANGED sessionVars
    BY <1>a, <2>2
  <2>3. QED
    BY <1>2, <2>1, <2>2 DEF DraftReads, SubmitReads, CommentReads, CallContinues, CallAborts,
       DraftUpserts, SubmitMarks, SubmitEnqueues, CommentInserts, CommentEnqueues
<1>3. ASSUME NEW k \in JobKeys, LeaseExpires(k) \/ OperatorRequeues(k)
      PROVE  UNCHANGED markVars /\ StatusWrites
  BY <1>a, <1>3 DEF LeaseExpires, OperatorRequeues
<1>4. CASE AgreementStep
  BY <1>4 DEF AgreementStep
<1>5. CASE UNCHANGED vars
  BY <1>a, <1>5 DEF vars
<1>6. QED
  BY <1>1, <1>2, <1>3, <1>4, <1>5 DEF Next

\* In particular nobody else writes RESOLVED or ARCHIVED.
LEMMA OnlyAgreementFinalizes ==
    ASSUME [Next]_vars
    PROVE  \/ [AgreementProofs!Next]_(AgreementProofs!vars)
           \/ /\ UNCHANGED markVars
              /\ status' = status \/ status' \in Agreement!SessionStatus \ {"RESOLVED", "ARCHIVED"}
  BY StatusMoves, SameAgreement DEF StatusWrites, Agreement!SessionStatus

LEMMA AgreementTypeStep ==
    ASSUME AgreementProofs!TypeOK, [Next]_vars
    PROVE  AgreementProofs!TypeOK'
<1>1. Users # {}
  BY TwoUsersAssumption, FS_EmptySet
<1>2. CASE [AgreementProofs!Next]_(AgreementProofs!vars)
  BY <1>1, <1>2, TwoUsersAssumption, AgreementAssumption, AgreementProofs!TypeStep
     DEF AgreementProofs!TypeStep
<1>3. CASE /\ UNCHANGED markVars
           /\ status' = status \/ status' \in Agreement!SessionStatus
  BY <1>3 DEF markVars, AgreementProofs!TypeOK, Agreement!SessionStatus, AgreementProofs!SessionStatus
<1>4. QED
  BY <1>2, <1>3, OnlyAgreementFinalizes

LEMMA AskedStep ==
    ASSUME AgreementProofs!TypeOK, AgreementProofs!Asked, [Next]_vars
    PROVE  AgreementProofs!Asked'
<1>1. Users # {}
  BY TwoUsersAssumption, FS_EmptySet
<1>2. CASE [AgreementProofs!Next]_(AgreementProofs!vars)
  BY <1>1, <1>2, TwoUsersAssumption, AgreementAssumption, AgreementProofs!AskedStep
     DEF AgreementProofs!AskedStep
<1>3. CASE /\ UNCHANGED markVars
           /\ status' = status \/ status' \notin {"RESOLVED", "ARCHIVED"}
  BY <1>3 DEF markVars, AgreementProofs!Asked, AgreementProofs!PlanAsked,
     AgreementProofs!ResolvedWasAskedByAll, AgreementProofs!ArchivedWasAskedFor
<1>4. QED
  BY <1>2, <1>3, OnlyAgreementFinalizes

-----------------------------------------------------------------------------
(* Type correctness. *)

LEMMA CallTypeStep ==
    ASSUME Typed, NEW c \in Calls,
           DraftReads(c) \/ SubmitReads(c) \/ CommentReads(c) \/ CallContinues(c) \/ CallAborts(c)
    PROVE  /\ persp' \in [Users -> Perspective]
           /\ UNCHANGED <<reflections, advices, replies, safety, latest, step, raises>>
           /\ posted' \subseteq Comments
           /\ call' \in [Calls -> [at : CallSteps, sawAdvice : BOOLEAN, about : SUBSET Comments]]
           /\ aborts' \in 0..MaxAborts
<1>a. c[1] \in Users
  BY DEF Calls
<1>b. /\ persp \in [Users -> Perspective] /\ posted \subseteq Comments
      /\ call \in [Calls -> [at : CallSteps, sawAdvice : BOOLEAN, about : SUBSET Comments]]
      /\ aborts \in 0..MaxAborts
  BY DEF Typed, TypeOK
<1> USE DEF CallSteps, CallTo, CallEnds, NoCall, CallAt, sessionVars, docVars
<1>1. CASE DraftReads(c) \/ SubmitReads(c)
  BY <1>b, <1>1 DEF DraftReads, SubmitReads
<1>2. CASE CommentReads(c)
  BY <1>b, <1>2 DEF CommentReads
<1>3. CASE DraftUpserts(c)
  BY <1>a, <1>b, <1>3, LengthsAssumption DEF DraftUpserts, Perspective, PerspectiveStatus
<1>4. CASE SubmitMarks(c)
  <2>1. persp' \in [Users -> Perspective]
    BY <1>a, <1>b, <1>4 DEF SubmitMarks, Perspective, PerspectiveStatus
  <2>2. call' \in [Calls -> [at : CallSteps, sawAdvice : BOOLEAN, about : SUBSET Comments]]
    <3>1. CASE CallTo(c, "enqueue")
      BY <1>b, <3>1
    <3>2. CASE CallEnds(c)
      BY <1>b, <3>2
    <3>3. QED
      BY <1>4, <3>1, <3>2 DEF SubmitMarks
  <2>3. UNCHANGED <<reflections, advices, replies, safety, latest, step, raises, posted, aborts>>
    BY <1>4 DEF SubmitMarks
  <2>4. QED
    BY <1>b, <2>1, <2>2, <2>3
<1>5. CASE SubmitEnqueues(c)
  BY <1>b, <1>5 DEF SubmitEnqueues
<1>6. CASE CommentInserts(c)
  <2>1. PICK cm \in Comments \ posted :
          /\ posted' = posted \cup {cm}
          /\ call' = [call EXCEPT ![c].at = "answer", ![c].about = {cm}]
    BY <1>6 DEF CommentInserts
  <2>2. call' \in [Calls -> [at : CallSteps, sawAdvice : BOOLEAN, about : SUBSET Comments]]
    BY <1>b, <2>1
  <2>3. QED
    BY <1>b, <1>6, <2>1, <2>2 DEF CommentInserts
<1>7. CASE CommentEnqueues(c)
  <2>1. call' \in [Calls -> [at : CallSteps, sawAdvice : BOOLEAN, about : SUBSET Comments]]
    <3>1. CASE CallTo(c, "open")
      BY <1>b, <3>1
    <3>2. CASE CallEnds(c)
      BY <1>b, <3>2
    <3>3. QED
      BY <1>7, <3>1, <3>2 DEF CommentEnqueues
  <2>2. UNCHANGED <<persp, reflections, advices, replies, safety, latest, step, raises, posted, aborts>>
    BY <1>7 DEF CommentEnqueues
  <2>3. QED
    BY <1>b, <2>1, <2>2
<1>8. CASE CommentOpens(c)
  BY <1>b, <1>8 DEF CommentOpens, SetStatus
<1>9. CASE CallAborts(c)
  BY <1>b, <1>9, FaultsAssumption DEF CallAborts
<1>10. QED
  BY <1>1, <1>2, <1>3, <1>4, <1>5, <1>6, <1>7, <1>8, <1>9 DEF CallContinues

\* A handler goes from step to step and stays inside process_job.
LEMMA HandlerTypeStep ==
    ASSUME Typed, NEW w \in Workers, HandlerStep(w)
    PROVE  /\ persp' \in [Users -> Perspective]
           /\ reflections' \in [Users -> Nat] /\ advices' \in Nat /\ replies' \in [Comments -> Nat]
           /\ safety' \in SafetyStatus /\ latest' \in BOOLEAN
           /\ UNCHANGED <<posted, call, aborts, raises>>
           /\ step' \in [Workers -> [at : HandlerSteps, sawAdvice : BOOLEAN]]
           /\ pc[w] = "process" /\ step'[w].at # "idle" /\ \A v \in Workers \ {w} : step'[v] = step[v]
           /\ UNCHANGED <<pc, claimed>>
<1>b. /\ persp \in [Users -> Perspective]
      /\ reflections \in [Users -> Nat] /\ advices \in Nat /\ replies \in [Comments -> Nat]
      /\ safety \in SafetyStatus /\ latest \in BOOLEAN
      /\ step \in [Workers -> [at : HandlerSteps, sawAdvice : BOOLEAN]]
  BY DEF Typed, TypeOK
<1> USE DEF To, HandlerSteps, SafetyStatus, sessionVars, docVars, queueVars, SetStatus, SetSafety
<1>1. CASE ReadsPerspective(w)
  BY <1>b, <1>1 DEF ReadsPerspective, Handling
<1>2. CASE LocksPerspective(w)
  BY <1>b, <1>2 DEF LocksPerspective, Handling, Perspective, PerspectiveStatus
<1>3. CASE CreatesReflectionJob(w)
  BY <1>b, <1>3 DEF CreatesReflectionJob, Handling, Queue!Create
<1>4. CASE CountsLocked(w)
  BY <1>b, <1>4 DEF CountsLocked, Handling
<1>5. CASE SetsPartialOrProcessing(w)
  BY <1>b, <1>5 DEF SetsPartialOrProcessing, Handling
<1>6. CASE CreatesAdviceJob(w)
  BY <1>b, <1>6 DEF CreatesAdviceJob, Handling, Queue!Create
<1>7. CASE Reflects(w) \/ Responds(w)
  BY <1>b, <1>7 DEF Reflects, Responds, Handling
<1>8. CASE InsertsReflection(w)
  <2>1. reflections' \in [Users -> Nat]
    BY <1>b, <1>8, HandledSubject DEF InsertsReflection
  <2>2. QED
    BY <1>b, <1>8, <2>1 DEF InsertsReflection, Handling
<1>9. CASE BlocksOutput(w)
  BY <1>b, <1>9 DEF BlocksOutput, Handling
<1>10. CASE Advises(w) \/ InsertsAdvice(w)
  BY <1>b, <1>10 DEF Advises, InsertsAdvice, Handling
<1>11. CASE SetsLatestAdvice(w)
  BY <1>b, <1>11 DEF SetsLatestAdvice, Handling
<1>12. CASE ReadsSession(w)
  BY <1>b, <1>12 DEF ReadsSession, Handling
<1>13. CASE InsertsReply(w)
  <2>1. replies' \in [Comments -> Nat]
    BY <1>b, <1>13, HandledSubject DEF InsertsReply
  <2>2. PICK label \in {"set_needs_review", "set_open", "done"} : To(w, label)
    BY <1>13 DEF InsertsReply
  <2>3. QED
    BY <1>b, <1>13, <2>1, <2>2 DEF InsertsReply, Handling
<1>14. CASE SetsReviewOrOpen(w)
  BY <1>b, <1>14 DEF SetsReviewOrOpen, Handling
<1>15. QED
  BY <1>1, <1>2, <1>3, <1>4, <1>5, <1>6, <1>7, <1>8, <1>9, <1>10, <1>11, <1>12, <1>13, <1>14
     DEF HandlerStep

\* The loop enters process_job by a claim and leaves it by every other step.
LEMMA LoopTypeStep ==
    ASSUME Typed, NEW w \in Workers,
           LoopStep(w) \/ Claims(w) \/ Returns(w) \/ RaisesException(w) \/ WorkerFault(w)
    PROVE  /\ step' \in [Workers -> [at : HandlerSteps, sawAdvice : BOOLEAN]]
           /\ (pc'[w] = "process") <=> (step'[w].at # "idle")
           /\ \A v \in Workers \ {w} : step'[v] = step[v] /\ pc'[v] = pc[v]
           /\ raises' \in 0..MaxRaises
<1>b. /\ step \in [Workers -> [at : HandlerSteps, sawAdvice : BOOLEAN]]
      /\ pc \in [Workers -> Queue!PCs] /\ raises \in 0..MaxRaises
      /\ (pc[w] = "process") <=> (step[w].at # "idle")
  BY DEF Typed, TypeOK, QueueProofs!TypeOK, QueueProofs!PCs, Queue!PCs
<1> USE DEF HandlerSteps, Queue!Goto, Stops, NotRunning
<1>1. CASE LoopStep(w)
  BY <1>b, <1>1 DEF LoopStep, Queue!Start, Queue!Sweep, Queue!Sleep, Queue!MarkCompleted,
     Queue!ReadAttempts, Queue!WriteVerdict
<1>2. CASE Claims(w)
  BY <1>b, <1>2 DEF Claims, To, Queue!Claim
<1>3. CASE Returns(w)
  BY <1>b, <1>3 DEF Returns, Queue!Return
<1>4. CASE RaisesException(w)
  BY <1>b, <1>4, FaultsAssumption DEF RaisesException, Queue!Raise
<1>5. CASE WorkerFault(w)
  <2>1. CASE Dies(w)
    BY <1>b, <1>5, <2>1 DEF WorkerFault, Dies, Queue!Crash
  <2>2. CASE Queue!MarkCompletedRaises(w) /\ UNCHANGED step
    BY <1>b, <1>5, <2>2 DEF WorkerFault, Queue!MarkCompletedRaises
  <2>3. QED
    BY <1>5, <2>1, <2>2 DEF WorkerFault
<1>6. QED
  BY <1>1, <1>2, <1>3, <1>4, <1>5

LEMMA TypedStep == ASSUME Typed, [Next]_vars PROVE Typed'
<1>1. QueueProofs!TypeOK'
  BY QueueStep, SameQueue, QueueAssumption, QueueProofs!TypeStep DEF Typed, QueueProofs!TypeStep
<1>2. AgreementProofs!TypeOK'
  BY AgreementTypeStep DEF Typed
<1>3. status' \in Agreement!SessionStatus
  BY <1>2 DEF AgreementProofs!TypeOK, AgreementProofs!SessionStatus, Agreement!SessionStatus
<1>4. ASSUME NEW c \in Calls,
             DraftReads(c) \/ SubmitReads(c) \/ CommentReads(c) \/ CallContinues(c) \/ CallAborts(c)
      PROVE  TypeOK'
  <2>1. UNCHANGED pc
    BY <1>4 DEF DraftReads, SubmitReads, CommentReads, CallContinues, CallAborts, DraftUpserts,
       SubmitMarks, SubmitEnqueues, CommentInserts, CommentEnqueues, CommentOpens,
       queueVars, Queue!Create
  <2>2. QED
    BY <1>3, <1>4, <2>1, CallTypeStep DEF Typed, TypeOK
<1>5. ASSUME NEW w \in Workers, HandlerStep(w) PROVE TypeOK'
  BY <1>3, <1>5, HandlerTypeStep DEF Typed, TypeOK
<1>6. ASSUME NEW w \in Workers,
             LoopStep(w) \/ Claims(w) \/ Returns(w) \/ RaisesException(w) \/ WorkerFault(w),
             UNCHANGED <<sessionVars, docVars, call, aborts>>
      PROVE  TypeOK'
  BY <1>3, <1>6, LoopTypeStep DEF Typed, TypeOK, sessionVars, docVars
<1>7. ASSUME NEW k \in JobKeys, LeaseExpires(k) \/ OperatorRequeues(k) PROVE TypeOK'
  BY <1>3, <1>7 DEF LeaseExpires, OperatorRequeues, sessionVars, docVars,
     Queue!LeaseExpires, Queue!Requeue, Typed, TypeOK
<1>8. ASSUME AgreementStep PROVE TypeOK'
  BY <1>3, <1>8 DEF AgreementStep, docVars, queueVars, Typed, TypeOK
<1>9. ASSUME UNCHANGED vars PROVE TypeOK'
  BY <1>3, <1>9 DEF vars, sessionVars, docVars, queueVars, Typed, TypeOK
<1>10. TypeOK'
  BY <1>4, <1>5, <1>6, <1>7, <1>8, <1>9 DEF Next, WorkerStep, WorkerFault
<1>11. QED
  BY <1>1, <1>2, <1>10 DEF Typed

-----------------------------------------------------------------------------
(* What the components promise holds in the workflow. *)

Base == /\ Typed
        /\ QueueProofs!Inv /\ QueueProofs!InHandExists
        /\ AgreementProofs!Asked

LEMMA BaseInit == Init => Base
<1> SUFFICES ASSUME Init PROVE Base
  OBVIOUS
<1>1. Typed
  BY TypedInit
<1>2. QueueProofs!Init
  BY SameQueue DEF Init
<1>3. QueueProofs!Inv
  BY <1>2, QueueAssumption, QueueProofs!InvInit DEF QueueProofs!InvInit
<1>4. QueueProofs!InHandExists
  BY <1>2, QueueAssumption, QueueProofs!InHandInit DEF QueueProofs!InHandInit
<1>5. AgreementProofs!Asked
  BY DEF Init, Agreement!Init, Agreement!Idle, AgreementProofs!Asked, AgreementProofs!PlanAsked,
     AgreementProofs!ResolvedWasAskedByAll, AgreementProofs!ArchivedWasAskedFor
<1>6. QED
  BY <1>1, <1>3, <1>4, <1>5 DEF Base

LEMMA BaseStep == Base /\ [Next]_vars => Base'
<1> SUFFICES ASSUME Base, [Next]_vars PROVE Base'
  OBVIOUS
<1>1. Typed'
  BY TypedStep DEF Base
<1>2. [QueueProofs!Next]_(QueueProofs!vars)
  BY QueueStep, SameQueue DEF Base
<1>3. QueueProofs!Inv'
  BY <1>2, QueueAssumption, QueueProofs!InvStep DEF Base, QueueProofs!InvStep
<1>4. QueueProofs!InHandExists'
  BY <1>2, QueueAssumption, QueueProofs!InHandStep DEF Base, Typed, QueueProofs!InHandStep
<1>5. AgreementProofs!Asked'
  BY AskedStep DEF Base, Typed
<1>6. QED
  BY <1>1, <1>3, <1>4, <1>5 DEF Base

\* The inductive invariants of the queue and of the agreement hold of every
\* behaviour of the session that uses them.
THEOREM BaseInvariance == Spec => []Base
  BY BaseInit, BaseStep, PTL DEF Spec

\* Every reachable document, request and handler of the session is well formed,
\* and exactly the workers inside process_job are at a step of a handler.
THEOREM TypeCorrect == Spec => []TypeOK
<1>1. Base => TypeOK
  BY DEF Base, Typed
<1>2. QED
  BY BaseInvariance, <1>1, PTL

\* The session, its handlers and its users' requests use the job queue only
\* through its operations: every behaviour of the workflow is one of the queue.
THEOREM ImplementsQueue == Spec => Queue!Spec
<1>1. Init => Queue!Init
  BY DEF Init
<1>2. Base /\ [Next]_vars => [Queue!Next]_(Queue!vars)
  BY QueueStep DEF Base
<1>3. QED
  BY BaseInvariance, <1>1, <1>2, PTL DEF Spec, Queue!Spec

\* Also while the worker and comments write the same status field, RESOLVED
\* appears only after both users asked for it.
THEOREM NothingUnasked == Spec => []ResolvedWasAskedByAll
<1>1. Base => ResolvedWasAskedByAll
  BY DEF Base, AgreementProofs!Asked, AgreementProofs!ResolvedWasAskedByAll, ResolvedWasAskedByAll
<1>2. QED
  BY BaseInvariance, <1>1, PTL

-----------------------------------------------------------------------------
(* How often results are stored. *)

\* What the handlers of job k have stored.
Stored(k) == IF k[1] = "private_reflection" THEN reflections[k[2]]
             ELSE IF k[1] = "shared_advice" THEN advices
             ELSE IF k[1] = "comment_response" THEN replies[k[2]] ELSE 0

\* The workers that run job k and may still store a result of this run.
BeforeStore == {"start", "respond", "insert_reflection", "insert_advice", "insert_reply"}
Storing(k)  == {w \in Workers : pc[w] = "process" /\ claimed[w] = k /\ step[w].at \in BeforeStore}

\* Each run stores at most one result.
RunsPayForResults ==
    \A k \in JobKeys : Stored(k) + Cardinality(Storing(k)) <= runs[k]

LEMMA StoringFinite ==
    ASSUME NEW k
    PROVE  /\ IsFiniteSet(Storing(k)) /\ Cardinality(Storing(k)) \in Nat
           /\ IsFiniteSet(Storing(k)') /\ Cardinality(Storing(k)') \in Nat
<1>1. Storing(k) \subseteq Workers /\ Storing(k)' \subseteq Workers
  BY DEF Storing
<1>2. QED
  BY <1>1, FiniteAssumption, FS_Subset, FS_CardinalityType

\* Reaching a step before the store takes a step before the store.
LEMMA NoSecondStore ==
    ASSUME Typed, NEW w \in Workers, HandlerStep(w)
    PROVE  /\ step'[w].at \in BeforeStore => step[w].at \in BeforeStore
           /\ UNCHANGED runs
<1>b. step \in [Workers -> [at : HandlerSteps, sawAdvice : BOOLEAN]]
  BY DEF Typed, TypeOK
<1> USE DEF To, BeforeStore, queueVars, Handling
<1>1. CASE ReadsPerspective(w)
  BY <1>b, <1>1 DEF ReadsPerspective
<1>2. CASE LocksPerspective(w)
  BY <1>b, <1>2 DEF LocksPerspective
<1>3. CASE CreatesReflectionJob(w) \/ CreatesAdviceJob(w)
  BY <1>b, <1>3 DEF CreatesReflectionJob, CreatesAdviceJob, Queue!Create
<1>4. CASE CountsLocked(w)
  BY <1>b, <1>4 DEF CountsLocked
<1>5. CASE SetsPartialOrProcessing(w)
  BY <1>b, <1>5 DEF SetsPartialOrProcessing
<1>6. CASE Reflects(w) \/ Responds(w) \/ Advises(w)
  BY <1>b, <1>6 DEF Reflects, Responds, Advises
<1>7. CASE ReadsSession(w)
  BY <1>b, <1>7 DEF ReadsSession
<1>8. CASE InsertsReflection(w) \/ InsertsAdvice(w)
  BY <1>b, <1>8 DEF InsertsReflection, InsertsAdvice
<1>9. CASE InsertsReply(w)
  BY <1>b, <1>9 DEF InsertsReply
<1>10. CASE SetsLatestAdvice(w) \/ BlocksOutput(w) \/ SetsReviewOrOpen(w)
  BY <1>b, <1>10 DEF SetsLatestAdvice, BlocksOutput, SetsReviewOrOpen
<1>11. QED
  BY <1>1, <1>2, <1>3, <1>4, <1>5, <1>6, <1>7, <1>8, <1>9, <1>10 DEF HandlerStep

LEMMA NothingStored ==
    ASSUME UNCHANGED <<reflections, advices, replies>>, NEW k PROVE Stored(k)' = Stored(k)
  BY DEF Stored

\* A run that stores its result is not about to store one any more.
LEMMA StoreEndsStoring ==
    ASSUME Typed, NEW w \in Workers, InsertsReflection(w) \/ InsertsAdvice(w) \/ InsertsReply(w)
    PROVE  /\ claimed[w] \in JobKeys
           /\ w \in Storing(claimed[w]) /\ step'[w].at \notin BeforeStore
           /\ \A k \in JobKeys :
                Stored(k)' = IF k = claimed[w] THEN Stored(k) + 1 ELSE Stored(k)
<1>b. /\ step \in [Workers -> [at : HandlerSteps, sawAdvice : BOOLEAN]]
      /\ reflections \in [Users -> Nat] /\ replies \in [Comments -> Nat]
  BY DEF Typed, TypeOK
<1>c. claimed[w] \in JobKeys
  BY HandledJob DEF InsertsReflection, InsertsAdvice, InsertsReply, Handling
<1>1. CASE InsertsReflection(w)
  <2>1. Subject(w) \in Users /\ claimed[w] = ReflectionJob(Subject(w))
    BY <1>1, HandledSubject DEF InsertsReflection
  <2>2. w \in Storing(claimed[w]) /\ step'[w].at \notin BeforeStore
    BY <1>b, <1>1 DEF InsertsReflection, Handling, Storing, BeforeStore, To
  <2>3. ASSUME NEW k \in JobKeys
        PROVE  Stored(k)' = IF k = claimed[w] THEN Stored(k) + 1 ELSE Stored(k)
    BY <1>b, <1>1, <2>1, JobKinds DEF InsertsReflection, Stored, ReflectionJob
  <2>4. QED
    BY <1>c, <2>2, <2>3
<1>2. CASE InsertsAdvice(w)
  <2>1. claimed[w] = AdviceJob
    BY <1>2, HandledSubject DEF InsertsAdvice
  <2>2. w \in Storing(claimed[w]) /\ step'[w].at \notin BeforeStore
    BY <1>b, <1>2 DEF InsertsAdvice, Handling, Storing, BeforeStore, To
  <2>3. ASSUME NEW k \in JobKeys
        PROVE  Stored(k)' = IF k = claimed[w] THEN Stored(k) + 1 ELSE Stored(k)
    BY <1>2, <2>1, JobKinds DEF InsertsAdvice, Stored, AdviceJob
  <2>4. QED
    BY <1>c, <2>2, <2>3
<1>3. CASE InsertsReply(w)
  <2>1. Subject(w) \in Comments /\ claimed[w] = ResponseJob(Subject(w))
    BY <1>3, HandledSubject DEF InsertsReply
  <2>2. w \in Storing(claimed[w]) /\ step'[w].at \notin BeforeStore
    BY <1>b, <1>3 DEF InsertsReply, Handling, Storing, BeforeStore, To
  <2>3. ASSUME NEW k \in JobKeys
        PROVE  Stored(k)' = IF k = claimed[w] THEN Stored(k) + 1 ELSE Stored(k)
    BY <1>b, <1>3, <2>1, JobKinds DEF InsertsReply, Stored, ResponseJob
  <2>4. QED
    BY <1>c, <2>2, <2>3
<1>4. QED
  BY <1>1, <1>2, <1>3

\* The three ways a step changes the balance of a job.
Balanced(k) ==
    \/ /\ Stored(k)' = Stored(k) /\ runs'[k] = runs[k]
       /\ Storing(k)' \subseteq Storing(k)
    \/ /\ Stored(k)' = Stored(k) /\ runs'[k] = runs[k] + 1
       /\ \E w \in Workers : Storing(k)' \subseteq Storing(k) \cup {w}
    \/ /\ Stored(k)' = Stored(k) + 1 /\ runs'[k] = runs[k]
       /\ \E w \in Storing(k) : Storing(k)' \subseteq Storing(k) \ {w}

LEMMA RunsPay ==
    ASSUME Typed, Typed', NEW k \in JobKeys, Balanced(k),
           Stored(k) + Cardinality(Storing(k)) <= runs[k]
    PROVE  (Stored(k) + Cardinality(Storing(k)) <= runs[k])'
<1>1. /\ Stored(k) \in Nat /\ runs[k] \in Nat
  BY JobKinds DEF Typed, TypeOK, QueueProofs!TypeOK, Stored
<1>2. /\ IsFiniteSet(Storing(k)) /\ Cardinality(Storing(k)) \in Nat
      /\ Cardinality(Storing(k)') \in Nat
  BY StoringFinite
<1>3. CASE /\ Stored(k)' = Stored(k) /\ runs'[k] = runs[k]
           /\ Storing(k)' \subseteq Storing(k)
  <2>1. Cardinality(Storing(k)') <= Cardinality(Storing(k))
    BY <1>2, <1>3, FS_Subset
  <2>2. QED
    BY <1>1, <1>2, <1>3, <2>1
<1>4. CASE /\ Stored(k)' = Stored(k) /\ runs'[k] = runs[k] + 1
           /\ \E w \in Workers : Storing(k)' \subseteq Storing(k) \cup {w}
  <2>1. PICK w \in Workers : Storing(k)' \subseteq Storing(k) \cup {w}
    BY <1>4
  <2>2. /\ IsFiniteSet(Storing(k) \cup {w})
        /\ Cardinality(Storing(k) \cup {w}) \in Nat
        /\ Cardinality(Storing(k) \cup {w}) <= Cardinality(Storing(k)) + 1
    BY <1>2, FS_AddElement
  <2>3. Cardinality(Storing(k)') <= Cardinality(Storing(k) \cup {w})
    BY <2>1, <2>2, FS_Subset
  <2>4. QED
    BY <1>1, <1>2, <1>4, <2>2, <2>3
<1>5. CASE /\ Stored(k)' = Stored(k) + 1 /\ runs'[k] = runs[k]
           /\ \E w \in Storing(k) : Storing(k)' \subseteq Storing(k) \ {w}
  <2>1. PICK w \in Storing(k) : Storing(k)' \subseteq Storing(k) \ {w}
    BY <1>5
  <2>2. /\ IsFiniteSet(Storing(k) \ {w})
        /\ Cardinality(Storing(k) \ {w}) = Cardinality(Storing(k)) - 1
    BY <1>2, FS_RemoveElement
  <2>3. Cardinality(Storing(k)') <= Cardinality(Storing(k) \ {w})
    BY <2>1, <2>2, FS_Subset
  <2>4. QED
    BY <1>1, <1>2, <1>5, <2>2, <2>3
<1>6. QED
  BY <1>3, <1>4, <1>5 DEF Balanced

LEMMA BalancedStep ==
    ASSUME Typed, [Next]_vars, NEW k \in JobKeys
    PROVE  Balanced(k)
<1>b. /\ step \in [Workers -> [at : HandlerSteps, sawAdvice : BOOLEAN]]
      /\ pc \in [Workers -> QueueProofs!PCs]
      /\ claimed \in [Workers -> JobKeys \cup {NoKey}]
      /\ runs \in [JobKeys -> Nat]
  BY DEF Typed, TypeOK, QueueProofs!TypeOK
<1>1. ASSUME NEW w \in Workers, HandlerStep(w)
      PROVE  Balanced(k)
  <2>1. /\ step'[w].at \in BeforeStore => step[w].at \in BeforeStore
        /\ \A v \in Workers \ {w} : step'[v] = step[v]
        /\ UNCHANGED <<pc, claimed, runs>>
    BY <1>1, HandlerTypeStep, NoSecondStore
  <2>2. Storing(k)' \subseteq Storing(k)
    BY <2>1 DEF Storing
  <2>3. CASE InsertsReflection(w) \/ InsertsAdvice(w) \/ InsertsReply(w)
    <3>1. CASE k = claimed[w]
      <4>1. w \in Storing(k) /\ w \notin Storing(k)' /\ Stored(k)' = Stored(k) + 1
        BY <2>3, <3>1, StoreEndsStoring DEF Storing
      <4>2. QED
        BY <2>1, <2>2, <4>1 DEF Balanced
    <3>2. CASE k # claimed[w]
      BY <2>1, <2>2, <2>3, <3>2, StoreEndsStoring DEF Balanced
    <3>3. QED
      BY <3>1, <3>2
  <2>4. CASE UNCHANGED <<reflections, advices, replies>>
    BY <2>1, <2>2, <2>4, NothingStored DEF Balanced
  <2>5. QED
    BY <1>1, <2>3, <2>4 DEF HandlerStep, ReadsPerspective, LocksPerspective, CreatesReflectionJob,
       CountsLocked, SetsPartialOrProcessing, CreatesAdviceJob, Reflects, BlocksOutput, Advises,
       SetsLatestAdvice, ReadsSession, Responds, SetsReviewOrOpen, docVars
<1>2. ASSUME NEW w \in Workers, Claims(w), UNCHANGED docVars
      PROVE  Balanced(k)
  <2>1. PICK l \in JobKeys : /\ runs' = [runs EXCEPT ![l] = @ + 1]
                             /\ claimed' = [claimed EXCEPT ![w] = l]
    BY <1>2 DEF Claims, Queue!Claim
  <2>2. pc' = [pc EXCEPT ![w] = "process"] /\ step' = [step EXCEPT ![w].at = "start"]
    BY <1>2 DEF Claims, Queue!Claim, Queue!Goto, To
  <2>3. Stored(k)' = Stored(k)
    BY <1>2, NothingStored DEF docVars
  <2>4. CASE l = k
    <3>1. Storing(k)' \subseteq Storing(k) \cup {w} /\ runs'[k] = runs[k] + 1
      BY <1>b, <2>1, <2>2, <2>4 DEF Storing
    <3>2. QED
      BY <2>3, <3>1 DEF Balanced
  <2>5. CASE l # k
    <3>1. Storing(k)' \subseteq Storing(k) /\ runs'[k] = runs[k]
      BY <1>b, <2>1, <2>2, <2>5 DEF Storing
    <3>2. QED
      BY <2>3, <3>1 DEF Balanced
  <2>6. QED
    BY <2>4, <2>5
<1>3. ASSUME NEW w \in Workers, LoopStep(w) \/ Returns(w) \/ RaisesException(w) \/ WorkerFault(w),
             UNCHANGED docVars
      PROVE  Balanced(k)
  <2>1. UNCHANGED runs
    BY <1>3 DEF LoopStep, Returns, RaisesException, WorkerFault, Dies, Queue!Start, Queue!Sweep,
       Queue!Sleep, Queue!MarkCompleted, Queue!ReadAttempts, Queue!WriteVerdict, Queue!Return,
       Queue!Raise, Queue!MarkCompletedRaises, Queue!Crash
  <2>2. /\ pc'[w] # "process"
        /\ \A v \in Workers \ {w} : pc'[v] = pc[v] /\ claimed'[v] = claimed[v] /\ step'[v] = step[v]
    BY <1>b, <1>3 DEF LoopStep, Returns, RaisesException, WorkerFault, Dies, Queue!Start, Queue!Sweep,
       Queue!Sleep, Queue!MarkCompleted, Queue!ReadAttempts, Queue!WriteVerdict, Queue!Return,
       Queue!Raise, Queue!MarkCompletedRaises, Queue!Crash, Queue!Goto, Queue!Release, Stops
  <2>3. Storing(k)' \subseteq Storing(k)
    BY <2>2 DEF Storing
  <2>4. QED
    BY <1>3, <2>1, <2>3, NothingStored DEF Balanced, docVars
<1>4. ASSUME UNCHANGED <<reflections, advices, replies, step, pc, claimed, runs>>
      PROVE  Balanced(k)
  BY <1>4, NothingStored DEF Balanced, Storing
<1>5. ASSUME NEW c \in Calls,
             DraftReads(c) \/ SubmitReads(c) \/ CommentReads(c) \/ CallContinues(c) \/ CallAborts(c)
      PROVE  Balanced(k)
  BY <1>4, <1>5 DEF DraftReads, SubmitReads, CommentReads, CallContinues, CallAborts, DraftUpserts,
     SubmitMarks, SubmitEnqueues, CommentInserts, CommentEnqueues, CommentOpens,
     queueVars, docVars, Queue!Create
<1>6. ASSUME NEW l \in JobKeys, LeaseExpires(l) \/ OperatorRequeues(l) PROVE Balanced(k)
  BY <1>4, <1>6 DEF LeaseExpires, OperatorRequeues, docVars, Queue!LeaseExpires, Queue!Requeue
<1>7. CASE AgreementStep
  BY <1>4, <1>7 DEF AgreementStep, docVars, queueVars
<1>8. CASE UNCHANGED vars
  BY <1>4, <1>8 DEF vars, docVars, queueVars
<1>9. QED
  BY <1>1, <1>2, <1>3, <1>5, <1>6, <1>7, <1>8 DEF Next, WorkerStep, WorkerFault

\* Each run of a job stores at most one result: what is stored and what may
\* still be stored never exceeds how often the job was handed to a worker.
THEOREM RunsPayInvariance == Spec => []RunsPayForResults
<1>1. Init => RunsPayForResults
  <2> SUFFICES ASSUME Init, NEW k \in JobKeys
               PROVE  Stored(k) + Cardinality(Storing(k)) <= runs[k]
    BY DEF RunsPayForResults
  <2>1. Storing(k) = {}
    BY DEF Init, Queue!Init, Storing
  <2>2. Stored(k) = 0
    BY JobKinds DEF Init, Stored
  <2>3. QED
    BY <2>1, <2>2, FS_EmptySet DEF Init, Queue!Init
<1>2. Base /\ Base' /\ RunsPayForResults /\ [Next]_vars => RunsPayForResults'
  <2> SUFFICES ASSUME Base, Base', RunsPayForResults, [Next]_vars, NEW k \in JobKeys
               PROVE  (Stored(k) + Cardinality(Storing(k)) <= runs[k])'
    BY DEF RunsPayForResults
  <2>1. QED
    BY BalancedStep, RunsPay DEF Base, RunsPayForResults
<1>3. QED
  BY BaseInvariance, <1>1, <1>2, PTL DEF Spec

\* Running a job again may store its result again, but crashes and retries
\* never store more than MaxAttempts results per submission or requeue, however
\* many workers run it.
THEOREM ResultsAreBounded == Spec => []ResultsBounded
<1>1. ASSUME Base, RunsPayForResults, NEW k \in JobKeys
      PROVE  Stored(k) <= MaxAttempts * (requeues[k] + 1)
  <2>1. runs[k] <= MaxAttempts * (requeues[k] + 1)
    BY <1>1, QueueAssumption, QueueProofs!RunsAccounted
       DEF Base, QueueProofs!RunsAccounted, QueueProofs!RunsBounded
  <2>2. /\ Stored(k) \in Int /\ runs[k] \in Int /\ requeues[k] \in Int /\ MaxAttempts \in Int
        /\ Cardinality(Storing(k)) \in Nat
    BY <1>1, JobKinds, StoringFinite, QueueAssumption
       DEF Base, Typed, TypeOK, QueueProofs!TypeOK, Stored
  <2>3. MaxAttempts * (requeues[k] + 1) \in Int
    BY <2>2
  <2>4. Stored(k) + Cardinality(Storing(k)) <= runs[k]
    BY <1>1 DEF RunsPayForResults
  <2> DEFINE limit == MaxAttempts * (requeues[k] + 1)
  <2> HIDE DEF limit
  <2>5. QED
    BY <2>1, <2>2, <2>3, <2>4 DEF limit
<1>2. ASSUME NEW u \in Users
      PROVE  Stored(ReflectionJob(u)) = reflections[u] /\ ReflectionJob(u) \in JobKeys
  BY DEF Stored, ReflectionJob, JobKeys
<1>3. Stored(AdviceJob) = advices /\ AdviceJob \in JobKeys
  BY DEF Stored, AdviceJob, JobKeys
<1>4. ASSUME NEW c \in Comments
      PROVE  Stored(ResponseJob(c)) = replies[c] /\ ResponseJob(c) \in JobKeys
  BY DEF Stored, ResponseJob, JobKeys
<1>5. Base /\ RunsPayForResults => ResultsBounded
  BY <1>1, <1>2, <1>3, <1>4 DEF ResultsBounded
<1>6. QED
  BY BaseInvariance, RunsPayInvariance, <1>5, PTL
=============================================================================
