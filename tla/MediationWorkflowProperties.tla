--------------------- MODULE MediationWorkflowProperties ---------------------
EXTENDS MediationWorkflow

Perspective == [status : PerspectiveStatus, long : BOOLEAN]

\* The documents and handler states are well formed, and exactly the workers
\* inside process_job are at a step of a handler.
TypeOK ==
    /\ status \in Agreement!SessionStatus /\ safety \in SafetyStatus /\ latest \in BOOLEAN
    /\ persp \in [Users -> Perspective]
    /\ reflections \in [Users -> Nat] /\ advices \in Nat
    /\ posted \subseteq Comments /\ replies \in [Comments -> Nat]
    /\ step \in [Workers -> [at : HandlerSteps, sawAdvice : BOOLEAN]]
    /\ call \in [Calls -> [at : CallSteps, sawAdvice : BOOLEAN, about : SUBSET Comments]]
    /\ aborts \in 0..MaxAborts /\ raises \in 0..MaxRaises
    /\ \A w \in Workers : (pc[w] = "process") <=> (step[w].at # "idle")

JobExists(k) == jobs[k].status # "NONE"
JobIs(k, s)  == jobs[k].status = s
BothLocked   == \A u \in Users : Locked(u)

\* A perspective that was locked keeps its status and its text for ever: the
\* reflection and the advice speak about what the user really submitted.
LockedIsFinal ==
    [][\A u \in Users : Locked(u) => persp'[u] = persp[u]]_vars

\* A job marked COMPLETED left all its results behind, however often it was
\* interrupted and run again.
CompletedMeansDone ==
    /\ \A u \in Users :
         JobIs(ModerationJob(u), "COMPLETED") =>
             /\ Locked(u)
             /\ JobExists(ReflectionJob(u))
    /\ (\A u \in Users : JobIs(ModerationJob(u), "COMPLETED")) => JobExists(AdviceJob)
    /\ \A u \in Users : JobIs(ReflectionJob(u), "COMPLETED") => reflections[u] > 0
    /\ JobIs(AdviceJob, "COMPLETED") => advices > 0 /\ latest
    /\ \A c \in Comments : JobIs(ResponseJob(c), "COMPLETED") => replies[c] > 0

\* Running a job again may store its result again, but crashes and retries
\* never store more than MaxAttempts results per submission or requeue.
ResultsBounded ==
    LET allowed(k) == MaxAttempts * (requeues[k] + 1) IN
    /\ \A u \in Users : reflections[u] <= allowed(ReflectionJob(u))
    /\ advices <= allowed(AdviceJob)
    /\ \A c \in Comments : replies[c] <= allowed(ResponseJob(c))

\* A submission is eventually reviewed, or its moderation job has FAILED.
SubmissionIsReviewed ==
    \A u \in Users :
        persp[u].status = "SUBMITTED_PENDING_REVIEW"
            ~> (Locked(u) \/ JobIs(ModerationJob(u), "FAILED"))

\* Two locked perspectives eventually get advice, and each its reflection,
\* unless a job on the way FAILED; a worker that dies between locking and
\* creating the next job does not lose it.
LockedGetsOutput ==
    /\ BothLocked ~> (advices > 0 \/ \E k \in JobKeys : JobIs(k, "FAILED"))
    /\ \A u \in Users :
         Locked(u) ~> (reflections[u] > 0 \/ JobIs(ReflectionJob(u), "FAILED")
                                          \/ JobIs(ModerationJob(u), "FAILED"))

\* Every stored comment is eventually answered, or its job has FAILED.
CommentIsAnswered ==
    \A c \in Comments :
        c \in posted ~> (replies[c] > 0 \/ JobIs(ResponseJob(c), "FAILED"))

Quiet == /\ \A k \in JobKeys : jobs[k].status \in {"NONE", "COMPLETED", "FAILED"}
         /\ \A w \in Workers : pc[w] \in {"off", "sweep", "claim"}
         /\ \A c \in Calls : call[c].at = "idle"

\* "Comments are available only after advice is ready": once the advice is
\* ready and nothing is running, the session is in a state that has comments.
AdviceOpensComments ==
    JobIs(AdviceJob, "COMPLETED") /\ Quiet =>
        status \in {"AI_ADVICE_AVAILABLE", "DISCUSSION_OPEN", "RESOLVED", "ARCHIVED"}

\* A submitted perspective that nothing will review any more was stranded by a
\* request that died between marking it and creating its job, or its job FAILED:
\* worker errors, retries and the other user's requests never strand one.
StrandedOnlyByAbort ==
    \A u \in Users :
        persp[u].status = "SUBMITTED_PENDING_REVIEW" /\ Quiet
            => JobIs(ModerationJob(u), "FAILED") \/ aborts > 0

\* Also while the worker and comments write the same status field, RESOLVED
\* appears only after both users asked for it.
ResolvedWasAskedByAll == status = "RESOLVED" => askedResolve = Users

\* With one request at a time of each user, the session keeps its promises: its
\* documents, seen without jobs and requests, behave as SessionLifecycle says.
Promise == INSTANCE SessionLifecycle WITH
    phase <- [u \in Users |-> IF Locked(u) THEN "locked"
                              ELSE IF persp[u].status = "SUBMITTED_PENDING_REVIEW"
                                   THEN "submitted" ELSE "writing"],
    long <- [u \in Users |-> persp[u].long],
    reflected <- {u \in Users : reflections[u] > 0},
    advised <- advices > 0,
    open <- status \in {"AI_ADVICE_AVAILABLE", "DISCUSSION_OPEN"},
    answered <- {c \in Comments : replies[c] > 0}
PromiseSpec == Promise!Spec
=============================================================================
