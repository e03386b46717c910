-------------------------- MODULE MediationWorkflow --------------------------
(***************************************************************************)
(* One mediation session end to end: what users submit and comment         *)
(* (MediationService), what the worker does with the jobs this creates     *)
(* (MediationAIService), the job queue between them (MediationJobQueue)    *)
(* and the agreement to resolve or archive (MediationAgreement), all of    *)
(* them writing one session document.                                      *)
(*                                                                         *)
(* Every await of a repository call is a separate step.  Calls of OpenAI   *)
(* and inserts of moderation records only matter by their outcome: they    *)
(* are choices of the step that follows them.                              *)
(***************************************************************************)
EXTENDS Integers, FiniteSets

CONSTANTS
    Users, NoUser, Requests, Offered,              \* see MediationAgreement
    NoKey, Workers, MaxAttempts, MaxCrashes,
    MaxLostAcks, MaxRequeues, RequeueKeys, SlowKeys, \* see MediationJobQueue
    Session,       \* the id of the session
    Comments,      \* ids the user comments of this session may get
    Tabs,          \* requests one user may have in flight at once
    Lengths,       \* SUBSET BOOLEAN: may a draft reach 50 characters?
    MaxAborts,     \* bound: user requests that die half way
    MaxRaises      \* bound: repository and OpenAI calls that raise in a handler

ASSUME LengthsAssumption == Lengths \subseteq BOOLEAN
ASSUME FaultsAssumption  == MaxAborts \in Nat /\ MaxRaises \in Nat
ASSUME FiniteAssumption  == IsFiniteSet(Users) /\ IsFiniteSet(Workers)
\* UserType has two members.
ASSUME TwoUsersAssumption == Cardinality(Users) = 2 /\ NoUser \notin Users
ASSUME AgreementAssumption ==
    Offered \subseteq {"resolve", "unresolve", "archive", "unarchive"}

ModerationJob(u) == <<"perspective_moderation", u>>
ReflectionJob(u) == <<"private_reflection", u>>
AdviceJob        == <<"shared_advice", Session>>
ResponseJob(c)   == <<"comment_response", c>>
JobKeys == {ModerationJob(u) : u \in Users} \cup {ReflectionJob(u) : u \in Users}
             \cup {AdviceJob} \cup {ResponseJob(c) : c \in Comments}

ASSUME QueueAssumption ==
    /\ NoKey \notin JobKeys
    /\ MaxAttempts \in Nat \ {0}
    /\ MaxCrashes \in Nat /\ MaxLostAcks \in Nat /\ MaxRequeues \in Nat
    /\ RequeueKeys \subseteq JobKeys /\ SlowKeys \subseteq JobKeys

VARIABLES
    status, resolvedBy, archivedBy, req,
    wantsResolve, wantsArchive, askedResolve, askedArchive, overlapped,
    jobs, older, pc, claimed, verdict, runs, overran, requeues, crashes, lostAcks,
    safety,       \* MediationSession.safety_status
    latest,       \* latest_advice_id is set
    persp,        \* persp[u]: the perspective document of user u
    reflections,  \* reflections[u]: private reflections stored for u
    advices,      \* shared advices stored
    posted,       \* user comments stored
    replies,      \* replies[c]: AI comments stored in answer to c
    step,         \* step[w]: where worker w is inside process_job
    call,         \* call[c]: where the user request in slot c is
    aborts,       \* bound counters
    raises

Queue     == INSTANCE MediationJobQueue WITH Keys <- JobKeys
Agreement == INSTANCE MediationAgreement

markVars    == <<resolvedBy, archivedBy, req,
                 wantsResolve, wantsArchive, askedResolve, askedArchive, overlapped>>
sessionVars == <<status, safety, latest, markVars>>
queueVars   == <<jobs, older, pc, claimed, verdict, runs, overran,
                 requeues, crashes, lostAcks>>
docVars     == <<persp, reflections, advices, posted, replies>>
vars == <<sessionVars, queueVars, docVars, step, call, aborts, raises>>

PerspectiveStatus == {"NONE", "DRAFT", "SUBMITTED_PENDING_REVIEW", "LOCKED"}
SafetyStatus      == {"NORMAL", "NEEDS_REVIEW", "BLOCKED"}
HandlerSteps == {"idle", "start", "lock", "create_reflection", "count", "set_partial",
                 "set_processing", "create_advice", "relocked", "recount",
                 "insert_reflection", "block", "blocked", "insert_advice", "set_latest",
                 "respond", "insert_reply", "set_needs_review", "set_open", "done"}
CallSteps    == {"idle", "upsert", "mark", "enqueue", "comment", "answer", "open"}

NotRunning == [at |-> "idle", sawAdvice |-> FALSE]
NoCall     == [at |-> "idle", sawAdvice |-> FALSE, about |-> {}]
Calls      == Users \X Tabs
Locked(u)  == persp[u].status = "LOCKED"
LockedUsers == {u \in Users : Locked(u)}

Init == /\ Agreement!Init
        /\ Queue!Init
        /\ safety = "NORMAL" /\ latest = FALSE
        /\ persp = [u \in Users |-> [status |-> "NONE", long |-> FALSE]]
        /\ reflections = [u \in Users |-> 0]
        /\ advices = 0
        /\ posted = {} /\ replies = [c \in Comments |-> 0]
        /\ step = [w \in Workers |-> NotRunning]
        /\ call = [c \in Calls |-> NoCall]
        /\ aborts = 0 /\ raises = 0

\* MediationSessionRepository.set_status and set_safety_status: unconditional.
SetStatus(s) == status' = s /\ UNCHANGED <<safety, latest, markVars>>
SetSafety(s) == safety' = s /\ UNCHANGED <<status, latest, markVars>>

\* _assert_session_writable and _assert_comments_available.
Writable == status \notin {"ARCHIVED", "RESOLVED"} /\ safety # "BLOCKED"
CommentsAvailable ==
    /\ status \in {"AI_ADVICE_AVAILABLE", "DISCUSSION_OPEN", "RESOLVED", "ARCHIVED"}
    /\ safety # "BLOCKED"

-----------------------------------------------------------------------------
(* Requests of users: c = <<u, tab>>. *)

CallAt(c, label) == call[c].at = label
CallTo(c, label) == call' = [call EXCEPT ![c].at = label]
CallEnds(c)      == call' = [call EXCEPT ![c] = NoCall]

\* Mutant: only LOCKED is tested.
DraftReadsIfUnlocked(c) ==
    /\ CallAt(c, "idle") /\ Writable
    /\ persp[c[1]].status # "LOCKED"
    /\ CallTo(c, "upsert")
    /\ UNCHANGED <<sessionVars, queueVars, docVars, step, aborts, raises>>

\* upsert_my_perspective_draft: read the session and the perspective.  The two
\* reads are one step: what they saw is equally stale at the write below.
DraftReads(c) ==
    /\ CallAt(c, "idle") /\ Writable
    /\ persp[c[1]].status \notin {"LOCKED", "SUBMITTED_PENDING_REVIEW"}
    /\ CallTo(c, "upsert")
    /\ UNCHANGED <<sessionVars, queueVars, docVars, step, aborts, raises>>

\* upsert_draft: writes the text and status DRAFT over whatever is stored.
DraftUpserts(c) ==
    /\ CallAt(c, "upsert")
    /\ \E long \in Lengths :
         persp' = [persp EXCEPT ![c[1]] = [status |-> "DRAFT", long |-> long]]
    /\ CallEnds(c)
    /\ UNCHANGED <<sessionVars, queueVars, reflections, advices, posted, replies,
                   step, aborts, raises>>

\* Mutant: no test of the length.
SubmitReadsAnyLength(c) ==
    /\ CallAt(c, "idle") /\ Writable
    /\ persp[c[1]].status = "DRAFT"
    /\ CallTo(c, "mark")
    /\ UNCHANGED <<sessionVars, queueVars, docVars, step, aborts, raises>>

\* submit_my_perspective: the same two reads; a missing, submitted or too
\* short perspective is a conflict.
SubmitReads(c) ==
    /\ CallAt(c, "idle") /\ Writable
    /\ persp[c[1]].status = "DRAFT" /\ persp[c[1]].long
    /\ CallTo(c, "mark")
    /\ UNCHANGED <<sessionVars, queueVars, docVars, step, aborts, raises>>

\* mark_pending_review finds the perspective only if it is still a DRAFT.
SubmitMarks(c) ==
    /\ CallAt(c, "mark")
    /\ IF persp[c[1]].status = "DRAFT"
       THEN /\ persp' = [persp EXCEPT ![c[1]].status = "SUBMITTED_PENDING_REVIEW"]
            /\ CallTo(c, "enqueue")
       ELSE CallEnds(c) /\ UNCHANGED persp
    /\ UNCHANGED <<sessionVars, queueVars, reflections, advices, posted, replies,
                   step, aborts, raises>>

\* Mutant: the submission creates the reflection job, not the moderation job.
SubmitEnqueuesReflection(c) ==
    /\ CallAt(c, "enqueue")
    /\ Queue!Create(ReflectionJob(c[1]))
    /\ CallEnds(c)
    /\ UNCHANGED <<sessionVars, docVars, step, aborts, raises>>

SubmitEnqueues(c) ==
    /\ CallAt(c, "enqueue")
    /\ Queue!Create(ModerationJob(c[1]))
    /\ CallEnds(c)
    /\ UNCHANGED <<sessionVars, docVars, step, aborts, raises>>

\* _create_comment_or_reply keeps the session it read at the start.
CommentReads(c) ==
    /\ CallAt(c, "idle") /\ CommentsAvailable
    /\ posted # Comments
    /\ call' = [call EXCEPT ![c] = [at |-> "comment", about |-> {},
                                    sawAdvice |-> status = "AI_ADVICE_AVAILABLE"]]
    /\ UNCHANGED <<sessionVars, queueVars, docVars, step, aborts, raises>>

CommentInserts(c) ==
    /\ CallAt(c, "comment")
    /\ \E cm \in Comments \ posted :
         /\ posted' = posted \cup {cm}
         /\ call' = [call EXCEPT ![c].at = "answer", ![c].about = {cm}]
    /\ UNCHANGED <<sessionVars, queueVars, persp, reflections, advices, replies,
                   step, aborts, raises>>

\* Mutant: the comment that opens the discussion gets no response job.
CommentEnqueuesUnlessFirst(c) ==
    /\ CallAt(c, "answer")
    /\ IF call[c].sawAdvice
       THEN CallTo(c, "open") /\ UNCHANGED queueVars
       ELSE /\ \E cm \in call[c].about : Queue!Create(ResponseJob(cm))
            /\ CallEnds(c)
    /\ UNCHANGED <<sessionVars, docVars, step, aborts, raises>>

CommentEnqueues(c) ==
    /\ CallAt(c, "answer")
    /\ \E cm \in call[c].about : Queue!Create(ResponseJob(cm))
    /\ IF call[c].sawAdvice THEN CallTo(c, "open") ELSE CallEnds(c)
    /\ UNCHANGED <<sessionVars, docVars, step, aborts, raises>>

CommentOpens(c) ==
    /\ CallAt(c, "open")
    /\ SetStatus("DISCUSSION_OPEN")
    /\ CallEnds(c)
    /\ UNCHANGED <<queueVars, docVars, step, aborts, raises>>

\* The server stops, or a database call raises, in the middle of a request.
CallAborts(c) ==
    /\ ~CallAt(c, "idle")
    /\ aborts < MaxAborts /\ aborts' = aborts + 1
    /\ CallEnds(c)
    /\ UNCHANGED <<sessionVars, queueVars, docVars, step, raises>>

CallContinues(c) ==
    \/ DraftUpserts(c) \/ SubmitMarks(c) \/ SubmitEnqueues(c)
    \/ CommentInserts(c) \/ CommentEnqueues(c) \/ CommentOpens(c)

-----------------------------------------------------------------------------
(* The worker inside process_job. *)

Handling(w, type, label) ==
    pc[w] = "process" /\ claimed[w][1] = type /\ step[w].at = label
Subject(w)   == claimed[w][2]
To(w, label) == step' = [step EXCEPT ![w].at = label]

\* Mutant: a retry that finds the perspective LOCKED has nothing to do.
ReadsLockedAsDone(w) ==
    /\ Handling(w, "perspective_moderation", "start")
    /\ \/ Locked(Subject(w)) /\ To(w, "done")
       \/ persp[Subject(w)].status = "SUBMITTED_PENDING_REVIEW" /\ To(w, "lock")
    /\ UNCHANGED <<sessionVars, queueVars, docVars, call, aborts, raises>>

\* moderate_perspective_submission.  moderate_perspective always answers with
\* the bypassed decision, so a perspective is never flagged.  A draft in place
\* of the submission leaves only RaisesException.
ReadsPerspective(w) ==
    /\ Handling(w, "perspective_moderation", "start")
    /\ \/ Locked(Subject(w)) /\ To(w, "relocked")
       \/ persp[Subject(w)].status = "SUBMITTED_PENDING_REVIEW" /\ To(w, "lock")
    /\ UNCHANGED <<sessionVars, queueVars, docVars, call, aborts, raises>>

\* Mutant: the filter of lock_perspective asks for a DRAFT.
LocksDraft(w) ==
    /\ Handling(w, "perspective_moderation", "lock")
    /\ IF persp[Subject(w)].status = "DRAFT"
       THEN persp' = [persp EXCEPT ![Subject(w)].status = "LOCKED"]
            /\ To(w, "create_reflection")
       ELSE UNCHANGED persp /\ To(w, "done")
    /\ UNCHANGED <<sessionVars, queueVars, reflections, advices, posted, replies,
                   call, aborts, raises>>

LocksPerspective(w) ==
    /\ Handling(w, "perspective_moderation", "lock")
    /\ IF persp[Subject(w)].status = "SUBMITTED_PENDING_REVIEW"
       THEN persp' = [persp EXCEPT ![Subject(w)].status = "LOCKED"]
            /\ To(w, "create_reflection")
       ELSE UNCHANGED persp /\ To(w, "done")
    /\ UNCHANGED <<sessionVars, queueVars, reflections, advices, posted, replies,
                   call, aborts, raises>>

CreatesReflectionJob(w) ==
    /\ \/ Handling(w, "perspective_moderation", "create_reflection") /\ To(w, "count")
       \/ Handling(w, "perspective_moderation", "relocked") /\ To(w, "recount")
    /\ Queue!Create(ReflectionJob(Subject(w)))
    /\ UNCHANGED <<sessionVars, docVars, call, aborts, raises>>

\* Mutant: the retry leaves the advice to the first pass.
CountsLockedOnce(w) ==
    /\ \/ /\ Handling(w, "perspective_moderation", "count")
          /\ To(w, IF Cardinality(LockedUsers) = 1 THEN "set_partial" ELSE "set_processing")
       \/ Handling(w, "perspective_moderation", "recount") /\ To(w, "done")
    /\ UNCHANGED <<sessionVars, queueVars, docVars, call, aborts, raises>>

\* The retry of an interrupted moderation tests for two locked perspectives,
\* the first pass for exactly one.
CountsLocked(w) ==
    LET count == Cardinality(LockedUsers) IN
    /\ \/ /\ Handling(w, "perspective_moderation", "count")
          /\ To(w, IF count = 1 THEN "set_partial" ELSE "set_processing")
       \/ /\ Handling(w, "perspective_moderation", "recount")
          /\ To(w, IF count >= 2 THEN "set_processing" ELSE "done")
    /\ UNCHANGED <<sessionVars, queueVars, docVars, call, aborts, raises>>

SetsPartialOrProcessing(w) ==
    /\ \/ /\ Handling(w, "perspective_moderation", "set_partial")
          /\ SetStatus("PARTIAL_PERSPECTIVE_SUBMITTED") /\ To(w, "done")
       \/ /\ Handling(w, "perspective_moderation", "set_processing")
          /\ SetStatus("AI_MEDIATION_PROCESSING") /\ To(w, "create_advice")
    /\ UNCHANGED <<queueVars, docVars, call, aborts, raises>>

CreatesAdviceJob(w) ==
    /\ Handling(w, "perspective_moderation", "create_advice")
    /\ Queue!Create(AdviceJob)
    /\ To(w, "done")
    /\ UNCHANGED <<sessionVars, docVars, call, aborts, raises>>

\* generate_private_reflection: the output passes moderation or is blocked.
Reflects(w) ==
    /\ Handling(w, "private_reflection", "start")
    /\ To(w, "insert_reflection") \/ To(w, "block")
    /\ UNCHANGED <<sessionVars, queueVars, docVars, call, aborts, raises>>

InsertsReflection(w) ==
    /\ Handling(w, "private_reflection", "insert_reflection")
    /\ reflections' = [reflections EXCEPT ![Subject(w)] = @ + 1]
    /\ To(w, "done")
    /\ UNCHANGED <<sessionVars, queueVars, persp, advices, posted, replies, call, aborts, raises>>

\* _block_if_output_unsafe: sets BLOCKED and then raises.
BlocksOutput(w) ==
    /\ \/ Handling(w, "private_reflection", "block")
       \/ Handling(w, "comment_response", "block")
    /\ SetSafety("BLOCKED")
    /\ To(w, "blocked")
    /\ UNCHANGED <<queueVars, docVars, call, aborts, raises>>

\* generate_shared_advice: anything but two locked perspectives raises.
Advises(w) ==
    /\ Handling(w, "shared_advice", "start")
    /\ Cardinality(LockedUsers) = 2
    /\ To(w, "insert_advice")
    /\ UNCHANGED <<sessionVars, queueVars, docVars, call, aborts, raises>>

InsertsAdvice(w) ==
    /\ Handling(w, "shared_advice", "insert_advice")
    /\ advices' = advices + 1
    /\ To(w, "set_latest")
    /\ UNCHANGED <<sessionVars, queueVars, persp, reflections, posted, replies, call, aborts, raises>>

SetsLatestAdvice(w) ==
    /\ Handling(w, "shared_advice", "set_latest")
    /\ latest' = TRUE /\ status' = "AI_ADVICE_AVAILABLE"
    /\ To(w, "done")
    /\ UNCHANGED <<safety, markVars, queueVars, docVars, call, aborts, raises>>

\* generate_comment_response keeps the session it read at the start.
ReadsSession(w) ==
    /\ Handling(w, "comment_response", "start")
    /\ step' = [step EXCEPT ![w] = [at |-> "respond",
                                    sawAdvice |-> status = "AI_ADVICE_AVAILABLE"]]
    /\ UNCHANGED <<sessionVars, queueVars, docVars, call, aborts, raises>>

Responds(w) ==
    /\ Handling(w, "comment_response", "respond")
    /\ To(w, "insert_reply") \/ To(w, "block")
    /\ UNCHANGED <<sessionVars, queueVars, docVars, call, aborts, raises>>

\* Mutant: an answer that asks to pause is stored a second time.
InsertsReplyTwice(w) ==
    /\ Handling(w, "comment_response", "insert_reply")
    /\ replies' = [replies EXCEPT ![Subject(w)] = @ + 2]
    /\ To(w, "set_needs_review") \/ To(w, IF step[w].sawAdvice THEN "set_open" ELSE "done")
    /\ UNCHANGED <<sessionVars, queueVars, persp, reflections, advices, posted, call, aborts, raises>>

\* create_ai_comment; the answer may ask to pause the discussion.
InsertsReply(w) ==
    /\ Handling(w, "comment_response", "insert_reply")
    /\ replies' = [replies EXCEPT ![Subject(w)] = @ + 1]
    /\ To(w, "set_needs_review") \/ To(w, IF step[w].sawAdvice THEN "set_open" ELSE "done")
    /\ UNCHANGED <<sessionVars, queueVars, persp, reflections, advices, posted, call, aborts, raises>>

SetsReviewOrOpen(w) ==
    /\ \/ Handling(w, "comment_response", "set_needs_review") /\ SetSafety("NEEDS_REVIEW")
       \/ Handling(w, "comment_response", "set_open") /\ SetStatus("DISCUSSION_OPEN")
    /\ To(w, "done")
    /\ UNCHANGED <<queueVars, docVars, call, aborts, raises>>

HandlerStep(w) ==
    \/ ReadsPerspective(w) \/ LocksPerspective(w) \/ CreatesReflectionJob(w)
    \/ CountsLocked(w) \/ SetsPartialOrProcessing(w) \/ CreatesAdviceJob(w)
    \/ Reflects(w) \/ InsertsReflection(w) \/ BlocksOutput(w)
    \/ Advises(w) \/ InsertsAdvice(w) \/ SetsLatestAdvice(w)
    \/ ReadsSession(w) \/ Responds(w) \/ InsertsReply(w) \/ SetsReviewOrOpen(w)

-----------------------------------------------------------------------------
(* The worker loop around process_job: the queue's own steps. *)

Stops(w) == step' = [step EXCEPT ![w] = NotRunning]

\* Mutant: a claimed job is never handed to process_job.
ClaimsOnly(w) == Queue!Claim(w) /\ UNCHANGED <<step, raises>>

Claims(w) == Queue!Claim(w) /\ To(w, "start") /\ UNCHANGED raises

Returns(w) == step[w].at = "done" /\ Queue!Return(w) /\ Stops(w) /\ UNCHANGED raises

\* The handler itself raises: a blocked output, or a perspective that is not
\* submitted, or shared advice without two locked perspectives.
Refuses(w) ==
    \/ step[w].at = "blocked"
    \/ /\ Handling(w, "perspective_moderation", "start")
       /\ persp[Subject(w)].status = "DRAFT"
    \/ Handling(w, "shared_advice", "start") /\ Cardinality(LockedUsers) # 2

\* Besides, any call of a repository or of OpenAI may raise.
RaisesException(w) ==
    /\ step[w].at # "done" /\ Queue!Raise(w) /\ Stops(w)
    /\ IF Refuses(w) THEN UNCHANGED raises
       ELSE raises < MaxRaises /\ raises' = raises + 1

Dies(w) == Queue!Crash(w) /\ Stops(w)

LoopStep(w) ==
    /\ \/ Queue!Start(w) \/ Queue!Sweep(w) \/ Queue!Sleep(w) \/ Queue!MarkCompleted(w)
       \/ Queue!ReadAttempts(w) \/ Queue!WriteVerdict(w)
    /\ UNCHANGED <<step, raises>>

WorkerStep(w) ==
    \/ HandlerStep(w)
    \/ /\ LoopStep(w) \/ Claims(w) \/ Returns(w) \/ RaisesException(w)
       /\ UNCHANGED <<sessionVars, docVars, call, aborts>>

WorkerFault(w) ==
    /\ \/ Queue!MarkCompletedRaises(w) /\ UNCHANGED step
       \/ Dies(w)
    /\ UNCHANGED <<sessionVars, docVars, call, aborts, raises>>

LeaseExpires(k) ==
    Queue!LeaseExpires(k) /\ UNCHANGED <<sessionVars, docVars, step, call, aborts, raises>>

OperatorRequeues(k) ==
    Queue!Requeue(k) /\ UNCHANGED <<sessionVars, docVars, step, call, aborts, raises>>

AgreementStep ==
    Agreement!Next /\ UNCHANGED <<safety, latest, queueVars, docVars, step, call, aborts, raises>>

Next ==
    \/ \E c \in Calls : \/ DraftReads(c) \/ SubmitReads(c) \/ CommentReads(c)
                        \/ CallContinues(c) \/ CallAborts(c)
    \/ \E w \in Workers : WorkerStep(w) \/ WorkerFault(w)
    \/ \E k \in JobKeys : LeaseExpires(k) \/ OperatorRequeues(k)
    \/ AgreementStep

\* The server finishes the requests it has begun and keeps its worker running;
\* the clock goes on.
Fairness == /\ \A c \in Calls : WF_vars(CallContinues(c))
            /\ \A w \in Workers : WF_vars(WorkerStep(w))
            /\ \A k \in JobKeys : WF_vars(LeaseExpires(k))

Spec     == Init /\ [][Next]_vars
FairSpec == Spec /\ Fairness
=============================================================================
