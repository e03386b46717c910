# A formal model of the Counting Down backend

The backend (FastAPI, MongoDB, S3, OpenAI, AeroDataBox) serves two users, Joris
and Danfeng.  This directory holds TLA+ modules that model its concurrent core,
TLC configurations that check them on small instances, and TLAPS proofs of the
results that should hold for every instance.  All paths below are relative to
the repository root; the code lies in `app/` and `scripts/`.

## 1. Inventory

| Component | State | Operations | Interacts with | Hard because |
|---|---|---|---|---|
| Mediation job table (`repositories/mediation.py`, `MediationJobRepository`) | one document per idempotency key: status, attempts, started_at | create if absent, sweep exhausted jobs, claim oldest, complete, fail or retry | worker, services, operator script | leases, retries, read-then-write in `mark_failed_or_retry` |
| Mediation worker (`workers/mediation_worker.py`, `main.py`) | the job in hand | the loop sweep, claim, process, complete or fail | job table, AI service | may die anywhere; two run while one deployment replaces another |
| Mediation AI service (`services/mediation_ai.py`) | none of its own | four job handlers, each a chain of awaits | sessions, perspectives, AI output, comments, jobs, OpenAI | must survive being cut off and run again |
| Mediation service (`services/mediation.py`) | none of its own | draft, submit, comment, resolve, archive and their inverses | all mediation collections | check-then-write across awaits |
| Login sessions (`services/auth.py`, `core/auth.py`) | session documents with expiry | login, session check of every request, logout | every endpoint | lookup, insert and delete are apart; three comparisons with the clock |
| Flight lookup (`services/flight_lookup.py`) | in-process cache with two times to live | look up on a date or in the next days | AeroDataBox | overlapping misses, late answers |
| Flights (`services/flight.py`) and airports (`services/airport.py`) | flight documents, airport documents | create, update, delete, listings, each with an expiration sweep first | each other | whole-document writes race with the sweep; airports vanish under flights |
| Images (`services/image.py`) | S3 objects and metadata documents | upload, background thumbnails, soft delete, keyset pages | S3, MongoDB | two stores, detached tasks, paging under change |
| Advent calendar (`services/advent.py`) | S3 objects and entries | create, delete, list | the bucket of the images | three writes to two stores |
| Todos, messages | documents | create, read, update, delete | none | single atomic calls |

What makes each component correct:

* *Job table and worker*: a job runs a bounded number of times, is not run by
  two workers at once unless one outlived its lease, ends in COMPLETED or FAILED,
  and is neither stuck nor given up early.
* *Workflow of a session*: AI output is about what the user really submitted; a
  job marked COMPLETED left its results; submissions are reviewed, both
  perspectives lead to advice, comments are answered.
* *Agreement*: RESOLVED and ARCHIVED need consent; one user's mark is not changed
  by the other's request.
* *Login sessions*: an acknowledged logout is final; nobody is admitted with an
  expired session or thrown out by another request; a user has one session.
* *Flight lookup*: an answer is about what was asked and at most its time to live
  and one call old.
* *Flights*: a landed flight is not listed as active; no write undoes another;
  a request fails only for a null stored into a flight it reads, a flight or an
  airport deleted under it, or a code it named itself.
* *Images*: metadata is never listed without its object; a thumbnail link leads to
  a thumbnail; a walk through the pages shows every image that stays exactly once.

Every hazard of the code, with its line and the properties that watch it, is in
`PROJECT.json`.

## 2. Modules

| Module | What it is |
|---|---|
| `JobLifecycle` | abstract: what the job table promises for each key |
| `MediationJobQueue` | job table, worker loop, operator script |
| `MediationJobQueueProperties` | its properties and the refinement mapping to `JobLifecycle` |
| `MediationJobQueueProofs` | TLAPS proofs about it |
| `MutualConsent` | abstract: what resolving and archiving promise |
| `MediationAgreement` | the four handlers, each a read and a later write |
| `MediationAgreementProperties` | its properties and the mapping to `MutualConsent` |
| `MediationAgreementProofs` | TLAPS proofs about it |
| `MediationWorkflow` | one session end to end; instantiates queue and agreement |
| `SessionLifecycle` | abstract: what a session promises its users |
| `MediationWorkflowProperties` | its properties and the mapping to `SessionLifecycle` |
| `MediationWorkflowProofs` | TLAPS proofs: types, composition with queue and agreement, number of results |
| `MediationWorkflowOutputProofs` | TLAPS proofs: what handlers leave behind and what it is about |
| `LoginSessions` | login, session check and logout over the sessions collection |
| `LoginSessionsProperties`, `LoginSessionsProofs` | its properties and TLAPS proofs about it |
| `FlightLookupCache` | the lookup with its cache, the provider and its timeout |
| `FlightLookupCacheProperties`, `FlightLookupCacheProofs` | its properties and TLAPS proofs about it |
| `Flights` | flights, the expiration sweep and airports |
| `FlightsProperties`, `FlightsProofs` | their properties and TLAPS proofs about them |
| `ObjectStore` | the S3 bucket |
| `ImageStore` | images: uploads, thumbnails, deletion, page walks; extends `ObjectStore` |
| `AdventCalendar` | advent entries; extends `ObjectStore` |
| `Gallery` | images and advent entries over one bucket in one process |
| `GalleryProperties`, `GalleryProofs` | their properties and TLAPS proofs about them |
| `MC*` | instances for TLC |

Definitions marked *Mutant* in the modules are plausible bugs.  No specification
uses them; `PROJECT.json` says which definition each one would replace and which
property notices.

### MediationJobQueue

`jobs[k]` is the document of key `k`.  Each repository call is one atomic step,
except `mark_failed_or_retry`, which is `ReadAttempts` and `WriteVerdict`.  The
creation order that the claim sorts by is the relation `older`.  Time enters the
code only as "is `started_at` older than the timeout?"; `lease` is that answer and
`LeaseExpires` changes it.  Keys in `SlowKeys` may still run when their lease
ends, which is how two workers come to share a job.  `pc[w]` is the statement the
worker executes next.  `Crash` is a shutdown (`CancelledError` is not an
`Exception`, so nothing is marked), the death of the process, or a database error
outside the `try`.  `MarkCompletedRaises` is the call inside the `try` that
raises, its write done or not.  `runs` and `overran` are history variables.

### MediationAgreement

`req[r]` is what a request in flight will write: the list and `finalize`, both
computed from the session it read.  `ResolveSession`, `UnresolveSession`,
`ArchiveSession` and `UnarchiveSession` are the reads with their early returns;
`MarkResolved` and so on are the unconditional `$set`s.  `wants*` and `asked*`
record what users called, `overlapped` whether two requests were ever in flight
together.  `resolve_session` on a RESOLVED session returns it unchanged and is
therefore no step.

### MediationWorkflow

One session.  User requests are in slots `<<user, tab>>`; the worker's place
inside `process_job` is `step[w]`, and its loop is the queue's own actions.  Every
await that changes stored state is a step of its own.  Reads that are only used
by the next write are merged with the read before them: in drafts and submissions
the session and the perspective are read in one step, since both are equally old
when the write comes.  OpenAI calls and the inserts of moderation records matter
only by what follows: an output that passes or is blocked, an answer that pauses
the discussion or not, an exception.  `persp[u].long` says whether the text has
50 characters; that and the status is all that later steps read of a perspective.

`moderate_perspective` and `moderate_comment` always return the bypassed
decision, so the branches that flag a perspective or block a comment cannot be
taken and are left out.  `generate_shared_advice` moderates its output without
acting on the result; so does the model.

`SessionLifecycle` is the session without jobs, workers, requests and faults: each
text is written, submitted and locked once, output follows.  Its `Close` stands for
every write of a status that ends the discussion, the agreement's as well as that
of a moderation that is run again.  `Post` asks for no advice, as RESOLVED and
ARCHIVED sessions accept comments even if they never had any.

### LoginSessions

`docs[id]` is the session document of an id; each MongoDB call is one step, and
`call[c].now` is the time at which the pending one was sent, since the comparison
is made with that time and not with the time of the answer.  `delete_many` takes
`expires_at < now`, the lookups take `expires_at > now`, so a document at its very
instant of expiry is neither purged nor found.  `Ids` are what
`generate_session_id` draws; two draws are never equal.  `Check` is
`require_session`, which every protected endpoint runs first; `admitted` stays
until the slot is used again.  `loggedOut` and `overlapped` are history.
`invalidate_all_sessions` and `count_active_sessions` have no caller and are left
out.

### FlightLookupCache

`cache[k]` is the entry of a normalized number and a window of days, `call[c]` one
lookup.  Up to the await of the provider a lookup is one step (the event loop runs
nothing else); from the answer to the return it is another.  `ProviderAnswers` is
the moment at which the provider reads its data, so `seen` is how old an answer
really is, while `at` is when it was stored.  `clock` (monotonic, for lifetimes)
and `today` (calendar, for the default window) move independently.  `TimeoutLeaves`
is the HTTP client's timeout.  httpx applies it to each phase of a call (connect,
write, read); the model takes `MaxLatency` as the limit of the whole.

### Flights

`docs[f]` is the flight document, `valid` whether its required fields hold no
null: `FlightUpdate` accepts an explicit null, `exclude_unset` keeps it, and
`model_copy` does not validate.  A listing is `ListBegins`, `SweepReads`, one
`SweepWrites` and `SweepReadsBack` per landed flight, a read and `Maps`, which
looks up the airports.  `SweepWrites` and `UpdateWrites` `$set` the whole document
that was read.  The repository reads back what it wrote, and other requests come
between: `ReadsBack` answers a create or an update with what is stored by then.
Nothing in the program catches an exception (`error_handlers.py` registers no
handler), so each ends the request as `Failure`, which keeps what it was about:
flights that validation refused (or a created one that was gone), airport ids that
were not found, codes that were not found.  A departure airport set to an explicit
null is looked up like a code of no airport, `"ZZZZ"` in the run.  The two lookups
of a create run at the same time and are one step.  `Maps` is one step too: the id
of a deleted airport never comes back, so its lookups succeed together or fail.
`delete_flight_by_code` has no caller and filters on a field no flight has; it is
left out.
`arrival_airport_icao` is accepted by an update and translated to nothing, which
is the change `"arrival"`.  `intended` is what the acknowledged writes amount to;
`overlapped` names the flights that an update and another write had both read
before either wrote.  Airports have a unique index on `icao` only, and deleting
one looks at no flight.

### ImageStore, AdventCalendar, Gallery

`stored` is the set of keys in the bucket; nothing removes one.  `req[r]` is a
request, `tasks` the thumbnails that background tasks have still to make, `walk` one
client that reads pages with the cursor of the page before.  `upload_image`,
`create_task` and the stamp of `uploaded_at` are one step, as there is no await
between the last two and the key is unknown before; the insert is the next.
`Ensures` merges the four S3 calls that make one thumbnail: the bucket only grows
and two uploads of the same thumbnail are equal, so no other request can tell.
`EnsureRaises` is an S3 error on the way, whose upload may have been stored.
`Undecodable` images make `create_thumbnail` raise.  Image ids grow in the order of
`N`, but uploads may be inserted in another order than they were stamped.
Titles, tags and descriptions decide nothing and are left out, so `PATCH` is the
read that follows it.  `Gallery` is the conjunction: one bucket, and a crash stops
images and advent entries together.

## 3. Runs and what they show

| Run | Instance | Shows |
|---|---|---|
| `queue_one` | 2 jobs, 1 worker, 2 attempts, 2 crashes, 1 lost reply, 1 requeue each | implements `JobLifecycle`; every job settles |
| `queue_two` | the same with 2 workers, 1 crash, symmetric | bounded runs, exclusion, no stuck or early FAILED job unless a worker overran its lease |
| `agreement` | 2 users, 2 requests in flight, all four operations | consent is never invented; without overlap `MutualConsent` is implemented |
| `agreement_lost_mark` | the same | *violation*: two overlapping resolves lose a mark |
| `workflow_session` | 2 users, 1 worker, 1 resolve request, one each of: raising call, lost reply, dying request, requeue of the advice job | results complete, locked perspectives final, consent, only a dying request strands a submission |
| `workflow_live` | 2 users, 1 worker, 1 comment, 1 worker death anywhere | submissions reviewed, advice and reflections delivered, comment answered, bounded results; implements `SessionLifecycle` |
| `workflow_draft_race` | 2 requests of one user at once | *violation*: a locked perspective becomes a draft again |
| `workflow_reprocessing` | 1 death and 1 raising call | *violation*: advice is there and comments stay closed |
| `login_sessions` | 2 users, 3 ids, 2 requests in flight, sessions of 2 ticks in 4 | logout is final, admission is live, nobody is thrown out early, a second session needs overlapping logins |
| `lookup_cache` | 1 number and a spelling that is refused, 2 overlapping lookups, lifetimes 2 and 1, timeout 1, 4 ticks, 2 days | answers are about what was asked, never older than a lifetime and a call; the cache never falls further behind |
| `flights` | 1 flight, 1 airport and its second id, 2 requests, 2 updates, 2 ticks | no landed flight is listed as active; lost writes and failed requests have only the causes named |
| `gallery` | 3 images (1 that cannot be opened), 2 advent entries (1 bad), 2 requests, pages of 1 image | the walk is exact, what is listed has its objects, links work, one deletion succeeds |

Bounds.  `MaxAttempts` is 2 where the code has 3: 2 is the least value with a
first, a repeated and a last attempt.  Two jobs are enough for the order of
claims, since claims compare jobs pairwise; two workers are the overlap of two
deployments (`Procfile` starts one process).  The fault bounds `MaxCrashes`,
`MaxLostAcks`, `MaxRaises`, `MaxAborts` and `MaxRequeues` allow each fault to
happen before, between and after every other step; the proofs of section 5 hold
for all bounds.  `Comments` bounds the comments, `Lengths` the texts a draft may
have, `Tabs` the requests a user has in flight, `Requests` those of resolve and
archive, `Offered` which of the four are called, `SlowKeys` and `RequeueKeys` the
jobs that overrun and are requeued.

`workflow_session` and `workflow_live` let a user have one request in flight:
`LockedIsFinal` and `StrandedOnlyByAbort` hold against the worker, the other user
and faults, and `workflow_draft_race` shows that they do not hold against a
second request of the same user.

In `login_sessions` three ids allow two sessions of one user beside one of the
other; 4 ticks let a session of 2 expire and be replaced.  In `lookup_cache` two
lookups are the late and the newer answer; 4 ticks hold a success lifetime, a call
before it and a call after it.  In `flights` one flight is enough, as
requests only meet on the same flight, and an airport with a second id is one that
is deleted and added again; that a null blamed for a failure was stored into the
very flight that was read is shown for more flights by the proof.  Two requests are a sweep and an update, or two updates;
`MaxUpdates` bounds how often.  In `gallery` a page of one image is the smallest
with a cursor, and three images put one before, at and behind it; `MaxTime` 1
gives equal and different stamps.  The run walks the listing of everybody's
images only; that a walk over the images of one user is exact too is
`GalleryProofs`' result, for every `Filters`.  Its `VIEW` leaves out background tasks whose
thumbnail exists: such a task finds it and ends, and no action or property reads
the others.  Symmetry is over slots, users and ids that no definition
distinguishes; no temporal property with fairness is checked under it.

Deadlock is checked in the queue runs.  A mediation session may end: once it is
ARCHIVED and its jobs are done nothing more happens, and a model without further
comments or requests stops, so the mediation configurations switch that check off;
the other services simply wait for requests, and their clocks stop at `MaxTime`.

Three violations are disagreements between the code and what its tests or
messages say; `PROJECT.json` quotes the lines.

## 4. Fairness

`FairSpec` of the queue assumes weak fairness of each worker's normal step and of
`LeaseExpires`: the event loop schedules the task, every database and OpenAI call
ends (client timeouts), the process manager restarts a dead process (`Start` is a
normal step), and the clock goes on.  Crashes, lost replies, requeues and
submissions are not fair.  The workflow assumes the same and that a request once
begun goes on unless it dies.  Users and operators owe nothing.
The other modules state safety only: their requests are retried by nobody, so the
code promises no more than that each ends, and nothing waits for a background
task.

## 5. Proofs

*Queue* (`MediationJobQueueProofs`, any sets of keys and workers, any bounds, from
`NoKeyAssumption`, `MaxAttemptsAssumption`, `BoundsAssumption`).  None of the
safety properties is inductive alone.  `Inv` adds three facts: a status decided
from an earlier read of attempts is still right when it is written
(`VerdictIsCurrent`, the heart of `PendingIsClaimable` and `FailedIsExhausted`),
no attempt is counted before the document exists, and `runs` is at most
`MaxAttempts * requeues + attempts` (`RunsCounted`, from which `RunsBounded`
follows).  `VerdictIsCurrent` in turn needs exclusion, and exclusion needs to know
that a job in hand is PROCESSING with a running lease unless it was overrun
(`WorkerOwnsItsJob`).  All of this is stated for `Undisturbed` jobs: those no live worker
outlived the lease of, and, with a single worker, all jobs.  `Refinement` shows that with one worker
the queue implements `JobLifecycle`: a job in hand is PROCESSING in the abstract,
whatever `mark_completed` may already have written.

*Agreement* (`MediationAgreementProofs`, any users, any number of requests).  `Inv`
has two parts.  `Asked`: every list of marks, stored or about to be written, names
only users who asked, which gives consent to RESOLVED and to ARCHIVED under any
overlap.  `Current`: without overlap, the one request in flight would decide the same if it read again, which
gives `MarksAreWishes` and the step-by-step implementation of `MutualConsent`.

*Login sessions* (`LoginSessionsProofs`, any users, ids, requests and duration).
`IdsKnown`: the id a login is about to insert is stored nowhere, was never logged
out and is in no other request's hands, so no insert brings an old session back.
`CallsRemember`: what a request in flight remembers (its time, whether its session
was revoked) was true when it was written down; admission follows.  `Alone`: the
only login of a user, once about to insert, still sees no unexpired session of
that user, since expired sessions stay expired.

*Lookup cache* (`FlightLookupCacheProofs`, any numbers, windows, lifetimes and
timeout).  `CallsInTime` says that a call in flight, and what the provider has said
to it, is at most `MaxLatency` old; `EntriesInTime` that an entry is about its key
and was at most that old when it was stored.  Freshness adds the two.

*Flights* (`FlightsProofs`, any flights, airports and number of requests).  Four
facts strengthen the properties.  `AllSound`: a document stored or in hand is
readable unless a null was stored into that flight, and each airport it refers to
is there or was deleted; from it follows what a failed request met
(`FailuresExplained`), since a flight once deleted and an airport once deleted do
not come back.  `AllSwept`: a sweep has expired, or still holds, each landed flight that
nobody wrote since, which gives `ListedHasNotLanded` to every listing by its own
sweep alone.  `Current`: unless the writes overlapped, whoever is about to write a
flight has read what is stored, or what a deletion or a like sweep made of it.
`InHand`: sweeps hold only flights that were active and have landed.  With these,
two sweeps that write one flight write the same document, which is why only an
update can lose a write.

*Images and advent entries* (`GalleryProofs`, any images, sizes, entries, requests
and page size).  Objects are never removed, so `ListedHasPictures` needs only
`Named` and `EntriesNamed` (a pending insert has stored its bytes, and nobody else
holds its id), and links need `RequestLinks` and `WalkLinks` (the thumbnails gone
through are stored).  The walk is exact by `Walked` and `PageFound`: nothing that
was shown lies below the cursor, and what must be shown was shown, is on the page
in hand, or lies below the next cursor.  The two compare stamps, which an insert
would change were its image already on a page; `Named` excludes that.

*Workflow* (`MediationWorkflowProofs` and `MediationWorkflowOutputProofs`, any
number of workers, requests, comments and faults; two users, as `UserType` has two
members, and finitely many workers).

The queue and the agreement are instances inside the workflow, and so are their
proof modules.  `QueueStep` shows that every step of a session is a step of the
queue or leaves its variables alone, so the inductive invariant of the queue is
inductive here too and `ImplementsQueue` follows: everything proved of the queue
holds of the jobs of a session.  The agreement cannot be used as a whole, since
the worker and the comments write the same `status`; but no such write is RESOLVED
or ARCHIVED (`OnlyAgreementFinalizes`), which is all that `Asked` needs.  `Base` is
the conjunction of both invariants and the types.

`ResultsAreBounded` needs `RunsPayForResults`: the results stored by a job and the
workers that may still store one are together at most the runs of the job, which
the queue bounds.  It holds for any number of workers, overrun leases included.

`AdviceComesFirst` needs no hypothesis.  Who has seen AI_ADVICE_AVAILABLE, or is
about to write a status that opens the comments, does so after advice was stored
(`SawAdvice`), however old the session it read is.  Neither does
`CompletedHasResult`: a handler that has returned, or sets the status after its
insert, has its result stored, and only such a handler leads to COMPLETED.

The other results assume `OneTab`, one request at a time of each user.  It is
necessary, as `workflow_draft_race` shows.  `Grounded` is the inductive invariant:
what a request read of the perspective of its user is still so
(`CallsAreCurrent`, which is where `OneTab` enters); what was sent has 50
characters; jobs exist for what was sent or locked only (`JobsAreGrounded`); after
the lock a moderation knows its perspective locked, and after the count both
(`ModeratorsAreGrounded`, which uses that there are two users); a submission has
its job, or a request that will create it, or a request died (`NotStranded`).
From it follow `LockedIsFinal`, `OutputIsGrounded` (no AI job or output but for
locked perspectives of 50 characters) and `StrandedOnlyByAbort`, for any number of
workers and with overrun leases.

`PromisesKept` puts these together: the documents of a session, seen without jobs,
workers, requests and faults, behave as `SessionLifecycle`.  Each step that stores
something is one step there, every other step opens or closes the discussion or
does nothing.  Reflections and advice map to steps that ask for locked texts, by
`Grounded` and because a handler has an existing job in hand; the discussion opens
after the advice, by `SawAdvice`; answers need a stored comment, by
`CommentsComeFirst`.

`CompletedMeansDone` also speaks of the jobs a moderation creates.
`ModeratorsProceed` says that a worker about to lock finds its perspective
submitted, that whoever is past the creation of the reflection job left it there,
and that not all moderations pass without the advice job: the last of them counts
two locked perspectives.  The first of these is false for two workers with the
same job, since the one that comes second returns at once while the first has
still to create the reflection job (with two `Workers` and the moderation jobs in
`SlowKeys`, TLC finds a COMPLETED job without it after some twenty steps).  So
`CompletedIsDone` holds until a lease is overrun (`NoOverrun`), and
`CompletedIsDoneWithOneWorker` always.

Only model-checked: liveness (`EveryJobSettles`, `SubmissionIsReviewed`,
`LockedGetsOutput`, `CommentIsAnswered`), since the prover reasons about neither
fairness nor ENABLED.  Every invariant and action property of a passing run is a
theorem, except that those above carry the hypotheses named.

## 6. Not modelled

* Texts, AI output, moderation categories and HTTP plumbing: pure data or pure I/O.
  The classification of a moderation result (`services/mediation_safety.py`,
  `integrations/openai_client.py`) is a pure function of it; its two outcomes are
  choices in the workflow.
* Read-only endpoints of the mediation: they change nothing.
* Several mediation sessions at once: they share only the job table, and jobs of
  different sessions interact only through the order of claims, which the queue
  model covers.
* Messages and todos: each operation is one atomic call on one document.
* Airports are modelled as far as flights depend on them: adding, deleting and
  looking up.  Searching and seeding are not.
* In `Gallery` a MongoDB insert whose reply is lost is not an action of its own: it
  leaves what an insert followed by a stopped request leaves.
* Liveness outside the mediation: nothing retries those requests or waits for them.
* Some hazards have no property.  Each is noted in `PROJECT.json`: the code, its
  tests and its documents promise nothing that the behaviour would contradict, and
  the models contain it.

## 7. Plan

Done: the job queue, the agreement and the workflow; the lookup cache; images,
paging and the advent calendar; login sessions; flights and airports; proofs of
the safety properties of all of these.

Left:

1. An abstract page listing and an abstract store of readable flights that
   `Gallery` and `Flights` refine, beside the properties they have now.
2. Two mediation sessions that share one job table.
