----------------------------- MODULE ImageStore -----------------------------
(***************************************************************************)
(* Images (ImageService): bytes and thumbnails in the bucket, metadata in  *)
(* MongoDB.  An upload stores the bytes, starts a thumbnail task that      *)
(* nobody awaits, stamps uploaded_at and inserts the metadata; every       *)
(* answer that shows an image first makes sure its thumbnails exist.       *)
(* Deletion marks the metadata.  A client walks the pages of a listing     *)
(* with a keyset cursor while all this goes on.                            *)
(***************************************************************************)
EXTENDS ObjectStore

CONSTANTS
    N,            \* images are 1 .. N, in the order of their ObjectIds
    Undecodable,  \* uploads that create_thumbnail cannot open
    UploadedBy,   \* who uploads each image
    Users, NoUser,
    Sizes,        \* thumbnail_size and thumbnail_xl_size, the configured sizes
    Limit,        \* the page size of the walk
    Filters,      \* bound: the listings walked; NoUser: GET /images
    Requests,     \* slots for requests in flight at the same time
    MaxTime       \* bound: the clock

Images == 1 .. N
ASSUME ImageAssumption ==
    /\ N \in Nat /\ Limit \in Nat \ {0} /\ MaxTime \in Nat
    /\ Undecodable \subseteq Images
    /\ UploadedBy \in [Images -> Users] /\ NoUser \notin Users
    /\ Filters \subseteq Users \cup {NoUser}

VARIABLES
    clock,     \* utc_now()
    inserted,  \* images whose metadata was inserted
    stamp,     \* uploaded_at
    deleted,   \* images whose metadata has deleted_at
    req,       \* req[r]: the request in slot r
    tasks,     \* thumbnail tasks started and not finished, as <<image, size>>
    walk,      \* a client's walk over the pages
    deletions  \* history: successful deletions of each image

imageVars == <<clock, inserted, stamp, deleted, req, tasks, walk, deletions>>

Live     == inserted \ deleted
Idle     == [step |-> "idle"]
Busy(r)  == req[r].step \in {"insert", "delete", "show", "page"}
Top      == [stamp |-> MaxTime + 1, id |-> 0]  \* no cursor
NoWalk   == [phase |-> "off", filter |-> NoUser, cursor |-> Top, page |-> {},
             next |-> Top, todo |-> {}, shown |-> {}, twice |-> {}, must |-> {}]

ImageInit ==
    /\ clock = 0 /\ inserted = {} /\ deleted = {} /\ tasks = {}
    /\ stamp = [i \in Images |-> 0]
    /\ req = [r \in Requests |-> Idle]
    /\ walk = NoWalk
    /\ deletions = [i \in Images |-> 0]

Goto(r, s)   == req' = [req EXCEPT ![r] = s]
Free(r)      == ~Busy(r)
Show(i, sizes) == [step |-> "show", img |-> i, todo |-> sizes, sizes |-> sizes]

-----------------------------------------------------------------------------
\* POST /images/

\* Mutant: the bytes are left to the thumbnail task.
UploadWithoutBytes(r, i) ==
    /\ Free(r) /\ DrawName(i)
    /\ tasks' = tasks \cup ({i} \X Sizes)
    /\ Goto(r, [step |-> "insert", img |-> i, at |-> clock])
    /\ UNCHANGED <<clock, inserted, stamp, deleted, walk, deletions, stored>>

\* A new key, upload_image; then, with no await between, the task is started
\* and uploaded_at is stamped.
Upload(r, i) ==
    /\ Free(r) /\ UploadNew(i)
    /\ tasks' = tasks \cup ({i} \X Sizes)
    /\ Goto(r, [step |-> "insert", img |-> i, at |-> clock])
    /\ UNCHANGED <<clock, inserted, stamp, deleted, walk, deletions>>

\* S3 raises although the object was stored.
UploadFails(i) == UploadNew(i) /\ UNCHANGED imageVars

UploadInserts(r) ==
    /\ req[r].step = "insert"
    /\ inserted' = inserted \cup {req[r].img}
    /\ stamp' = [stamp EXCEPT ![req[r].img] = req[r].at]
    /\ Goto(r, Show(req[r].img, Sizes))
    /\ UNCHANGED <<clock, deleted, tasks, walk, deletions, stored>>

-----------------------------------------------------------------------------
\* Answers that show one image: the upload's, GET and PATCH /{id}/meta, and the
\* thumbnail endpoints, which take any stored key.

ShowMetadata(r, i) ==
    /\ Free(r) /\ i \in Live
    /\ Goto(r, Show(i, Sizes))
    /\ UNCHANGED <<clock, inserted, stamp, deleted, tasks, walk, deletions, stored>>

ShowThumbnail(r, i, size) ==
    /\ Free(r) /\ ObjectExists(ImageKey(i))
    /\ Goto(r, Show(i, {size}))
    /\ UNCHANGED <<clock, inserted, stamp, deleted, tasks, walk, deletions, stored>>

\* POST /{image_key}/thumbnail answers at once.
RequestThumbnails(i, sizes) ==
    /\ ObjectExists(ImageKey(i))
    /\ tasks' = tasks \cup ({i} \X sizes)
    /\ UNCHANGED <<clock, inserted, stamp, deleted, req, walk, deletions, stored>>

\* _ensure_thumbnails_for_image_key for one size: look, fetch, make, upload.
\* One step: the bucket only grows, and two uploads of a thumbnail are equal.
CanEnsure(i, size) ==
    \/ ObjectExists(ThumbnailKey(i, size))
    \/ ObjectExists(ImageKey(i)) /\ i \notin Undecodable

\* Mutant: only the presence of the image is looked at.
EnsuresNothing(i, size) == ObjectExists(ImageKey(i)) /\ UNCHANGED stored

Ensures(i, size) == CanEnsure(i, size) /\ UploadObject(ThumbnailKey(i, size))

\* S3 raises on the way; an upload may have been stored.
EnsureRaises(i, size) == UNCHANGED stored \/ Ensures(i, size)

ShowEnsures(r, size) ==
    /\ req[r].step = "show" /\ size \in req[r].todo
    /\ Ensures(req[r].img, size)
    /\ Goto(r, [req[r] EXCEPT !.todo = @ \ {size},
                              !.step = IF req[r].todo = {size} THEN "shown" ELSE "show"])
    /\ UNCHANGED <<clock, inserted, stamp, deleted, tasks, walk, deletions>>

\* create_thumbnail raises: the request fails, what was stored stays.
ShowFails(r, size) ==
    /\ req[r].step = "show" /\ size \in req[r].todo
    /\ ~CanEnsure(req[r].img, size)
    /\ Goto(r, Idle)
    /\ UNCHANGED <<clock, inserted, stamp, deleted, tasks, walk, deletions, stored>>

TaskEnsures(i, size) ==
    /\ <<i, size>> \in tasks /\ Ensures(i, size)
    /\ tasks' = tasks \ {<<i, size>>}
    /\ UNCHANGED <<clock, inserted, stamp, deleted, req, walk, deletions>>

\* An exception in a task that nobody awaits ends it, the later sizes with it.
TaskDies(i, size) ==
    /\ <<i, size>> \in tasks
    /\ EnsureRaises(i, size)
    /\ tasks' = {t \in tasks : t[1] # i}
    /\ UNCHANGED <<clock, inserted, stamp, deleted, req, walk, deletions>>

-----------------------------------------------------------------------------
\* DELETE /{id}: find, then mark where deleted_at is still null.

DeleteFinds(r, i) ==
    /\ Free(r) /\ i \in Live
    /\ Goto(r, [step |-> "delete", img |-> i])
    /\ UNCHANGED <<clock, inserted, stamp, deleted, tasks, walk, deletions, stored>>

\* Mutant: the mark is set by id alone.
MarkableById(i) == i \in inserted

Markable(i) == i \in Live

DeleteMarks(r) ==
    LET i == req[r].img
    IN  /\ req[r].step = "delete"
        /\ IF Markable(i)
           THEN /\ deleted' = deleted \cup {i}
                /\ deletions' = [deletions EXCEPT ![i] = @ + 1]
                /\ walk' = [walk EXCEPT !.must = @ \ {i}]
           ELSE UNCHANGED <<deleted, deletions, walk>>
        /\ Goto(r, Idle)
        /\ UNCHANGED <<clock, inserted, stamp, tasks, stored>>

-----------------------------------------------------------------------------
\* GET /images, /for_me and /by_me: a walk from the first page to the last.

Matches(i, filter) == filter = NoUser \/ UploadedBy[i] = filter
\* Mutant: the cursor compares the stamp alone.
BelowByStamp(i, cursor) == stamp[i] < cursor.stamp

\* uploaded_at < cursor, or equal and _id smaller.
Below(i, cursor) ==
    stamp[i] < cursor.stamp \/ (stamp[i] = cursor.stamp /\ i < cursor.id)

CursorOf(i)    == [stamp |-> stamp[i], id |-> i]
Precedes(i, j) == stamp[j] < stamp[i] \/ (stamp[j] = stamp[i] /\ j < i)

WalkBegins(filter) ==
    /\ walk.phase \in {"off", "ready", "done"}
    /\ walk' = [NoWalk EXCEPT !.phase = "ready", !.filter = filter,
                              !.must = {i \in Live : Matches(i, filter)}]
    /\ UNCHANGED <<clock, inserted, stamp, deleted, req, tasks, deletions, stored>>

\* The first Limit of the images below the cursor, newest first, and the
\* cursor of the last of them if one more was found.
PageReads(r) ==
    LET found == {i \in Live : Matches(i, walk.filter) /\ Below(i, walk.cursor)}
        more  == Cardinality(found) > Limit
    IN  /\ walk.phase = "ready" /\ Free(r)
        /\ Goto(r, [step |-> "page"])
        /\ \E page \in SUBSET found :
              /\ IF more
                 THEN /\ Cardinality(page) = Limit
                      /\ \A i \in page, j \in found \ page : Precedes(i, j)
                      /\ \E last \in page :
                            /\ \A i \in page \ {last} : Precedes(i, last)
                            /\ walk' = [walk EXCEPT !.phase = "urls", !.page = page,
                                           !.next = CursorOf(last), !.todo = page \X Sizes]
                 ELSE /\ page = found
                      /\ walk' = [walk EXCEPT !.phase = "urls", !.page = page,
                                     !.next = Top, !.todo = page \X Sizes]
    /\ UNCHANGED <<clock, inserted, stamp, deleted, tasks, deletions, stored>>

PageEnsures(i, size) ==
    /\ walk.phase = "urls" /\ <<i, size>> \in walk.todo
    /\ Ensures(i, size)
    /\ walk' = [walk EXCEPT !.todo = @ \ {<<i, size>>}]
    /\ UNCHANGED <<clock, inserted, stamp, deleted, req, tasks, deletions>>

PageAnswers(r) ==
    /\ req[r].step = "page" /\ walk.todo = {}
    /\ Goto(r, Idle)
    /\ walk' = [walk EXCEPT !.phase = IF walk.next = Top THEN "done" ELSE "ready",
                            !.cursor = walk.next, !.page = {}, !.next = Top,
                            !.shown = @ \cup walk.page,
                            !.twice = @ \cup (walk.shown \cap walk.page)]
    /\ UNCHANGED <<clock, inserted, stamp, deleted, tasks, deletions, stored>>

\* One image without a thumbnail fails the page; the client may ask again.
PageFails(r) ==
    /\ req[r].step = "page"
    /\ Goto(r, Idle)
    /\ UNCHANGED stored \/ \E t \in walk.todo : EnsureRaises(t[1], t[2])
    /\ walk' = [walk EXCEPT !.phase = "ready", !.page = {}, !.next = Top, !.todo = {}]
    /\ UNCHANGED <<clock, inserted, stamp, deleted, tasks, deletions>>

-----------------------------------------------------------------------------
\* A request fails in S3 or MongoDB.
RequestRaises(r) ==
    /\ Busy(r) /\ req[r].step # "page"
    /\ \/ UNCHANGED stored
       \/ req[r].step = "show" /\ \E size \in req[r].todo : EnsureRaises(req[r].img, size)
    /\ Goto(r, Idle)
    /\ UNCHANGED <<clock, inserted, stamp, deleted, tasks, walk, deletions>>

\* The process stops: requests and tasks are lost, both stores remain.
ImageCrash ==
    /\ req' = [r \in Requests |-> Idle]
    /\ tasks' = {}
    /\ walk' = [walk EXCEPT !.phase = IF @ = "urls" THEN "ready" ELSE @,
                            !.page = {}, !.next = Top, !.todo = {}]
    /\ UNCHANGED <<clock, inserted, stamp, deleted, deletions>>

Tick ==
    /\ clock < MaxTime /\ clock' = clock + 1
    /\ UNCHANGED <<inserted, stamp, deleted, req, tasks, walk, deletions, stored>>

ImageNext ==
    \/ Tick
    \/ \E filter \in Filters : WalkBegins(filter)
    \/ \E i \in Images, size \in Sizes :
          TaskEnsures(i, size) \/ TaskDies(i, size) \/ PageEnsures(i, size)
    \/ \E i \in Images : UploadFails(i)
    \/ \E i \in Images, sizes \in SUBSET Sizes : RequestThumbnails(i, sizes)
    \/ \E r \in Requests :
          \/ \E i \in Images : Upload(r, i) \/ ShowMetadata(r, i) \/ DeleteFinds(r, i)
          \/ \E i \in Images, size \in Sizes : ShowThumbnail(r, i, size)
          \/ \E size \in Sizes : ShowEnsures(r, size) \/ ShowFails(r, size)
          \/ PageReads(r) \/ PageAnswers(r) \/ PageFails(r)
          \/ UploadInserts(r) \/ DeleteMarks(r) \/ RequestRaises(r)
=============================================================================
