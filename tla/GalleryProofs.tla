--------------------------- MODULE GalleryProofs ---------------------------
(***************************************************************************)
(* Proofs about images and advent entries, for any number of images,       *)
(* requests, sizes, entries and any page size.  Objects are never removed, *)
(* so what is listed has its objects once it is known that a pending       *)
(* insert has stored them.  The walk is exact because an upload about to   *)
(* be inserted is not an image of the walk yet (Named), so that the stamps *)
(* the cursors are compared with never change, and because each page and   *)
(* its next cursor leave nothing between them (PageFound, Walked).         *)
(***************************************************************************)
EXTENDS GalleryProperties, TLAPS

USE ImageAssumption, EntryAssumption

\* Records that requests, advent uploads and the walk can be.
Inserting   == [step : {"insert"}, img : Images, at : 0 .. MaxTime]
Deleting    == [step : {"delete"}, img : Images]
Showing     == [step : {"show", "shown"}, img : Images, todo : SUBSET Sizes, sizes : SUBSET Sizes]
Paging      == [step : {"page"}]
Cursors     == [stamp : 0 .. MaxTime + 1, id : 0 .. N]
Walks       == [phase : {"off", "ready", "urls", "done"}, filter : Users \cup {NoUser},
                cursor : Cursors, page : SUBSET Images, next : Cursors,
                todo : SUBSET (Images \X Sizes), shown : SUBSET Images,
                twice : SUBSET Images, must : SUBSET Images]
Requested   == {Idle} \cup Inserting \cup Deleting \cup Showing \cup Paging
Storing     == [step : {"thumbnail", "insert"}, entry : Entries]

\* What TypeOK leaves out.
Formed ==
    /\ req \in [Requests -> Requested]
    /\ walk \in Walks
    /\ upload \in [Uploads -> {NoUpload} \cup Storing]
    /\ deletions \in [Images -> Nat]

\* A pending insert has stored its bytes, and its image is nobody else's.
Named ==
    /\ \A r \in Requests : req[r].step = "insert" =>
          ObjectExists(ImageKey(req[r].img)) /\ req[r].img \notin inserted
    /\ \A r, q \in Requests : req[r].step = "insert" /\ req[q].step = "insert"
          /\ req[r].img = req[q].img => r = q

\* The thumbnails a request, or the walk, has been through are stored.
RequestLinks ==
    \A r \in Requests :
        /\ req[r].step = "show" => \A size \in req[r].sizes \ req[r].todo :
              ObjectExists(ThumbnailKey(req[r].img, size))
        /\ req[r].step = "shown" => \A size \in req[r].sizes :
              ObjectExists(ThumbnailKey(req[r].img, size))

WalkLinks ==
    /\ \A i \in walk.page, size \in Sizes :
          <<i, size>> \in walk.todo \/ ObjectExists(ThumbnailKey(i, size))
    /\ \A i \in walk.shown, size \in Sizes : ObjectExists(ThumbnailKey(i, size))

\* Advent entries: the same as Named, step by step.
EntriesNamed ==
    /\ \A e \in advents \cup gone : ObjectExists(ImageKey(e))
    /\ \A u \in Uploads : upload[u].step # "idle" =>
          /\ ObjectExists(ImageKey(upload[u].entry))
          /\ upload[u].entry \notin advents \cup gone
          /\ upload[u].step = "insert" => ObjectExists(PlainThumbnailKey(upload[u].entry))
    /\ \A u, v \in Uploads : upload[u].step # "idle" /\ upload[v].step # "idle"
          /\ upload[u].entry = upload[v].entry => u = v

\* The walk has at most one page request in flight.
PageInHand ==
    /\ \A r \in Requests : req[r].step = "page" => walk.phase = "urls"
    /\ \A r, q \in Requests : req[r].step = "page" /\ req[q].step = "page" => r = q

\* What was shown is not below the cursor; what must be shown has been, or is
\* on the page in hand, or is still below the cursor that follows.
Walked ==
    /\ walk.must \subseteq Live
    /\ \A i \in walk.must : Matches(i, walk.filter)
    /\ walk.phase # "done" => \A i \in walk.shown : ~Below(i, walk.cursor)
    /\ walk.phase \in {"off", "ready"} =>
          \A i \in walk.must : i \in walk.shown \/ Below(i, walk.cursor)
    /\ walk.phase = "urls" =>
          /\ \A i \in walk.page : i \notin walk.shown
          /\ \A i \in walk.must : \/ i \in walk.shown \/ Below(i, walk.cursor)
          /\ \A i \in walk.must : \/ i \in walk.shown \/ i \in walk.page
                                  \/ walk.next # Top /\ Below(i, walk.next)
          /\ walk.next # Top => \A i \in walk.shown \cup walk.page : ~Below(i, walk.next)

ImagesInv == Formed /\ Named /\ RequestLinks /\ WalkLinks /\ PageInHand /\ Walked
Inv == TypeOK /\ ImagesInv /\ EntriesNamed
       /\ WalkShowsEachOnce /\ ListedHasPictures /\ DeletedOnce
-----------------------------------------------------------------------------
\* The walk can begin.
LEMMA TopIsCursor == Top \in Cursors /\ NoWalk \in Walks
BY DEF Top, Cursors, NoWalk, Walks

\* What the step of a request says about its other fields.
LEMMA RequestFields ==
  ASSUME Formed, NEW r \in Requests
  PROVE  /\ req[r].step = "insert" => req[r] \in Inserting
         /\ req[r].step = "delete" => req[r] \in Deleting
         /\ req[r].step \in {"show", "shown"} => req[r] \in Showing
BY DEF Formed, Requested, Idle, Inserting, Deleting, Showing, Paging

LEMMA InvInit == Init => Inv
<1> SUFFICES ASSUME Init
             PROVE  Inv
  OBVIOUS
<1> USE DEF Init, ImageInit, AdventInit, StoreInit, Idle, NoUpload
<1>1. TypeOK
  BY DEF TypeOK, NoWalk
<1>2. Formed
  BY TopIsCursor DEF Formed, Requested
<1>3. Named /\ RequestLinks /\ WalkLinks /\ PageInHand /\ Walked /\ EntriesNamed
  BY DEF Named, RequestLinks, WalkLinks, PageInHand, Walked, EntriesNamed, NoWalk
<1>4. WalkShowsEachOnce /\ ListedHasPictures /\ DeletedOnce
  BY DEF WalkShowsEachOnce, ListedHasPictures, DeletedOnce, NoWalk
<1>5. QED
  BY <1>1, <1>2, <1>3, <1>4 DEF Inv, ImagesInv

-----------------------------------------------------------------------------
\* Nothing removes an object.
LEMMA StoredGrows ==
  ASSUME [Next]_vars
  PROVE  stored \subseteq stored'
BY DEF Next, vars, Crash, AdventNext, CreatePutsImage, CreateFails, CreatePutsThumbnail,
       CreateInserts, CreateRaises, DeleteEntry, UploadNew, UploadObject, ImageNext, Tick, WalkBegins, TaskEnsures,
       TaskDies, PageEnsures, UploadFails, RequestThumbnails, Upload, ShowMetadata,
       DeleteFinds, ShowThumbnail, ShowEnsures, ShowFails, PageReads, PageAnswers,
       PageFails, UploadInserts, DeleteMarks, RequestRaises, EnsureRaises, Ensures

\* Metadata and the walk change in these steps only.
LEMMA ListingSteps ==
  ASSUME ImageNext
  PROVE  \/ UNCHANGED <<inserted, stamp, deleted, walk, deletions>>
         \/ \E filter \in Filters : WalkBegins(filter)
         \/ \E i \in Images, size \in Sizes : PageEnsures(i, size)
         \/ \E r \in Requests : \/ PageReads(r) \/ PageAnswers(r) \/ PageFails(r)
                                \/ UploadInserts(r) \/ DeleteMarks(r)
BY DEF ImageNext, Tick, TaskEnsures, imageVars, 
       TaskDies, UploadFails, RequestThumbnails, Upload, ShowMetadata,
       DeleteFinds, ShowThumbnail, ShowEnsures, ShowFails, RequestRaises

\* What becomes of the requests.
LEMMA RequestSteps ==
  ASSUME ImageNext
  PROVE  \/ UNCHANGED req
         \/ \E r \in Requests :
               \/ Goto(r, Idle)
               \/ \E i \in Images : Upload(r, i) \/ ShowMetadata(r, i) \/ DeleteFinds(r, i)
               \/ \E i \in Images, size \in Sizes : ShowThumbnail(r, i, size)
               \/ \E size \in Sizes : ShowEnsures(r, size)
               \/ PageReads(r) \/ UploadInserts(r)
BY DEF ImageNext, Tick, TaskEnsures, imageVars, WalkBegins, PageEnsures,
       TaskDies, UploadFails, RequestThumbnails, ShowFails, PageAnswers,
       PageFails, DeleteMarks, RequestRaises

\* One thumbnail is ensured for a request.
LEMMA ShowEnsured ==
  ASSUME Formed, NEW r \in Requests, NEW size \in Sizes, ShowEnsures(r, size)
  PROVE  /\ \A q \in Requests \ {r} : req'[q] = req[q]
         /\ req'[r] \in Showing /\ req'[r].step \in {"show", "shown"}
         /\ req'[r].img = req[r].img /\ req'[r].sizes = req[r].sizes
         /\ req'[r].todo = req[r].todo \ {size}
         /\ req'[r].step = "shown" => req[r].todo = {size}
         /\ ThumbnailKey(req[r].img, size) \in stored'
<1> DEFINE step == IF req[r].todo = {size} THEN "shown" ELSE "show"
<1>1. req[r] \in Showing /\ req[r].todo \ {size} \in SUBSET Sizes
  BY RequestFields DEF ShowEnsures, Showing
<1>2. req' = [req EXCEPT ![r] = [req[r] EXCEPT !.todo = @ \ {size}, !.step = step]]
  BY DEF ShowEnsures, Goto
<1>3. /\ \A q \in Requests \ {r} : req'[q] = req[q]
      /\ req'[r] = [req[r] EXCEPT !.todo = req[r].todo \ {size}, !.step = step]
  BY <1>2 DEF Formed
<1>4. ThumbnailKey(req[r].img, size) \in stored'
  BY DEF ShowEnsures, Ensures, UploadObject
<1>5. step \in {"show", "shown"} /\ (step = "shown" => req[r].todo = {size})
  OBVIOUS
<1> HIDE DEF step
<1>6. /\ req'[r] \in Showing /\ req'[r].img = req[r].img /\ req'[r].sizes = req[r].sizes
      /\ req'[r].todo = req[r].todo \ {size} /\ req'[r].step = step
  BY <1>1, <1>3, <1>5 DEF Showing
<1>7. QED
  BY <1>3, <1>4, <1>5, <1>6

\* What a page read finds: the page lies below the cursor, the images left over
\* below the page, and the next cursor is the page's last image.
LEMMA PageFound ==
  ASSUME Inv, NEW r \in Requests, PageReads(r)
  PROVE  \E page \in SUBSET Images, next \in Cursors :
            /\ walk' = [walk EXCEPT !.phase = "urls", !.page = page, !.next = next,
                                    !.todo = page \X Sizes]
            /\ page \subseteq Live
            /\ \A i \in page : Below(i, walk.cursor)
            /\ \A i \in Live : Matches(i, walk.filter) /\ Below(i, walk.cursor) =>
                  i \in page \/ (next # Top /\ Below(i, next))
            /\ next # Top =>
                  /\ \A i \in page : ~Below(i, next)
                  /\ \A i \in Images : Below(i, next) => Below(i, walk.cursor)
<1> DEFINE found == {i \in Live : Matches(i, walk.filter) /\ Below(i, walk.cursor)}
<1>1. found \subseteq Images /\ \A i \in Images : stamp[i] \in 0 .. MaxTime
  BY DEF Inv, TypeOK, Live
<1>2. walk.cursor \in Cursors
  BY DEF Inv, ImagesInv, Formed, Walks
<1>3. CASE \E page \in SUBSET found : \E last \in page :
              /\ \A i \in page, j \in found \ page : Precedes(i, j)
              /\ \A i \in page \ {last} : Precedes(i, last)
              /\ walk' = [walk EXCEPT !.phase = "urls", !.page = page,
                                      !.next = CursorOf(last), !.todo = page \X Sizes]
  <2>0. PICK page \in SUBSET found : \E last \in page :
              /\ \A i \in page, j \in found \ page : Precedes(i, j)
              /\ \A i \in page \ {last} : Precedes(i, last)
              /\ walk' = [walk EXCEPT !.phase = "urls", !.page = page,
                                      !.next = CursorOf(last), !.todo = page \X Sizes]
    BY <1>3
  <2>1. PICK last \in page :
              /\ \A i \in page, j \in found \ page : Precedes(i, j)
              /\ \A i \in page \ {last} : Precedes(i, last)
              /\ walk' = [walk EXCEPT !.phase = "urls", !.page = page,
                                      !.next = CursorOf(last), !.todo = page \X Sizes]
    BY <2>0
  <2>2. CursorOf(last) \in Cursors /\ CursorOf(last) # Top
    BY <1>1 DEF CursorOf, Cursors, Top, Images
  <2>3. \A i \in Images : Below(i, CursorOf(last)) <=> Precedes(last, i)
    BY <1>1 DEF CursorOf, Below, Precedes
  <2>4. \A i \in page : ~Below(i, CursorOf(last))
    BY <1>1, <2>1, <2>3 DEF Precedes, Images
  <2>5. \A i \in Images : Below(i, CursorOf(last)) => Below(i, walk.cursor)
    BY <1>1, <1>2, <2>3 DEF Precedes, Below, Images, Cursors
  <2>6. \A i \in found : i \in page \/ Below(i, CursorOf(last))
    BY <1>1, <2>1, <2>3
  <2>7. QED
    BY <1>1, <2>1, <2>2, <2>4, <2>5, <2>6
<1>4. CASE walk' = [walk EXCEPT !.phase = "urls", !.page = found, !.next = Top,
                                !.todo = found \X Sizes]
  BY <1>1, <1>4, TopIsCursor
<1>5. QED
  BY <1>3, <1>4 DEF PageReads
-----------------------------------------------------------------------------
\* Requests and the walk stay well formed.
LEMMA FormedStep ==
  ASSUME Inv, ImageNext, UNCHANGED upload
  PROVE  Formed'
<1> USE DEF Inv, ImagesInv
<1>1. walk' \in Walks
  <2>1. CASE UNCHANGED walk
    BY <2>1 DEF Formed
  <2>2. ASSUME NEW filter \in Filters, WalkBegins(filter)
        PROVE  walk' \in Walks
    BY <2>2, TopIsCursor DEF WalkBegins, Walks, NoWalk, TypeOK, Live
  <2>3. ASSUME NEW r \in Requests, PageReads(r)
        PROVE  walk' \in Walks
    <3>1. PICK page \in SUBSET Images, next \in Cursors :
             walk' = [walk EXCEPT !.phase = "urls", !.page = page, !.next = next,
                                  !.todo = page \X Sizes]
      BY <2>3, PageFound
    <3>2. page \X Sizes \in SUBSET (Images \X Sizes)
      OBVIOUS
    <3>3. QED
      BY <3>1, <3>2 DEF Formed, Walks
  <2>4. ASSUME NEW r \in Requests, PageAnswers(r) \/ PageFails(r)
        PROVE  walk' \in Walks
    <3>1. CASE PageAnswers(r)
      BY <3>1, TopIsCursor DEF PageAnswers, Formed, Walks
    <3>2. CASE PageFails(r)
      BY <3>2, TopIsCursor DEF PageFails, Formed, Walks
    <3>3. QED
      BY <2>4, <3>1, <3>2
  <2>6. ASSUME NEW r \in Requests, DeleteMarks(r)
        PROVE  walk' \in Walks
    <3>1. walk' = walk \/ walk' = [walk EXCEPT !.must = @ \ {req[r].img}]
      BY <2>6 DEF DeleteMarks
    <3>2. QED
      BY <3>1 DEF Formed, Walks
  <2>5. ASSUME NEW i \in Images, NEW size \in Sizes, PageEnsures(i, size)
        PROVE  walk' \in Walks
    BY <2>5 DEF PageEnsures, Formed, Walks
  <2>7. QED
    BY <2>1, <2>2, <2>3, <2>4, <2>5, <2>6, ListingSteps DEF UploadInserts
<1>2. req' \in [Requests -> Requested]
  <2> USE DEF Formed, Goto, Requested
  <2>1. ASSUME NEW r \in Requests, NEW i \in Images,
               Upload(r, i) \/ ShowMetadata(r, i) \/ DeleteFinds(r, i)
        PROVE  req' \in [Requests -> Requested]
    BY <2>1 DEF Upload, ShowMetadata, DeleteFinds, Show, Inserting, Deleting, Showing, TypeOK
  <2>2. ASSUME NEW r \in Requests, NEW i \in Images, NEW size \in Sizes, ShowThumbnail(r, i, size)
        PROVE  req' \in [Requests -> Requested]
    BY <2>2 DEF ShowThumbnail, Show, Showing
  <2>3. ASSUME NEW r \in Requests, NEW size \in Sizes, ShowEnsures(r, size)
        PROVE  req' \in [Requests -> Requested]
    <3>1. req' = [req EXCEPT ![r] = req'[r]]
      BY <2>3 DEF ShowEnsures
    <3>2. QED
      BY <2>3, <3>1, ShowEnsured
  <2>4. ASSUME NEW r \in Requests, PageReads(r)
        PROVE  req' \in [Requests -> Requested]
    BY <2>4 DEF PageReads, Paging
  <2>5. ASSUME NEW r \in Requests, UploadInserts(r)
        PROVE  req' \in [Requests -> Requested]
    BY <2>5, RequestFields DEF UploadInserts, Show, Showing, Inserting
  <2>6. QED
    BY <2>1, <2>2, <2>3, <2>4, <2>5, RequestSteps
<1>3. deletions' \in [Images -> Nat]
  <2>1. ASSUME NEW r \in Requests, DeleteMarks(r)
        PROVE  deletions' = deletions \/ deletions' = [deletions EXCEPT ![req[r].img] = @ + 1]
    BY <2>1 DEF DeleteMarks
  <2>2. deletions' = deletions \/ \E i : deletions' = [deletions EXCEPT ![i] = @ + 1]
    BY <2>1, ListingSteps DEF WalkBegins, PageEnsures, PageReads, PageAnswers,
       PageFails, UploadInserts
  <2>3. QED
    BY <2>2 DEF Formed
<1>4. QED
  BY <1>1, <1>2, <1>3 DEF Formed

\* Keys are drawn once, so an image is inserted once.
LEMMA NamedStep ==
  ASSUME Inv, ImageNext, stored \subseteq stored'
  PROVE  Named' /\ \A i \in inserted' : ObjectExists(ImageKey(i))'
<1> USE DEF Inv, ImagesInv, Formed, Named, ListedHasPictures, ObjectExists, Idle
<1> DEFINE Goal == Named' /\ \A i \in inserted' : ObjectExists(ImageKey(i))'
<1>1. ASSUME NEW r \in Requests, NEW i \in Images, Upload(r, i)
      PROVE  Goal
  BY <1>1 DEF Upload, UploadNew, DrawName, UploadObject, Goto, TypeOK
<1>2. ASSUME NEW r \in Requests, UploadInserts(r)
      PROVE  Goal
  BY <1>2, RequestFields DEF UploadInserts, Goto, Show, TypeOK
<1>3. CASE /\ inserted' = inserted
           /\ \A r \in Requests : req'[r].step = "insert" => req'[r] = req[r]
  BY <1>3
<1>4. CASE inserted' = inserted
  <2>1. ASSUME NEW r \in Requests, NEW i \in Images, ShowMetadata(r, i) \/ DeleteFinds(r, i)
        PROVE  Goal
    BY <1>4, <2>1 DEF ShowMetadata, DeleteFinds, Goto, Show
  <2>2. ASSUME NEW r \in Requests, NEW i \in Images, NEW size \in Sizes, ShowThumbnail(r, i, size)
        PROVE  Goal
    BY <1>4, <2>2 DEF ShowThumbnail, Goto, Show
  <2>3. ASSUME NEW r \in Requests, NEW size \in Sizes, ShowEnsures(r, size)
        PROVE  Goal
    BY <1>4, <2>3, ShowEnsured
  <2>4. ASSUME NEW r \in Requests, PageReads(r) \/ Goto(r, Idle)
        PROVE  Goal
    <3>1. Goto(r, [step |-> "page"]) \/ Goto(r, Idle)
      BY <2>4 DEF PageReads
    <3>2. QED
      BY <1>4, <3>1 DEF Goto
  <2>5. ASSUME UNCHANGED req
        PROVE  Goal
    BY <1>4, <2>5
  <2>6. QED
    BY <1>1, <1>2, <2>1, <2>2, <2>3, <2>4, <2>5, RequestSteps
<1>5. inserted' = inserted \/ \E r \in Requests : UploadInserts(r)
  BY ListingSteps DEF WalkBegins, PageEnsures, PageReads, PageAnswers, PageFails, DeleteMarks
<1>6. QED
  BY <1>2, <1>4, <1>5

\* An image is shown when its thumbnails are stored.
LEMMA LinkedStep ==
  ASSUME Inv, ImageNext, stored \subseteq stored'
  PROVE  RequestLinks'
<1> USE DEF Inv, ImagesInv, Formed, Idle
<1> DEFINE Linked(s) ==
        /\ s.step = "show" => \A size \in s.sizes \ s.todo : ThumbnailKey(s.img, size) \in stored'
        /\ s.step = "shown" => \A size \in s.sizes : ThumbnailKey(s.img, size) \in stored'
<1>1. \A q \in Requests : Linked(req[q])
  BY DEF RequestLinks, ObjectExists
<1>2. ASSUME NEW r \in Requests, NEW size \in Sizes, ShowEnsures(r, size)
      PROVE  \A q \in Requests : Linked(req'[q])
  <2>1. Linked(req'[r])
    BY <1>1, <1>2, ShowEnsured DEF ShowEnsures
  <2>2. QED
    BY <1>1, <1>2, <2>1, ShowEnsured
<1>3. ASSUME NEW r \in Requests, NEW s, Goto(r, s),
             \/ s.step \notin {"show", "shown"}
             \/ s.step = "show" /\ s.todo = s.sizes
      PROVE  \A q \in Requests : Linked(req'[q])
  BY <1>1, <1>3 DEF Goto
<1>4. ASSUME NEW r \in Requests, NEW i \in Images,
             Upload(r, i) \/ ShowMetadata(r, i) \/ DeleteFinds(r, i)
      PROVE  \A q \in Requests : Linked(req'[q])
  BY <1>3, <1>4 DEF Upload, ShowMetadata, DeleteFinds, Show
<1>5. ASSUME NEW r \in Requests, NEW i \in Images, NEW size \in Sizes, ShowThumbnail(r, i, size)
      PROVE  \A q \in Requests : Linked(req'[q])
  BY <1>3, <1>5 DEF ShowThumbnail, Show
<1>6. ASSUME NEW r \in Requests, PageReads(r) \/ UploadInserts(r) \/ Goto(r, Idle)
      PROVE  \A q \in Requests : Linked(req'[q])
  BY <1>3, <1>6 DEF PageReads, UploadInserts, Show
<1>7. \A q \in Requests : Linked(req'[q])
  BY <1>1, <1>2, <1>4, <1>5, <1>6, RequestSteps
<1>8. QED
  BY <1>7 DEF RequestLinks, ObjectExists, ThumbnailKey

\* A page is answered when the thumbnails of its images are stored.
LEMMA PageLinked ==
  ASSUME Inv, ImageNext, stored \subseteq stored'
  PROVE  WalkLinks'
<1> USE DEF Inv, ImagesInv, Formed, Walks, WalkLinks, ObjectExists
<1>1. CASE UNCHANGED walk
  BY <1>1
<1>2. ASSUME NEW filter \in Filters, WalkBegins(filter)
      PROVE  WalkLinks'
  BY <1>2 DEF WalkBegins, NoWalk
<1>3. ASSUME NEW i \in Images, NEW size \in Sizes, PageEnsures(i, size)
      PROVE  WalkLinks'
  BY <1>3 DEF PageEnsures, Ensures, UploadObject
<1>4. ASSUME NEW r \in Requests, PageReads(r)
      PROVE  WalkLinks'
  <2>1. PICK page \in SUBSET Images, next \in Cursors :
           walk' = [walk EXCEPT !.phase = "urls", !.page = page, !.next = next,
                                !.todo = page \X Sizes]
    BY <1>4, PageFound
  <2>2. walk'.page = page /\ walk'.todo = page \X Sizes /\ walk'.shown = walk.shown
    BY <2>1
  <2>3. QED
    BY <2>2
<1>5. ASSUME NEW r \in Requests, PageAnswers(r)
      PROVE  WalkLinks'
  BY <1>5 DEF PageAnswers
<1>6. ASSUME NEW r \in Requests, PageFails(r)
      PROVE  WalkLinks'
  BY <1>6 DEF PageFails
<1>7. ASSUME NEW r \in Requests, DeleteMarks(r)
      PROVE  WalkLinks'
  BY <1>7 DEF DeleteMarks
<1>8. QED
  BY <1>1, <1>2, <1>3, <1>4, <1>5, <1>6, <1>7, ListingSteps DEF UploadInserts

\* There is one page request at a time, and it has the walk.
LEMMA PageStep ==
  ASSUME Inv, ImageNext
  PROVE  PageInHand'
<1> USE DEF Inv, ImagesInv, Formed, Walks, PageInHand, Idle
<1>1. ASSUME NEW r \in Requests, PageReads(r)
      PROVE  PageInHand'
  BY <1>1, PageFound DEF PageReads, Goto
<1>2. ASSUME NEW r \in Requests, PageAnswers(r) \/ PageFails(r)
      PROVE  PageInHand'
  BY <1>2 DEF PageAnswers, PageFails, Goto
<1>3. ASSUME NEW filter \in Filters, WalkBegins(filter)
      PROVE  PageInHand'
  BY <1>3 DEF WalkBegins
<1>4. ASSUME NEW r \in Requests, DeleteMarks(r)
      PROVE  PageInHand'
  BY <1>4 DEF DeleteMarks, Goto
<1>5. ASSUME NEW i \in Images, NEW size \in Sizes, PageEnsures(i, size)
      PROVE  PageInHand'
  BY <1>5 DEF PageEnsures
<1>6. CASE UNCHANGED walk
  <2>1. \A r \in Requests : req'[r].step = "page" => req'[r] = req[r] \/ PageReads(r)
    <3>1. ASSUME NEW r \in Requests,
                 \/ \E i \in Images : Upload(r, i) \/ ShowMetadata(r, i) \/ DeleteFinds(r, i)
                 \/ \E i \in Images, size \in Sizes : ShowThumbnail(r, i, size)
                 \/ Goto(r, Idle) \/ UploadInserts(r)
          PROVE  \A q \in Requests : req'[q].step = "page" => req'[q] = req[q]
      BY <3>1 DEF Upload, ShowMetadata, DeleteFinds, ShowThumbnail, UploadInserts, Goto, Show
    <3>2. ASSUME NEW r \in Requests, NEW size \in Sizes, ShowEnsures(r, size)
          PROVE  \A q \in Requests : req'[q].step = "page" => req'[q] = req[q]
      BY <3>2, ShowEnsured
    <3>3. ASSUME NEW r \in Requests, PageReads(r)
          PROVE  \A q \in Requests \ {r} : req'[q] = req[q]
      BY <3>3 DEF PageReads, Goto
    <3>4. QED
      BY <3>1, <3>2, <3>3, RequestSteps
  <2>2. QED
    BY <1>1, <1>6, <2>1
<1>7. QED
  BY <1>1, <1>2, <1>3, <1>4, <1>5, <1>6, ListingSteps DEF UploadInserts

\* The heart of the walk: an upload lands in front of the cursor or behind it,
\* never on what was shown, and a page leaves nothing between two cursors.
LEMMA WalkedStep ==
  ASSUME Inv, ImageNext
  PROVE  Walked' /\ WalkShowsEachOnce'
<1> USE DEF Inv, ImagesInv, Formed, Walks, TypeOK, Walked, WalkShowsEachOnce, Live, Matches
<1>1. CASE UNCHANGED <<inserted, stamp, deleted, walk>>
  BY <1>1 DEF Below
<1>2. ASSUME NEW filter \in Filters, WalkBegins(filter)
      PROVE  Walked' /\ WalkShowsEachOnce'
  <2>1. \A i \in Images : Below(i, Top)
    BY DEF Below, Top
  <2>2. walk' = [NoWalk EXCEPT !.phase = "ready", !.filter = filter,
                               !.must = {i \in Live : Matches(i, filter)}]
        /\ UNCHANGED <<inserted, stamp, deleted>>
    BY <1>2 DEF WalkBegins
  <2>3. /\ walk'.phase = "ready" /\ walk'.filter = filter /\ walk'.cursor = Top
        /\ walk'.shown = {} /\ walk'.twice = {} /\ walk'.must = {i \in Live : Matches(i, filter)}
    BY <2>2 DEF NoWalk
  <2>4. QED
    BY <2>1, <2>2, <2>3 DEF Below
<1>3. ASSUME NEW i \in Images, NEW size \in Sizes, PageEnsures(i, size)
      PROVE  Walked' /\ WalkShowsEachOnce'
  BY <1>3 DEF PageEnsures, Below
<1>4. ASSUME NEW r \in Requests, PageReads(r)
      PROVE  Walked' /\ WalkShowsEachOnce'
  <2>1. PICK page \in SUBSET Images, next \in Cursors :
            /\ walk' = [walk EXCEPT !.phase = "urls", !.page = page, !.next = next,
                                    !.todo = page \X Sizes]
            /\ page \subseteq Live
            /\ \A i \in page : Below(i, walk.cursor)
            /\ \A i \in Live : Matches(i, walk.filter) /\ Below(i, walk.cursor) =>
                  i \in page \/ (next # Top /\ Below(i, next))
            /\ next # Top =>
                  /\ \A i \in page : ~Below(i, next)
                  /\ \A i \in Images : Below(i, next) => Below(i, walk.cursor)
    BY <1>4, PageFound
  <2>2. /\ walk'.phase = "urls" /\ walk'.page = page /\ walk'.next = next
        /\ walk'.filter = walk.filter /\ walk'.cursor = walk.cursor /\ walk'.twice = walk.twice
        /\ walk'.shown = walk.shown /\ walk'.must = walk.must
    BY <2>1
  <2>3. walk.phase = "ready" /\ UNCHANGED <<inserted, stamp, deleted>>
    BY <1>4 DEF PageReads
  <2>4. \A i \in Images, c \in Cursors : Below(i, c)' <=> Below(i, c)
    BY <2>3 DEF Below
  <2>5. QED
    BY <2>1, <2>2, <2>3, <2>4
<1>5. ASSUME NEW r \in Requests, PageAnswers(r)
      PROVE  Walked' /\ WalkShowsEachOnce'
  BY <1>5 DEF PageAnswers, PageInHand, Below
<1>6. ASSUME NEW r \in Requests, PageFails(r)
      PROVE  Walked' /\ WalkShowsEachOnce'
  BY <1>6 DEF PageFails, PageInHand, Below
<1>7. ASSUME NEW r \in Requests, UploadInserts(r)
      PROVE  Walked' /\ WalkShowsEachOnce'
  BY <1>7, RequestFields DEF UploadInserts, Named, Inserting, Below
<1>8. ASSUME NEW r \in Requests, DeleteMarks(r)
      PROVE  Walked' /\ WalkShowsEachOnce'
  BY <1>8, RequestFields DEF DeleteMarks, Deleting, Below
<1>9. QED
  BY <1>1, <1>2, <1>3, <1>4, <1>5, <1>6, <1>7, <1>8, ListingSteps

\* Of several deletions that found an image, the first marks it.
LEMMA DeletedStep ==
  ASSUME Inv, ImageNext
  PROVE  DeletedOnce' /\ deleted' \subseteq inserted' /\ inserted' \subseteq Images
<1> USE DEF Inv, TypeOK, DeletedOnce
<1>1. ASSUME NEW r \in Requests, DeleteMarks(r)
      PROVE  DeletedOnce' /\ deleted' \subseteq inserted' /\ inserted' \subseteq Images
  <2>1. req[r].img \in Images
    BY <1>1, RequestFields DEF ImagesInv, DeleteMarks, Deleting
  <2>2. CASE req[r].img \in Live
    <3>1. /\ deleted' = deleted \cup {req[r].img} /\ inserted' = inserted
          /\ deletions' = [deletions EXCEPT ![req[r].img] = @ + 1]
      BY <1>1, <2>2 DEF DeleteMarks, Markable
    <3>2. QED
      BY <2>1, <2>2, <3>1 DEF ImagesInv, Formed, Live
  <2>3. CASE req[r].img \notin Live
    BY <1>1, <2>3 DEF DeleteMarks, Markable
  <2>4. QED
    BY <2>2, <2>3
<1>2. ASSUME NEW r \in Requests, UploadInserts(r)
      PROVE  DeletedOnce' /\ deleted' \subseteq inserted' /\ inserted' \subseteq Images
  BY <1>2, RequestFields DEF UploadInserts, ImagesInv, Inserting
<1>3. QED
  BY <1>1, <1>2, ListingSteps DEF WalkBegins, PageEnsures, PageReads, PageAnswers, PageFails

\* The tasks and the metadata of images stay well formed.
LEMMA TypeStep ==
  ASSUME Inv, ImageNext, UNCHANGED adventVars
  PROVE  TypeOK'
<1> USE DEF Inv, TypeOK
<1>1. clock' \in 0 .. MaxTime
  <2>1. clock' = clock \/ Tick
    BY DEF ImageNext, TaskEnsures, imageVars, WalkBegins, PageEnsures, TaskDies,
       UploadFails, RequestThumbnails, Upload, ShowMetadata, DeleteFinds, ShowThumbnail,
       ShowEnsures, ShowFails, PageReads, PageAnswers, PageFails, UploadInserts, DeleteMarks,
       RequestRaises
  <2>2. QED
    BY <2>1 DEF Tick
<1>2. stamp' \in [Images -> 0 .. MaxTime]
  <2>1. ASSUME NEW r \in Requests, UploadInserts(r)
        PROVE  stamp' \in [Images -> 0 .. MaxTime]
    BY <2>1, RequestFields DEF UploadInserts, ImagesInv, Inserting
  <2>2. QED
    BY <2>1, ListingSteps DEF WalkBegins, PageEnsures, PageReads, PageAnswers, PageFails,
       DeleteMarks
<1>3. tasks' \subseteq Images \X Sizes
  BY DEF ImageNext, Tick, TaskEnsures, imageVars, WalkBegins, PageEnsures, TaskDies,
     UploadFails, RequestThumbnails, Upload, ShowMetadata, DeleteFinds, ShowThumbnail,
     ShowEnsures, ShowFails, PageReads, PageAnswers, PageFails, UploadInserts, DeleteMarks,
     RequestRaises
<1>4. \A r \in Requests : req'[r].step \notin {"idle", "page"} => req'[r].img \in Images
  <2>1. \A s \in Requested : s.step \notin {"idle", "page"} => s.img \in Images
    BY DEF Requested, Idle, Inserting, Deleting, Showing, Paging
  <2>2. req' \in [Requests -> Requested]
    BY FormedStep DEF Formed, adventVars
  <2>3. QED
    BY <2>1, <2>2
<1>5. /\ walk'.page \cup walk'.shown \cup walk'.must \subseteq inserted'
      /\ walk'.todo \subseteq walk'.page \X Sizes
  <2> DEFINE Inside == /\ walk'.page \cup walk'.shown \cup walk'.must \subseteq inserted'
                       /\ walk'.todo \subseteq walk'.page \X Sizes
  <2> USE DEF ImagesInv, Formed, Walks, Walked, Live
  <2>1. CASE UNCHANGED <<inserted, walk>>
    BY <2>1
  <2>2. ASSUME NEW filter \in Filters, WalkBegins(filter)
        PROVE  Inside
    BY <2>2 DEF WalkBegins, NoWalk
  <2>3. ASSUME NEW i \in Images, NEW size \in Sizes, PageEnsures(i, size)
        PROVE  Inside
    BY <2>3 DEF PageEnsures
  <2>4. ASSUME NEW r \in Requests, PageReads(r)
        PROVE  Inside
    <3>1. PICK page \in SUBSET Images, next \in Cursors :
             /\ walk' = [walk EXCEPT !.phase = "urls", !.page = page, !.next = next,
                                     !.todo = page \X Sizes]
             /\ page \subseteq Live
      BY <2>4, PageFound
    <3>2. /\ walk'.page = page /\ walk'.todo = page \X Sizes
          /\ walk'.shown = walk.shown /\ walk'.must = walk.must /\ inserted' = inserted
      BY <2>4, <3>1 DEF PageReads
    <3>3. QED
      BY <3>1, <3>2
  <2>5. ASSUME NEW r \in Requests, PageAnswers(r) \/ PageFails(r)
        PROVE  Inside
    <3>1. CASE PageAnswers(r)
      BY <3>1 DEF PageAnswers
    <3>2. CASE PageFails(r)
      BY <3>2 DEF PageFails
    <3>3. QED
      BY <2>5, <3>1, <3>2
  <2>6. ASSUME NEW r \in Requests, UploadInserts(r)
        PROVE  Inside
    BY <2>6 DEF UploadInserts
  <2>7. ASSUME NEW r \in Requests, DeleteMarks(r)
        PROVE  Inside
    <3>1. walk' = walk \/ walk' = [walk EXCEPT !.must = @ \ {req[r].img}]
      BY <2>7 DEF DeleteMarks
    <3>2. inserted' = inserted
      BY <2>7 DEF DeleteMarks
    <3>3. QED
      BY <3>1, <3>2
  <2>8. QED
    BY <2>1, <2>2, <2>3, <2>4, <2>5, <2>6, <2>7, ListingSteps
<1>6. gone' \subseteq Entries \ advents' /\ advents' \subseteq Entries
  BY DEF adventVars
<1>7. QED
  BY <1>1, <1>2, <1>3, <1>4, <1>5, <1>6, DeletedStep

-----------------------------------------------------------------------------
\* Advent entries: their steps, and that images leave them alone.
LEMMA EntriesStep ==
  ASSUME Inv, AdventNext, UNCHANGED imageVars, stored \subseteq stored'
  PROVE  /\ EntriesNamed' /\ gone' \subseteq Entries \ advents' /\ advents' \subseteq Entries
         /\ upload' \in [Uploads -> {NoUpload} \cup Storing]
         /\ \A e \in advents' : ImageKey(e) \in stored' /\ PlainThumbnailKey(e) \in stored'
<1> USE DEF Inv, EntriesNamed, ListedHasPictures, ObjectExists, AdventGoto, NoUpload, Storing
<1> DEFINE Goal ==
        /\ EntriesNamed' /\ gone' \subseteq Entries \ advents' /\ advents' \subseteq Entries
        /\ upload' \in [Uploads -> {NoUpload} \cup Storing]
        /\ \A e \in advents' : ImageKey(e) \in stored' /\ PlainThumbnailKey(e) \in stored'
<1>0. /\ upload \in [Uploads -> {NoUpload} \cup Storing]
      /\ gone \subseteq Entries \ advents /\ advents \subseteq Entries
  BY DEF TypeOK, ImagesInv, Formed
<1>1. ASSUME NEW u \in Uploads, NEW e \in Entries, CreatePutsImage(u, e)
      PROVE  Goal
  BY <1>0, <1>1 DEF CreatePutsImage, UploadNew, DrawName, UploadObject
<1>2. ASSUME NEW e \in Entries, CreateFails(e)
      PROVE  Goal
  BY <1>0, <1>2 DEF CreateFails, adventVars
<1>3. ASSUME NEW u \in Uploads, CreatePutsThumbnail(u)
      PROVE  Goal
  BY <1>0, <1>3 DEF CreatePutsThumbnail, UploadObject
<1>4. ASSUME NEW u \in Uploads, CreateInserts(u)
      PROVE  Goal
  BY <1>0, <1>4 DEF CreateInserts
<1>5. ASSUME NEW u \in Uploads, CreateRaises(u)
      PROVE  Goal
  BY <1>0, <1>5 DEF CreateRaises
<1>6. ASSUME NEW e \in Entries, DeleteEntry(e)
      PROVE  Goal
  BY <1>0, <1>6 DEF DeleteEntry
<1>7. QED
  BY <1>1, <1>2, <1>3, <1>4, <1>5, <1>6 DEF AdventNext

LEMMA InvNext == Inv /\ [Next]_vars => Inv'
<1> SUFFICES ASSUME Inv, [Next]_vars
             PROVE  Inv'
  OBVIOUS
<1> USE DEF Inv, ImagesInv
<1>0. stored \subseteq stored'
  BY StoredGrows
<1>1. CASE ImageNext /\ UNCHANGED adventVars
  <2>1. EntriesNamed' /\ \A e \in advents' : ImageKey(e) \in stored' /\ PlainThumbnailKey(e) \in stored'
    BY <1>0, <1>1 DEF EntriesNamed, ListedHasPictures, ObjectExists, adventVars
  <2>2. ListedHasPictures'
    BY <1>0, <1>1, <2>1, NamedStep DEF ListedHasPictures, ObjectExists
  <2>3. QED
    BY <1>0, <1>1, <2>1, <2>2, TypeStep, FormedStep, NamedStep, LinkedStep, PageLinked,
       PageStep, WalkedStep, DeletedStep DEF adventVars
<1>2. CASE AdventNext /\ UNCHANGED imageVars
  <2>1. ListedHasPictures'
    BY <1>0, <1>2, EntriesStep DEF ListedHasPictures, ObjectExists, imageVars
  <2>2. Formed' /\ TypeOK'
    BY <1>0, <1>2, EntriesStep DEF Formed, TypeOK, imageVars
  <2>3. Named' /\ RequestLinks' /\ WalkLinks'
    BY <1>0, <1>2 DEF Named, RequestLinks, WalkLinks, ObjectExists, imageVars
  <2>4. PageInHand' /\ Walked' /\ WalkShowsEachOnce' /\ DeletedOnce'
    BY <1>2 DEF PageInHand, Walked, Below, Matches, Live, WalkShowsEachOnce, DeletedOnce, imageVars
  <2>5. QED
    BY <1>0, <1>2, <2>1, <2>2, <2>3, <2>4, EntriesStep
<1>3. CASE Crash
  <2>1. /\ req' = [r \in Requests |-> Idle] /\ upload' = [u \in Uploads |-> NoUpload]
        /\ tasks' = {} /\ UNCHANGED <<clock, inserted, stamp, deleted, deletions>>
        /\ UNCHANGED <<advents, gone, stored>>
        /\ walk' = [walk EXCEPT !.phase = IF @ = "urls" THEN "ready" ELSE @,
                                !.page = {}, !.next = Top, !.todo = {}]
    BY <1>3 DEF Crash, ImageCrash, AdventCrash
  <2>2. /\ walk'.phase = (IF walk.phase = "urls" THEN "ready" ELSE walk.phase)
        /\ walk'.page = {} /\ walk'.todo = {} /\ walk'.shown = walk.shown
        /\ walk'.must = walk.must /\ walk'.twice = walk.twice /\ walk'.filter = walk.filter
        /\ walk'.cursor = walk.cursor /\ walk' \in Walks
    BY <2>1, TopIsCursor DEF Formed, Walks
  <2>3. Formed' /\ TypeOK'
    BY <2>1, <2>2 DEF Formed, TypeOK, Requested, Idle, NoUpload
  <2>4. Named' /\ RequestLinks' /\ WalkLinks' /\ EntriesNamed' /\ PageInHand'
    BY <2>1, <2>2 DEF Named, RequestLinks, WalkLinks, EntriesNamed, PageInHand, ObjectExists,
                      Idle, NoUpload
  <2>5. Walked' /\ WalkShowsEachOnce' /\ DeletedOnce' /\ ListedHasPictures'
    BY <2>1, <2>2 DEF Walked, Below, Matches, Live, WalkShowsEachOnce, DeletedOnce,
                      ListedHasPictures, ObjectExists
  <2>6. QED
    BY <2>3, <2>4, <2>5
<1>4. CASE UNCHANGED vars
  <2>1. UNCHANGED <<clock, inserted, stamp, deleted, req, tasks, walk, deletions,
                    advents, gone, upload, stored>>
    BY <1>4 DEF vars, imageVars, adventVars
  <2>2. TypeOK' /\ Formed' /\ Named' /\ RequestLinks' /\ WalkLinks' /\ EntriesNamed'
    BY <2>1 DEF TypeOK, Formed, Named, RequestLinks, WalkLinks, EntriesNamed, ObjectExists
  <2>3. QED
    BY <2>1, <2>2 DEF PageInHand, Walked, Below, Matches, Live, WalkShowsEachOnce, DeletedOnce,
                      ListedHasPictures, ObjectExists
<1>5. QED
  BY <1>1, <1>2, <1>3, <1>4 DEF Next

-----------------------------------------------------------------------------
\* The invariant of all the theorems below.
THEOREM Invariant == Spec => []Inv
<1>1. QED
  BY InvInit, InvNext, PTL DEF Spec

\* Both stores, the requests and the walk stay well formed, and a deleted
\* advent entry stays deleted.
THEOREM TypeCorrect == Spec => []TypeOK
<1>1. Inv => TypeOK
  BY DEF Inv
<1>2. QED
  BY <1>1, Invariant, PTL

\* A walk over the pages of any size shows every image that stays once, and
\* nothing twice, whatever is uploaded, inserted late or deleted meanwhile.
THEOREM WalkIsExact == Spec => []WalkShowsEachOnce
<1>1. Inv => WalkShowsEachOnce
  BY DEF Inv
<1>2. QED
  BY <1>1, Invariant, PTL

\* Failures and crashes leave no listed image or entry without its objects.
THEOREM ListedIsStored == Spec => []ListedHasPictures
<1>1. Inv => ListedHasPictures
  BY DEF Inv
<1>2. QED
  BY <1>1, Invariant, PTL

\* No answer links to a thumbnail that is not there.
THEOREM LinksWork == Spec => []UrlsWork
<1>1. Inv => UrlsWork
  BY DEF Inv, ImagesInv, RequestLinks, WalkLinks, UrlsWork
<1>2. QED
  BY <1>1, Invariant, PTL

\* Any number of deletions of one image report one success.
THEOREM OneDeletion == Spec => []DeletedOnce
<1>1. Inv => DeletedOnce
  BY DEF Inv
<1>2. QED
  BY <1>1, Invariant, PTL
=============================================================================
