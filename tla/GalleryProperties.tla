------------------------- MODULE GalleryProperties -------------------------
EXTENDS Gallery

\* Both stores, the requests and the walk hold what the services can write, and
\* an advent entry that was deleted stays deleted: no upload draws its key again.
TypeOK ==
    /\ clock \in 0 .. MaxTime
    /\ inserted \subseteq Images /\ deleted \subseteq inserted
    /\ stamp \in [Images -> 0 .. MaxTime]
    /\ tasks \subseteq Images \X Sizes
    /\ \A r \in Requests : req[r].step \notin {"idle", "page"} => req[r].img \in Images
    /\ walk.page \cup walk.shown \cup walk.must \subseteq inserted
    /\ walk.todo \subseteq walk.page \X Sizes
    /\ advents \subseteq Entries /\ gone \subseteq Entries \ advents

\* A walk shows nothing twice, and a finished walk has shown every image of the
\* listing that was there when it began and was not deleted meanwhile, however
\* uploads with earlier or equal stamps and deletions fall between its pages.
WalkShowsEachOnce ==
    walk.twice = {} /\ (walk.phase = "done" => walk.must \subseteq walk.shown)

\* Metadata and advent entries never outlive a failure or a crash without the
\* objects they name: what is listed has its bytes, an advent entry its
\* thumbnail.
ListedHasPictures ==
    /\ \A i \in inserted : ObjectExists(ImageKey(i))
    /\ \A e \in advents : ObjectExists(ImageKey(e)) /\ ObjectExists(PlainThumbnailKey(e))

\* The thumbnail links of an answer lead to stored thumbnails, although
\* requests and background tasks make them, and any of those may fail.
UrlsWork ==
    /\ \A r \in Requests : req[r].step = "shown" =>
          \A size \in req[r].sizes : ObjectExists(ThumbnailKey(req[r].img, size))
    /\ \A i \in walk.shown, size \in Sizes : ObjectExists(ThumbnailKey(i, size))

\* Of the calls that delete an image, exactly one reports success, although
\* each finds the image before it marks it.
DeletedOnce == \A i \in Images : deletions[i] = IF i \in deleted THEN 1 ELSE 0
=============================================================================
