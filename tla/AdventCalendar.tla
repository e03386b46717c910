--------------------------- MODULE AdventCalendar ---------------------------
(***************************************************************************)
(* Advent entries (AdventService).  An upload stores the bytes, makes the  *)
(* thumbnail, stores it under the plain key and inserts the entry; an      *)
(* entry is deleted outright and its objects stay.                         *)
(***************************************************************************)
EXTENDS ObjectStore

CONSTANTS
    Entries,     \* advent entries, each with a key of its own
    BadEntries,  \* uploads that create_thumbnail cannot open
    Uploads      \* slots for advent requests in flight

ASSUME EntryAssumption == BadEntries \subseteq Entries

VARIABLES
    advents,  \* entries in the advent collection
    gone,     \* history: entries deleted
    upload    \* upload[u]: the request in slot u

adventVars == <<advents, gone, upload>>

PlainThumbnailKey(e) == <<"thumbnails", e>>
NoUpload == [step |-> "idle"]
AdventInit == advents = {} /\ gone = {} /\ upload = [u \in Uploads |-> NoUpload]

AdventGoto(u, s) == upload' = [upload EXCEPT ![u] = s]

CreatePutsImage(u, e) ==
    /\ upload[u].step = "idle" /\ UploadNew(e)
    /\ AdventGoto(u, [step |-> "thumbnail", entry |-> e])
    /\ UNCHANGED <<advents, gone>>

\* S3 raises although the object was stored.
CreateFails(e) == UploadNew(e) /\ UNCHANGED adventVars

\* create_thumbnail raises for bytes it cannot open: the image stays behind.
CreatePutsThumbnail(u) ==
    /\ upload[u].step = "thumbnail"
    /\ IF upload[u].entry \in BadEntries
       THEN AdventGoto(u, NoUpload) /\ UNCHANGED stored
       ELSE /\ UploadObject(PlainThumbnailKey(upload[u].entry))
            /\ AdventGoto(u, [upload[u] EXCEPT !.step = "insert"])
    /\ UNCHANGED <<advents, gone>>

CreateInserts(u) ==
    /\ upload[u].step = "insert"
    /\ advents' = advents \cup {upload[u].entry}
    /\ AdventGoto(u, NoUpload)
    /\ UNCHANGED <<gone, stored>>

CreateRaises(u) ==
    /\ upload[u].step # "idle"
    /\ \/ UNCHANGED stored
       \/ /\ upload[u].step = "thumbnail" /\ upload[u].entry \notin BadEntries
          /\ UploadObject(PlainThumbnailKey(upload[u].entry))
    /\ AdventGoto(u, NoUpload)
    /\ UNCHANGED <<advents, gone>>

\* delete_advent_by_id: the lookup decides the 404, the count is not looked at.
DeleteEntry(e) ==
    /\ e \in advents
    /\ advents' = advents \ {e} /\ gone' = gone \cup {e}
    /\ UNCHANGED <<upload, stored>>

AdventCrash == upload' = [u \in Uploads |-> NoUpload] /\ UNCHANGED <<advents, gone>>

AdventNext ==
    \E u \in Uploads, e \in Entries :
        \/ CreatePutsImage(u, e) \/ CreateFails(e) \/ CreatePutsThumbnail(u)
        \/ CreateInserts(u) \/ CreateRaises(u) \/ DeleteEntry(e)
=============================================================================
