----------------------------- MODULE MCGallery -----------------------------
(* A model-checking instance of images and advent entries. *)
EXTENDS GalleryProperties, TLC

CONSTANTS Joris, Danfeng

Uploaders == [i \in Images |-> IF i = 2 THEN Danfeng ELSE Joris]
Symmetry  == Permutations(Requests) \cup Permutations(Sizes)

\* A task whose thumbnail exists finds it and ends: such tasks are left out.
View == <<clock, inserted, stamp, deleted, req, walk, deletions, stored, adventVars,
          {t \in tasks : ~ObjectExists(ThumbnailKey(t[1], t[2]))}>>
=============================================================================
