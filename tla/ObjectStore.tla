---------------------------- MODULE ObjectStore ----------------------------
(***************************************************************************)
(* The S3 bucket behind Boto3S3Storage.  A missing key is an ordinary      *)
(* answer of get_object and get_object_exists; every other ClientError is  *)
(* raised again, and after one of those an upload may have been stored.    *)
(* delete_object has no caller: nothing leaves the bucket.                 *)
(***************************************************************************)
EXTENDS Naturals, FiniteSets

CONSTANT MaxNames  \* bound: images stored
ASSUME StoreAssumption == MaxNames \in Nat

VARIABLE stored  \* the keys in the bucket, folder first

StoreInit == stored = {}

\* The image folder and the thumbnail folder.
ImageKey(name)           == <<"images", name>>
ThumbnailKey(name, size) == <<"thumbnails", name, size>>

ObjectExists(key) == key \in stored
UploadObject(key) == stored' = stored \cup {key}

\* Mutant: a name can be drawn again.
DrawUsedName(name) == Cardinality({key \in stored : key[1] = "images"}) < MaxNames

\* generate_crypto_id draws a name no object has; one that was drawn for an
\* upload that stored nothing is as good as never drawn.
DrawName(name)  == /\ ~ObjectExists(ImageKey(name))
                   /\ Cardinality({key \in stored : key[1] = "images"}) < MaxNames
UploadNew(name) == DrawName(name) /\ UploadObject(ImageKey(name))
=============================================================================
