------------------------------ MODULE Uploads -------------------------------
(***************************************************************************)
(* The two ways a media file gets into the object store: the browser puts  *)
(* it there itself through a presigned URL and then asks for its           *)
(* MediaAsset, or the server uploads it and then inserts the row.          *)
(*                                                                         *)
(* Any step may fail and end the upload where it is; its user then starts  *)
(* another one. Nothing ever removes an object.                            *)
(***************************************************************************)
CONSTANTS
    Uploads,    \* one for each time that somebody starts an upload
    FileNames,  \* as the files are called
    NoObject    \* what the store holds under a key that nobody used

ASSUME NoObjectAssumption == NoObject \notin Uploads

VARIABLES
    upload,   \* how far each upload is
    stored,   \* the upload whose bytes the store holds under each key
    public,   \* keys that anybody may read
    media     \* the uploads that have a MediaAsset row

uploadVars == <<upload, stored, public, media>>

----------------------------------------------------------------------------
\* Defect: the key of a presigned URL is that of the file name.
media_asset_key_NoPrefix(u, filename) == <<"media", filename>>

\* Each presigned URL has a random prefix in its key, which the upload stands for.
media_asset_key(u, filename) == <<"media", filename, u>>

episode_video_key(filename) == <<"video", filename>>

KeyOf(u) ==
    IF upload[u].way = "browser"
    THEN media_asset_key(u, upload[u].filename)
    ELSE episode_video_key(upload[u].filename)

Keys ==
    {media_asset_key(u, f) : u \in Uploads, f \in FileNames}
        \cup {episode_video_key(f) : f \in FileNames}

NotStarted == [at |-> "none"]

UploadInit ==
    /\ upload = [u \in Uploads |-> NotStarted]
    /\ stored = [k \in Keys |-> NoObject]
    /\ public = {}
    /\ media = {}

At(u, way, step) == upload[u] # NotStarted /\ upload[u].way = way /\ upload[u].at = step

Goto(u, step) == upload' = [upload EXCEPT ![u].at = step]

Fails(u) ==
    /\ upload[u].at \notin {"none", "added", "failed"}
    /\ Goto(u, "failed")
    /\ UNCHANGED <<stored, public, media>>

InsertAsset(u) == media' = media \cup {u}

----------------------------------------------------------------------------
(* Through a presigned URL.                                                *)

MediaPresignUploadAPI(u, filename) ==
    /\ upload[u] = NotStarted
    /\ upload' = [upload EXCEPT ![u] = [way |-> "browser", filename |-> filename, at |-> "signed"]]
    /\ UNCHANGED <<stored, public, media>>

\* The PUT of the browser; its answer may get lost. No ACL is signed: the object is private.
BrowserPut(u) ==
    /\ At(u, "browser", "signed")
    /\ stored' = [stored EXCEPT ![KeyOf(u)] = u]
    /\ public' = public \ {KeyOf(u)}
    /\ Goto(u, "put") \/ Goto(u, "failed")
    /\ UNCHANGED media

\* The row is inserted as READY, on the word of the browser that the file is there.
MediaAssetConfirmUploadAPI(u) ==
    /\ At(u, "browser", "put")
    /\ InsertAsset(u)
    /\ Goto(u, "inserted")
    /\ UNCHANGED <<stored, public>>

\* When this fails, so does its logging, and the browser is told of an error.
make_public(u) ==
    /\ At(u, "browser", "inserted")
    /\ public' = public \cup {KeyOf(u)}
    /\ Goto(u, "added")
    /\ UNCHANGED <<stored, media>>

----------------------------------------------------------------------------
(* Through the server.                                                     *)

UploadVideoAPI(u, filename) ==
    /\ upload[u] = NotStarted
    /\ upload' = [upload EXCEPT ![u] = [way |-> "server", filename |-> filename, at |-> "posted"]]
    /\ UNCHANGED <<stored, public, media>>

\* The publish tab does the same.
publish_video(u, filename) == UploadVideoAPI(u, filename)

\* An object of that name is replaced, whosever it was; an error may hide that it was stored.
upload_file(u) ==
    /\ At(u, "server", "posted")
    /\ stored' = [stored EXCEPT ![KeyOf(u)] = u]
    /\ public' = public \cup {KeyOf(u)}
    /\ Goto(u, "put") \/ Goto(u, "failed")
    /\ UNCHANGED media

VideoInserted(u) ==
    /\ At(u, "server", "put")
    /\ InsertAsset(u)
    /\ Goto(u, "added")
    /\ UNCHANGED <<stored, public>>

\* The row goes, the object stays.
MediaAssetDeleteView(u) ==
    /\ u \in media
    /\ media' = media \ {u}
    /\ UNCHANGED <<upload, stored, public>>

----------------------------------------------------------------------------
UploadNext ==
    \E u \in Uploads :
        \/ \E f \in FileNames :
             MediaPresignUploadAPI(u, f) \/ UploadVideoAPI(u, f) \/ publish_video(u, f)
        \/ BrowserPut(u) \/ MediaAssetConfirmUploadAPI(u) \/ make_public(u)
        \/ upload_file(u) \/ VideoInserted(u)
        \/ MediaAssetDeleteView(u) \/ Fails(u)

UploadSpec == UploadInit /\ [][UploadNext]_uploadVars

----------------------------------------------------------------------------
UploadTypeOK ==
    /\ \A u \in Uploads :
         \/ upload[u] = NotStarted
         \/ upload[u] \in [way : {"browser", "server"}, filename : FileNames,
                           at : {"signed", "posted", "put", "inserted", "added", "failed"}]
    /\ stored \in [Keys -> Uploads \cup {NoObject}]
    /\ public \subseteq Keys
    /\ media \subseteq Uploads

\* The object that a media asset names is there and holds the file that was uploaded for
\* it; only an upload through the server may have been replaced, and then by another one
\* of the same name. Once its user has been told so, anybody may read it.
AssetHoldsItsUpload ==
    \A u \in media :
        LET holds == stored[KeyOf(u)]
        IN  /\ \/ holds = u
               \/ /\ holds # NoObject
                  /\ upload[u].way = "server" /\ upload[holds].way = "server"
            /\ upload[u].at = "added" => KeyOf(u) \in public
=============================================================================
