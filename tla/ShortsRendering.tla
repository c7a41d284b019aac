-------------------------- MODULE ShortsRendering --------------------------
(***************************************************************************)
(* The vertical shorts of one episode: identification queues them, and any *)
(* number of requests (one short, all queued ones, the render_pending_     *)
(* shorts command) render them, edit them and delete them at the same time.*)
(*                                                                         *)
(* Nothing claims a short before it is rendered: two requests may work on  *)
(* the same one.  Each save is a transaction of its own.  A render takes   *)
(* minutes, while gunicorn kills a worker whose request takes longer than  *)
(* its --timeout.                                                          *)
(***************************************************************************)
EXTENDS FiniteSets

CONSTANTS
    Shorts,     \* VideoShort rows the episode may get
    NoShort,
    Requests,   \* requests, background jobs and commands in flight at a time
    Patchable   \* bound: shorts that API clients patch, once each

ASSUME NoShortAssumption == NoShort \notin Shorts
ASSUME PatchableAssumption == Patchable \subseteq Shorts

VARIABLES
    short,      \* the VideoShort table
    stored,     \* shorts whose video file has been uploaded to Spaces
    request,    \* what each request is doing
    patched,    \* history: shorts written by PATCH
    cut         \* history: shorts that a killed request was rendering

vars == <<short, stored, request, patched, cut>>

----------------------------------------------------------------------------
ShortStatus == {"queued", "rendering", "uploading", "ready", "failed"}
Busy == {"rendering", "uploading"}

ShortRows == [status : {"absent", "deleted"} \cup ShortStatus,
              public_url : {"", "link"},
              error_message : {"", "error"}]

NoRow == [status |-> "absent", public_url |-> "", error_message |-> ""]

Exists(s) == short[s].status \in ShortStatus

\* A request holds the shorts it has yet to deal with, the one at hand, and,
\* for a PATCH, its copy of the row.
Doing == {"idle", "queueing", "downloading", "next", "patching"} \cup Busy \cup {"uploaded"}

ShortsTypeOK ==
    /\ short \in [Shorts -> ShortRows]
    /\ stored \subseteq Shorts
    /\ request \in [Requests -> [doing : Doing, todo : SUBSET Shorts,
                                 at : Shorts \cup {NoShort}, copy : ShortRows]]
    /\ patched \subseteq Shorts
    /\ cut \subseteq Shorts

Idle == [doing |-> "idle", todo |-> {}, at |-> NoShort, copy |-> NoRow]

Init ==
    /\ short = [s \in Shorts |-> NoRow]
    /\ stored = {}
    /\ request = [r \in Requests |-> Idle]
    /\ patched = {}
    /\ cut = {}

Begin(r, what, S) ==
    /\ request[r].doing = "idle"
    /\ request' = [request EXCEPT ![r] = [Idle EXCEPT !.doing = what, !.todo = S]]
    /\ UNCHANGED <<short, stored, patched, cut>>

----------------------------------------------------------------------------
(* identify_and_queue_shorts: the AI answers with some clips; each becomes *)
(* a clip moment and a short, one insert after the other.                  *)

identify_and_queue_shorts(r) == Begin(r, "queueing", {})

QueueShort(r, s) ==
    /\ request[r].doing = "queueing"
    /\ short[s].status = "absent"
    /\ short' = [short EXCEPT ![s] = [NoRow EXCEPT !.status = "queued"]]
    /\ UNCHANGED <<stored, request, patched, cut>>

\* All clips are queued; or one does not parse, or an insert fails, and the
\* rest is not queued.
QueueingEnds(r) ==
    /\ request[r].doing = "queueing"
    /\ request' = [request EXCEPT ![r] = Idle]
    /\ UNCHANGED <<short, stored, patched, cut>>

----------------------------------------------------------------------------
(* Rendering.                                                              *)

\* POST /api/shorts/<pk>/render/ takes a short in any status.
RenderShortAPI(r, s) == Exists(s) /\ Begin(r, "next", {s})

\* render-all and the command: the queued shorts are listed once.
render_all_queued_shorts(r) ==
    LET queued == {s \in Shorts : short[s].status = "queued"}
    IN  queued # {} /\ Begin(r, "downloading", queued)

SourceArrives(r) ==
    /\ request[r].doing = "downloading"
    /\ request' = [request EXCEPT ![r].doing = "next"]
    /\ UNCHANGED <<short, stored, patched, cut>>

SourceFails(r) ==
    /\ request[r].doing = "downloading"
    /\ request' = [request EXCEPT ![r] = Idle]
    /\ UNCHANGED <<short, stored, patched, cut>>

\* The batch goes on with its next short, whatever became of this one.
GoOn(r, s) ==
    request' = [request EXCEPT ![r] =
                  IF request[r].todo = {s} THEN Idle
                  ELSE [Idle EXCEPT !.doing = "next", !.todo = request[r].todo \ {s}]]

\* Defect: a status that is not a ShortStatus.
SaveStatus_Unknown(s, status) ==
    Exists(s) /\ short' = [short EXCEPT ![s].status = "in progress"]

\* save(update_fields=...): nothing else is written, and it raises when the
\* row is gone.
SaveStatus(s, status) == Exists(s) /\ short' = [short EXCEPT ![s].status = status]

\* Defect: a full save of the copy that was listed.
MarkRendering_FullSave(r, s) ==
    /\ request[r].doing = "next"
    /\ s \in request[r].todo
    /\ Exists(s)
    /\ short' = [short EXCEPT ![s] = [NoRow EXCEPT !.status = "rendering"]]
    /\ request' = [request EXCEPT ![r].doing = "rendering", ![r].at = s]
    /\ UNCHANGED <<stored, patched, cut>>

MarkRendering(r, s) ==
    /\ request[r].doing = "next"
    /\ s \in request[r].todo
    /\ SaveStatus(s, "rendering")
    /\ request' = [request EXCEPT ![r].doing = "rendering", ![r].at = s]
    /\ UNCHANGED <<stored, patched, cut>>

SkipDeleted(r, s) ==
    /\ request[r].doing = "next"
    /\ s \in request[r].todo
    /\ ~Exists(s)
    /\ GoOn(r, s)
    /\ UNCHANGED <<short, stored, patched, cut>>

MarkUploading(r) ==
    /\ request[r].doing = "rendering"
    /\ SaveStatus(request[r].at, "uploading")
    /\ request' = [request EXCEPT ![r].doing = "uploading"]
    /\ UNCHANGED <<stored, patched, cut>>

Upload(r) ==
    /\ request[r].doing = "uploading"
    /\ stored' = stored \cup {request[r].at}
    /\ request' = [request EXCEPT ![r].doing = "uploaded"]
    /\ UNCHANGED <<short, patched, cut>>

\* Defect: the link is published before the upload.
SaveReady_BeforeUpload(r) ==
    /\ request[r].doing \in {"uploading", "uploaded"}
    /\ short' = [short EXCEPT ![request[r].at] =
                   [status |-> "ready", public_url |-> "link", error_message |-> ""]]
    /\ GoOn(r, request[r].at)
    /\ UNCHANGED <<stored, patched, cut>>

\* A full save(): it inserts the row again if it was deleted meanwhile.
SaveReady(r) ==
    /\ request[r].doing = "uploaded"
    /\ short' = [short EXCEPT ![request[r].at] =
                   [status |-> "ready", public_url |-> "link", error_message |-> ""]]
    /\ GoOn(r, request[r].at)
    /\ UNCHANGED <<stored, patched, cut>>

\* Defect: the error is returned to the client but not saved.
RenderFails_NotSaved(r) ==
    /\ request[r].doing \in Busy \cup {"uploaded"}
    /\ GoOn(r, request[r].at)
    /\ UNCHANGED <<short, stored, patched, cut>>

\* The source, ffmpeg, the upload or a save fails; a clip moment that was
\* deleted meanwhile makes the final save fail.  If the short itself is gone,
\* so does the attempt to save FAILED.
RenderFails(r) ==
    LET s == request[r].at
    IN  /\ request[r].doing \in Busy \cup {"uploaded"}
        /\ short' = IF Exists(s)
                    THEN [short EXCEPT ![s].status = "failed", ![s].error_message = "error"]
                    ELSE short
        /\ GoOn(r, s)
        /\ UNCHANGED <<stored, patched, cut>>

----------------------------------------------------------------------------
(* Other requests, and the death of a request's process.                   *)

\* PATCH /api/shorts/<pk>/ loads the row, sets title, caption or hashtags ...
LoadPatch(r, s) ==
    /\ request[r].doing = "idle"
    /\ Exists(s)
    /\ s \in Patchable \ patched
    /\ request' = [request EXCEPT ![r] = [doing |-> "patching", todo |-> {},
                                          at |-> s, copy |-> short[s]]]
    /\ UNCHANGED <<short, stored, patched, cut>>

\* ... and writes all columns of its copy.
SavePatch(r) ==
    /\ request[r].doing = "patching"
    /\ short' = [short EXCEPT ![request[r].at] = request[r].copy]
    /\ patched' = patched \cup {request[r].at}
    /\ request' = [request EXCEPT ![r] = Idle]
    /\ UNCHANGED <<stored, cut>>

\* DELETE; the file stays in Spaces.
Delete(s) ==
    /\ Exists(s)
    /\ short' = [short EXCEPT ![s] = [NoRow EXCEPT !.status = "deleted"]]
    /\ UNCHANGED <<stored, request, patched, cut>>

Kill(r) ==
    /\ request[r].doing # "idle"
    /\ request' = [request EXCEPT ![r] = Idle]
    /\ cut' = IF request[r].doing \in Busy \cup {"uploaded"}
              THEN cut \cup {request[r].at} ELSE cut
    /\ UNCHANGED <<short, stored, patched>>

----------------------------------------------------------------------------
Render(r) ==
    \/ SourceArrives(r) \/ SourceFails(r)
    \/ \E s \in Shorts : MarkRendering(r, s) \/ SkipDeleted(r, s)
    \/ MarkUploading(r) \/ Upload(r) \/ SaveReady(r) \/ RenderFails(r)

Next ==
    \/ \E r \in Requests :
         \/ identify_and_queue_shorts(r) \/ QueueingEnds(r)
         \/ render_all_queued_shorts(r) \/ Render(r) \/ SavePatch(r) \/ Kill(r)
    \/ \E r \in Requests, s \in Shorts : QueueShort(r, s) \/ RenderShortAPI(r, s) \/ LoadPatch(r, s)
    \/ \E s \in Shorts : Delete(s)

Spec == Init /\ [][Next]_vars

\* ffmpeg runs under a timeout of 600 s and the Spaces client has its own, so a
\* render goes on; the download of the source has none, but only a request of
\* gunicorn downloads for a short that it has marked, and gunicorn kills that.
FairSpec == Spec /\ \A r \in Requests : WF_vars(Render(r) \/ Kill(r))

----------------------------------------------------------------------------
(* Properties.                                                             *)

\* A short that is shown as READY has a link, the file behind it has been
\* uploaded, and no error is left from another render, however many renders,
\* edits and deletions of it overlap.
ReadyIsPlayable ==
    \A s \in Shorts :
        short[s].status = "ready" =>
            short[s].public_url = "link" /\ s \in stored /\ short[s].error_message = ""

\* RENDERING and UPLOADING are never leftovers of a render that ended by
\* itself: some request is still at work on the short, or was killed, or an
\* edit has put an old status back.
BusyHasCause ==
    \A s \in Shorts : short[s].status \in Busy =>
        \/ s \in patched \cup cut
        \/ \E r \in Requests : request[r].at = s /\ request[r].doing \in Busy \cup {"uploaded"}

\* A link that was once shared stays: neither a new render of the short nor
\* its failure takes public_url away; only an edit may, with a copy from before
\* the render.
LinkStays ==
    [][\A s \in Shorts :
         short[s].public_url = "link" /\ Exists(s) /\ Exists(s)' =>
            \/ short'[s].public_url = "link"
            \/ \E r \in Requests : request[r].doing = "patching" /\ request[r].at = s]_vars

\* A short that is being rendered does not stay so, unless its request is
\* killed or an edit puts an old status back.
RenderingEnds ==
    \A s \in Shorts :
        short[s].status \in Busy ~> short[s].status \notin Busy \/ s \in patched \cup cut
=============================================================================
