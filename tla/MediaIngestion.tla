--------------------------- MODULE MediaIngestion ---------------------------
(***************************************************************************)
(* Media assets and transcripts of one episode, driven by the background   *)
(* tasks: transcribe_media_asset and the publish tab's _run_extraction run *)
(* as the fn of a task, transcripts are also pasted or uploaded by people, *)
(* and three cleanups give up on assets by their age.                      *)
(*                                                                         *)
(* This module composes BackgroundTasks: a job step happens only while the *)
(* task's worker thread runs, and the thread ends by the last job step.    *)
(***************************************************************************)
EXTENDS BackgroundTasks, Naturals

CONSTANTS
    Assets,     \* MediaAsset rows the episode may get
    NoAsset,
    Authors,    \* people who paste or upload one transcript each
    Patchable,  \* bound: assets that API clients post or patch, once each
    Deletable   \* bound: writers whose transcript API clients delete

ASSUME NoAssetAssumption == NoAsset \notin Assets
ASSUME AuthorsAssumption == Tasks \cap Authors = {}
ASSUME PatchableAssumption == Patchable \subseteq Assets
ASSUME DeletableAssumption == Deletable \subseteq Tasks \cup Authors

VARIABLES
    asset,          \* the MediaAsset table
    aged,           \* assets whose created_at is behind every cleanup's cutoff
    assets_swept,   \* fix_stuck_tasks is past its MediaAsset part
    job,            \* local state of fn in each task's worker thread
    draft,          \* the revision number each author's request computed
    transcript,     \* the Transcript table: revision stored by each writer
    removed,        \* writers whose transcript has been deleted since
    hand_edited     \* history: assets whose status an API client has chosen

ingestionVars == <<asset, aged, assets_swept, job, draft, transcript, removed, hand_edited>>
allVars == <<vars, ingestionVars>>

----------------------------------------------------------------------------
Writers == Tasks \cup Authors
AssetBusy == {"pending", "processing"}

\* link: a URL a user pasted; streaming: such a URL on YouTube or Vimeo;
\* upload: a file in storage; extraction: the row of an audio extraction.
AssetRows == [kind : {"link", "streaming", "upload", "extraction"},
              ingestion_status : {"absent", "deleted", "ready", "failed"} \cup AssetBusy]

JobRows == [fn : {"none", "transcribe", "extract"},
            asset : Assets \cup {NoAsset},
            pc : {"start", "processing", "numbered", "stored",
                  "return", "raise", "no provider"},
            revision : Nat]

NoRevision == 0
Revisions(W) == {transcript[w] : w \in W}

\* Defect: the next number is taken from count().
NextRevision_ByCount == 1 + Cardinality({w \in Writers \ removed : transcript[w] # NoRevision})

NextRevision ==
    1 + CHOOSE r \in Revisions(Writers \ removed) \cup {0} :
          \A q \in Revisions(Writers \ removed) : q <= r

IngestionTypeOK ==
    /\ TypeOK
    /\ asset \in [Assets -> AssetRows]
    /\ aged \subseteq Assets
    /\ assets_swept \in BOOLEAN
    /\ job \in [Tasks -> JobRows]
    /\ draft \in [Authors -> Nat]
    /\ transcript \in [Writers -> Nat]
    /\ removed \subseteq Writers
    /\ hand_edited \subseteq Assets

IngestionInit ==
    /\ Init
    /\ asset = [a \in Assets |-> [kind |-> "link", ingestion_status |-> "absent"]]
    /\ aged = {}
    /\ assets_swept = FALSE
    /\ job = [t \in Tasks |-> [fn |-> "none", asset |-> NoAsset,
                               pc |-> "start", revision |-> NoRevision]]
    /\ draft = [u \in Authors |-> NoRevision]
    /\ transcript = [w \in Writers |-> NoRevision]
    /\ removed = {}
    /\ hand_edited = {}

----------------------------------------------------------------------------
(* Requests.                                                               *)

\* A pasted link keeps the model default PENDING although no job exists for
\* it; an uploaded file is READY at once; audio extraction inserts its row
\* before it submits its task.  (The pages of the application.)
AddAsset(a) ==
    /\ up # {}
    /\ asset[a].ingestion_status = "absent"
    /\ \E k \in {"link", "streaming", "upload", "extraction"} :
         asset' = [asset EXCEPT ![a] =
                     [kind |-> k,
                      ingestion_status |-> IF k = "upload" THEN "ready" ELSE "pending"]]
    /\ UNCHANGED <<vars, aged, assets_swept, job, draft, transcript, removed, hand_edited>>

\* POST /api/episodes/<id>/media/: ingestion_status is a writable field of the
\* serializer, so the row is inserted with any status, READY or PROCESSING
\* without a job among them; PENDING is the model default.
PostAsset(a) ==
    /\ up # {}
    /\ asset[a].ingestion_status = "absent"
    /\ \E k \in {"link", "streaming", "upload"}, s \in {"ready", "failed"} \cup AssetBusy :
         /\ asset' = [asset EXCEPT ![a] = [kind |-> k, ingestion_status |-> s]]
         /\ hand_edited' = IF s = "pending" THEN hand_edited ELSE hand_edited \cup {a}
    /\ UNCHANGED <<vars, aged, assets_swept, job, draft, transcript, removed>>

DeleteAsset(a) ==
    /\ up # {}
    /\ asset[a].ingestion_status \notin {"absent", "deleted"}
    /\ asset' = [asset EXCEPT ![a].ingestion_status = "deleted"]
    /\ UNCHANGED <<vars, aged, assets_swept, job, draft, transcript, removed, hand_edited>>

\* PATCH /api/media/<pk>/: ingestion_status is a writable field, and the save
\* writes every column, so the row gets the status the client sent or the one
\* in the request's old copy, and comes back if it was deleted in between.
PatchAsset(a) ==
    /\ up # {}
    /\ asset[a].ingestion_status # "absent"
    /\ a \notin hand_edited
    /\ \E s \in {"ready", "failed"} \cup AssetBusy :
         asset' = [asset EXCEPT ![a].ingestion_status = s]
    /\ hand_edited' = hand_edited \cup {a}
    /\ UNCHANGED <<vars, aged, assets_swept, job, draft, transcript, removed>>

Submit(t, w, a, f) ==
    /\ run_background_task(t, w)
    /\ job' = [job EXCEPT ![t].fn = f, ![t].asset = a]
    /\ UNCHANGED <<asset, aged, assets_swept, draft, transcript, removed, hand_edited>>

\* Nobody checks ingestion_status: an asset that is being transcribed, or was
\* transcribed before, may be submitted again.
SubmitTranscription(t, w, a) ==
    /\ asset[a].ingestion_status \notin {"absent", "deleted"}
    /\ Submit(t, w, a, "transcribe")

SubmitExtraction(t, w, a) ==
    /\ asset[a] = [kind |-> "extraction", ingestion_status |-> "pending"]
    /\ \A s \in Tasks : job[s].fn = "extract" => job[s].asset # a
    /\ Submit(t, w, a, "extract")

\* A pasted or uploaded transcript: the highest revision is read, then the row
\* is inserted with the next number; no lock and no unique constraint.
AuthorReadsRevision(u) ==
    /\ up # {}
    /\ draft[u] = NoRevision
    /\ draft' = [draft EXCEPT ![u] = NextRevision]
    /\ UNCHANGED <<vars, asset, aged, assets_swept, job, transcript, removed, hand_edited>>

AuthorStoresTranscript(u) ==
    /\ up # {}
    /\ draft[u] # NoRevision
    /\ transcript[u] = NoRevision
    /\ transcript' = [transcript EXCEPT ![u] = draft[u]]
    /\ UNCHANGED <<vars, asset, aged, assets_swept, job, draft, removed, hand_edited>>

\* DELETE /api/transcripts/<pk>/
DeleteTranscript(w) ==
    /\ up # {}
    /\ transcript[w] # NoRevision
    /\ w \notin removed
    /\ removed' = removed \cup {w}
    /\ UNCHANGED <<vars, asset, aged, assets_swept, job, draft, transcript, hand_edited>>

----------------------------------------------------------------------------
(* The worker thread: transcribe_media_asset and _run_extraction.  Each    *)
(* writes the asset with save(update_fields=...), which raises when the    *)
(* row is gone.                                                            *)

At(t, label) == worker[t] = "running" /\ job[t].pc = label

Exists(t) == asset[job[t].asset].ingestion_status # "deleted"

Goto(t, label) == job' = [job EXCEPT ![t].pc = label]

SaveStatus(t, s) == asset' = [asset EXCEPT ![job[t].asset].ingestion_status = s]

MarkProcessing(t) ==
    /\ At(t, "start") /\ Exists(t)
    /\ SaveStatus(t, "processing")
    /\ Goto(t, "processing")
    /\ UNCHANGED <<vars, aged, assets_swept, draft, transcript, removed, hand_edited>>

\* _get_provider() raises before the try block: the asset keeps PROCESSING.
ProviderMissing(t) ==
    /\ At(t, "processing")
    /\ job[t].fn = "transcribe"
    /\ Goto(t, "no provider")
    /\ UNCHANGED <<vars, asset, aged, assets_swept, draft, transcript, removed, hand_edited>>

\* Defects: the exception is swallowed; FAILED is not saved.
MediaFails_Swallowed(t) ==
    /\ At(t, "processing") /\ Exists(t)
    /\ SaveStatus(t, "failed")
    /\ Goto(t, "return")
    /\ UNCHANGED <<vars, aged, assets_swept, draft, transcript, removed, hand_edited>>

MediaFails_NoSave(t) ==
    /\ At(t, "processing") /\ Exists(t)
    /\ Goto(t, "raise")
    /\ UNCHANGED <<vars, asset, aged, assets_swept, draft, transcript, removed, hand_edited>>

\* Download, ffmpeg or the provider fails; a streaming link always does.
MediaFails(t) ==
    /\ At(t, "processing") /\ Exists(t)
    /\ SaveStatus(t, "failed")
    /\ Goto(t, "raise")
    /\ UNCHANGED <<vars, aged, assets_swept, draft, transcript, removed, hand_edited>>

\* The provider has answered; the next revision number is read.
ReadRevision(t) ==
    /\ At(t, "processing")
    /\ job[t].fn = "transcribe"
    /\ asset[job[t].asset].kind # "streaming"
    /\ job' = [job EXCEPT ![t].pc = "numbered", ![t].revision = NextRevision]
    /\ UNCHANGED <<vars, asset, aged, assets_swept, draft, transcript, removed, hand_edited>>

StoreTranscript(t) ==
    /\ At(t, "numbered") /\ Exists(t)
    /\ transcript' = [transcript EXCEPT ![t] = job[t].revision]
    /\ Goto(t, "stored")
    /\ UNCHANGED <<vars, asset, aged, assets_swept, draft, removed, hand_edited>>

\* READY after the transcript is stored, or after the extracted audio has been
\* uploaded and published.
MarkReady(t) ==
    /\ \/ At(t, "stored")
       \/ At(t, "processing") /\ job[t].fn = "extract"
    /\ Exists(t)
    /\ SaveStatus(t, "ready")
    /\ Goto(t, "return")
    /\ UNCHANGED <<vars, aged, assets_swept, draft, transcript, removed, hand_edited>>

\* The asset was deleted under the job: whichever statement touches it next
\* raises, and so does the attempt to save FAILED.
AssetVanished(t) ==
    /\ \E label \in {"start", "processing", "numbered", "stored"} : At(t, label)
    /\ ~Exists(t)
    /\ Goto(t, "raise")
    /\ UNCHANGED <<vars, asset, aged, assets_swept, draft, transcript, removed, hand_edited>>

JobEnds(t) ==
    /\ \/ job[t].pc = "return" /\ WorkerReturns(t)
       \/ job[t].pc \in {"raise", "no provider"} /\ WorkerRaises(t)
    /\ UNCHANGED ingestionVars

Job(t) ==
    \/ MarkProcessing(t) \/ ProviderMissing(t) \/ MediaFails(t)
    \/ ReadRevision(t) \/ StoreTranscript(t) \/ MarkReady(t)
    \/ AssetVanished(t) \/ JobEnds(t)

----------------------------------------------------------------------------
(* Cleanups.  All three look at created_at, not at how long the asset has  *)
(* been busy.                                                              *)

AgeAsset(a) ==
    /\ asset[a].ingestion_status # "absent"
    /\ a \notin aged
    /\ aged' = aged \cup {a}
    /\ UNCHANGED <<vars, asset, assets_swept, job, draft, transcript, removed, hand_edited>>

\* Defect: a status that is not an IngestionStatus.
GiveUpOn_Unknown(S) ==
    asset' = [a \in Assets |-> IF a \in S THEN [asset[a] EXCEPT !.ingestion_status = "timeout"]
                               ELSE asset[a]]

GiveUpOn(S) ==
    asset' = [a \in Assets |-> IF a \in S THEN [asset[a] EXCEPT !.ingestion_status = "failed"]
                               ELSE asset[a]]

stuck_assets == {a \in aged : asset[a].ingestion_status \in AssetBusy}

\* The first part of fix_stuck_tasks.
SweepAssets ==
    /\ sweep = "due"
    /\ ~assets_swept
    /\ GiveUpOn(stuck_assets)
    /\ assets_swept' = TRUE
    /\ UNCHANGED <<vars, aged, job, draft, transcript, removed, hand_edited>>

\* Its second part is BackgroundTasks' sweep.
SweepTasks ==
    /\ \/ SweepCount /\ assets_swept
       \/ SweepUpdate
    /\ assets_swept' = (sweep' # "idle")
    /\ UNCHANGED <<asset, aged, job, draft, transcript, removed, hand_edited>>

\* Opening the publish tab expires old busy assets, and busy streaming links
\* of any age.
OpenPublishTab ==
    /\ up # {}
    /\ GiveUpOn(stuck_assets \cup
                {a \in Assets : /\ asset[a].kind = "streaming"
                                /\ asset[a].ingestion_status \in AssetBusy})
    /\ UNCHANGED <<vars, aged, assets_swept, job, draft, transcript, removed, hand_edited>>

\* fix_stuck_extractions --apply (audio assets only).
FixStuckExtractions ==
    /\ GiveUpOn({a \in stuck_assets : asset[a].kind \in {"upload", "extraction"}})
    /\ UNCHANGED <<vars, aged, assets_swept, job, draft, transcript, removed, hand_edited>>

----------------------------------------------------------------------------
Restart == RestartContainer /\ assets_swept' = FALSE
           /\ UNCHANGED <<asset, aged, job, draft, transcript, removed, hand_edited>>

Environment ==
    /\ \/ \E t \in Tasks : Age(t)
       \/ \E w \in Workers : KillWorker(w) \/ BootWorker(w)
       \/ RunCommand
    /\ UNCHANGED ingestionVars

Run(t) == Watchdog(t) /\ UNCHANGED ingestionVars

IngestionNext ==
    \/ \E a \in Assets : AddAsset(a) \/ DeleteAsset(a) \/ AgeAsset(a)
    \/ \E t \in Tasks, w \in Workers, a \in Assets :
         SubmitTranscription(t, w, a) \/ SubmitExtraction(t, w, a)
    \/ \E u \in Authors : AuthorReadsRevision(u) \/ AuthorStoresTranscript(u)
    \/ \E a \in Patchable : PostAsset(a) \/ PatchAsset(a)
    \/ \E w \in Deletable : DeleteTranscript(w)
    \/ \E t \in Tasks : Run(t) \/ Job(t)
    \/ SweepAssets \/ SweepTasks \/ OpenPublishTab \/ FixStuckExtractions
    \/ Restart \/ Environment

IngestionSpec == IngestionInit /\ [][IngestionNext]_allVars

\* Every external call of a job has a timeout (1800 s downloads, 600 s ffmpeg,
\* the HTTP client's own), so a job step is eventually taken while its thread
\* lives.
IngestionFairSpec ==
    /\ IngestionSpec
    /\ \A t \in Tasks : WF_allVars(Run(t)) /\ WF_allVars(Job(t))

----------------------------------------------------------------------------
(* Properties.                                                             *)

\* A transcription the task page calls completed has stored its transcript.
CompletedHasTranscript ==
    \A t \in Tasks :
        row[t].status = "completed" /\ job[t].fn = "transcribe" => transcript[t] # NoRevision

\* A transcription the task page calls failed has left no transcript behind,
\* unless its asset was deleted between the insert and the READY save.  (A
\* PATCH may bring the row of the deleted asset back.)
FailedHasNoTranscript ==
    \A t \in Tasks :
        row[t].status = "failed" /\ transcript[t] # NoRevision
        => \/ asset[job[t].asset].ingestion_status = "deleted"
           \/ job[t].asset \in hand_edited

\* A linked asset whose status no API client has chosen is READY only if some
\* transcription of it stored its transcript, whatever the cleanups, retries
\* and overlapping jobs did.
ReadyLinkWasTranscribed ==
    \A a \in Assets \ hand_edited :
        asset[a].kind \in {"link", "streaming"} /\ asset[a].ingestion_status = "ready"
        => \E t \in Tasks : job[t].asset = a /\ transcript[t] # NoRevision

\* What the task page and the media tab say of a transcription agrees with the
\* transcripts that are stored.
RecordsAreTrue ==
    CompletedHasTranscript /\ FailedHasNoTranscript /\ ReadyLinkWasTranscribed

Lost(t) == worker[t] = "killed" \/ job[t].pc = "no provider"

\* PROCESSING is never a leftover of a job that ended by itself: some job is
\* still at work on the asset, or was killed, or found no provider, or an API
\* client chose the asset's status.
ProcessingHasCause ==
    \A a \in Assets \ hand_edited :
        asset[a].ingestion_status = "processing" =>
            \E t \in Tasks : job[t].asset = a /\ (worker[t] = "running" \/ Lost(t))

\* An asset that a job has taken up leaves PROCESSING, unless that job's
\* process was killed or its provider is not configured, or an API client
\* chose the asset's status.
ProcessingEnds ==
    \A a \in Assets :
        asset[a].ingestion_status = "processing" ~>
            \/ asset[a].ingestion_status # "processing"
            \/ a \in hand_edited
            \/ \E t \in Tasks : job[t].asset = a /\ Lost(t)

\* Revision numbers are handed out without gaps, even when writers race for a
\* number and the newest transcripts are deleted meanwhile.
RevisionsHaveNoGaps ==
    \A r \in Revisions(Writers) \ {NoRevision} :
        r = 1 \/ r - 1 \in Revisions(Writers)

\* The comment on the publish tab's expiry: it handles "orphaned rows that
\* survived container restarts", so it leaves alone a downloadable asset that a
\* live job is working on.
OnlyOrphansExpire ==
    [][OpenPublishTab =>
         \A t \in Tasks :
             At(t, "processing") /\ asset[job[t].asset].kind # "streaming"
             => asset'[job[t].asset] = asset[job[t].asset]]_allVars
=============================================================================
