# Producer: models and proofs

Producer is a Django application for podcast production: episodes move through an
editorial workflow, media is ingested and transcribed in background threads, AI drafts are
made and approved, vertical shorts are cut, audio is published to podcast platforms, and a
second-screen overlay is driven live during a recording. It runs as a few gunicorn worker
processes over one relational database. There is no task queue, no lock manager and no
cache: all coordination goes through database rows.

This directory holds TLA+ modules of that program, the TLC configurations that check
them, and TLAPS proofs. Lines below are `src/...` paths of this repository.

- [What is done](#what-is-done)
- [Inventory](#inventory)
- [The modules](#the-modules)
- [The runs](#the-runs)
- [Fairness](#fairness)
- [What is proved](#what-is-proved)
- [Disagreements between code and text](#disagreements-between-code-and-text)
- [What is left out](#what-is-left-out)
- [Plan](#plan)

To repeat the checks, in this directory:

    tlc -workers 2 -config BackgroundTasks.cfg MCBackgroundTasks
    tlc -workers 2 -config Studio.cfg MCStudio
    tlapm BackgroundTasks_proofs.tla
    tlapm Studio_proofs.tla

The other configurations and `*_proofs` modules are called in the same way; a configuration's
module is named in `PROJECT.json` under `runs`.

## What is done

| module | role |
|---|---|
| `TaskLifecycle` | abstract: what a task row promises to its pollers |
| `BackgroundTasks` | the task runner, process death and `fix_stuck_tasks`; implements `TaskLifecycle` |
| `BackgroundTasks_proofs` | TLAPS proofs about `BackgroundTasks` |
| `MediaIngestion` | composes `BackgroundTasks` with the transcription and extraction jobs, assets and transcripts |
| `MediaIngestion_proofs` | TLAPS proofs about `MediaIngestion`, on top of those about the tasks |
| `WorkflowHistory` | abstract: what the episode workflow promises when requests overlap |
| `EpisodeWorkflow` | status, checklist gate and overlay token; implements `WorkflowHistory` |
| `EpisodeWorkflow_proofs` | TLAPS proofs about `EpisodeWorkflow` |
| `ShortsRendering` | vertical shorts: queueing, rendering, edits |
| `ShortsRendering_proofs` | TLAPS proofs about `ShortsRendering` |
| `LocalEngine` | splice: engines on users' machines, heartbeats, the offline check |
| `SpliceJobs` | extends `LocalEngine` with processing jobs and the engine's reports |
| `SpliceJobs_proofs` | TLAPS proofs about `SpliceJobs` with its `LocalEngine` |
| `SpliceMedia` | splice: fingerprints, relinking, projects and render plans |
| `PodcastFeed` | platform records, publication, feed rebuilds that overlap |
| `FeedSettings` | the settings row of a feed, which also holds the YouTube connection |
| `Feed_proofs` | TLAPS proofs about `PodcastFeed` and `FeedSettings` |
| `RunOfShow` | segments, templates, the live segment |
| `RunOfShow_proofs` | TLAPS proofs about `RunOfShow` |
| `SecondScreen` | staff screens and overlays that show the live sponsor and its QR code |
| `GuestQuotes` | guests of an episode and the approval of their quotes |
| `ClipMoments` | clip markers and the form that takes their times twice |
| `ShowNotes` | AI artifacts, what the mock provider says, decisions, drafts |
| `Exports` | the export package and the queries it is built of |
| `Accounts` | access requests, invitations, and users made by the gateway's cookie |
| `Uploads` | presigned and direct uploads to the object store and their asset rows |
| `ShowRoles` | shows, role assignments, and the page on which administrators manage them |
| `MCStudio` | the instance of `SpliceMedia` and the parts after it, see below |
| `Studio_proofs` | TLAPS proofs about `SpliceMedia`, the parts after `RunOfShow`, and the whole of `MCStudio` |
| `MC*` | symmetry sets and small inputs for TLC |

## Inventory

Components, the state each keeps, its operations, its partners, what is hard about it,
and what makes it correct. Paths are below `src/production_ledger/` unless they begin with
`splice/`.

**Background tasks** (`services/tasks.py`, `management/commands/fix_stuck_tasks.py`, the
`BackgroundTask` model, `BackgroundTaskStatusAPI`). State: the task rows; per task, a
watchdog thread with its own copy of the row and a worker thread. Operations: submit,
mark running, join with timeout, re-read, decide, save; clean up after a restart. Used by
every long operation (transcription, extraction, shorts, TTS). Hard: timeouts racing late
results, a stale copy saved over a newer row, processes dying with their daemon threads, a
cleanup that goes by age. Correct when the row a page polls says what really happened to
the work, changes no more once it has ended, and ends.

**Media ingestion and transcription** (`services/transcription.py`,
`services/audio_extraction.py`, the publish and media tabs in `views.py`, the media and
transcript API, `fix_stuck_extractions`). State: `MediaAsset.ingestion_status`,
`Transcript.revision`. Operations: add, patch and delete an asset; transcribe; extract
audio; paste, upload and delete transcripts; three cleanups. Runs inside background tasks.
Hard: two jobs on one asset, deletion under a job, a crash between the statements of a
job, numbers computed by read-then-insert. Correct when the task row, the asset status and
the transcripts agree with each other and no asset stays in process for no reason.

**Episode workflow** (`models.Episode`, `EpisodeStatusView`, `EpisodeUpdateView`,
`EpisodePublishView`, `ControlRoomView`, `EpisodeStatusTransitionAPI`,
`EpisodeDetailAPI`, `ChecklistToggleView`). State: the episode row, its checklist items.
Operations: transition under role, table and gate; edit; save notes; publish; regenerate
the overlay token; PATCH; tick an item. Hard: read-modify-write of whole rows without
locks, so overlapping requests undo each other. Correct when an episode is approved or
published only behind a host and a complete checklist.

**Shorts pipeline** (`services/shorts.py`). State: clip moments, shorts with a render
status. Operations: identify moments, queue, render one, render all, edit, delete.
Identification runs inside background tasks or requests, rendering inside requests or a
command. Hard: two batches picking the same queue, a kill in the middle of a render, partial
inserts. Correct when READY means that the file is there,
a shared link stays, and RENDERING ends.

**Podcast distribution and feed** (`services/distribution.py`, the publish tab, `fix_feed`,
`rebuild_podcast_feeds`). State: a platform record per episode and platform, the feed file in
storage. Operations: publish an uploaded file or an asset, upsert each platform, rebuild the
feed in a background thread, a request or a command. Hard: rebuilds that overtake each other,
partial upserts. Correct when publishing never takes an episode out of the feed and the
platforms agree after a whole publication.

**Feed settings and YouTube** (`PodcastFeedConfig`, `services/youtube.py`). State: one row
with the feed's text, its address, and the YouTube token and channel. Hard: a rebuild and the
forms save the whole row long after they loaded it. Correct when a disconnected token stays away.

**Run of show** (segment and template views, `SegmentDetailAPI`, the Control Room).
State: segments with their orders, templates, `Episode.active_segment`. Hard: order by
read-then-insert, deletion of the live segment, full saves of the episode that carry it.
Correct when added segments differ in order and the live one exists and is the episode's.

**Second screen** (`SecondScreenView`, `_second_screen_state`, the QR views). State: the live
sponsor, and what each screen shows and keeps cached. Hard: a QR code is loaded after the
page. Correct when a code leads to the sponsor beside it.

**Guests and quotes**, **clip moments** (`views.py`, `api.py`, `forms.py`). State: the
approval of a guest's quotes; start and end of a clip. Hard: edits that save whole rows over a
decision; times that are posted as milliseconds and as text at once.

**AI drafts and show notes** (`services/ai.py`, artifact and show-note views). State: AI
artifacts and their approval, drafts. Hard: an artifact is used while its approval is being
withdrawn; the mock provider, the only one there is, chooses its answer by words in the prompt.
Correct when only approved output gets into a draft.

**Exports** (`services/exports.py`). No state: five files, each of several queries, while
others write. Correct when the files of one package agree.

**Accounts** (access and invitation views, `gateway_auth.py`). State: users, access requests,
invitations. Hard: accounts are looked up by address, which is not unique, and created in a
second step; the gateway brings an address into lower case, an invitation takes it as typed.
Correct when a person has one account, since two of one address lock their owner out.

**Storage and uploads** (`services/storage.py`, the upload API). State: objects by key,
asset rows. Hard: three steps of browser and server, any of which may fail and be retried.
Correct when an asset's object is there and is its own.

**Roles and permissions** (`permissions.py`, the page of roles, the creation of shows). State:
one role per show and user. Hard: a request's sender is checked before its step, by rows that an
overlapping request may delete; the page names rows by keys of an older copy. Correct when a
show keeps an administrator. `can_transition_status` is part of `EpisodeWorkflow`.

**Splice: local engines** (`splice/services/local_engine.py`, `splice/authentication.py`).
State: engines, heartbeats, sessions. Hard: the offline check decides on a heartbeat it read
earlier; a PATCH saves an old heartbeat back. Correct when an engine that reports stays online.

**Splice: processing jobs** (`splice/views.py`). State: jobs with status and priority.
Hard: nothing claims a job that is handed out; users cancel and confirm under the engine's
reports; engines stop. Correct when a job under way has somebody who works on it and a waiting
one is taken.

**Splice: media and render plans** (`splice/services/media.py`, `render_plan.py`). State:
fingerprints, locations, project revisions, plans. Hard: hashes of parts of files; plans that
are compared and rendered after the project changed. Correct when only the original is
relinked and equal plans render alike.

**Audio extraction and TTS commands, comments, e-mail, error reporting, admin, templates,
the legacy logic service**: calls of external services, formatting, or declarative code. What
they can do to the rest is an outcome of the handler that calls them.

The hazards of this code, each with its line and the properties that watch it, are listed
in `PROJECT.json`; those without a property say why.

## The modules

### BackgroundTasks

One `row` per task stands for the `BackgroundTask` table (`absent` before the insert).
Timestamps are null or set, an error message is named by the statement that composed it.
The watchdog thread is a program counter (`watchdog`) with its local copy `task_obj`:

| action | code (`services/tasks.py`) |
|---|---|
| `run_background_task` | insert of the pending row, start of the daemon watchdog |
| `WatchdogFetch`, `WatchdogMarkRunning` | first `get`, save of status and started_at, `worker.start()` |
| `JoinReturns`, `JoinTimesOut` | `join(timeout)`, then the re-read and the return if the row has ended |
| `WatchdogDecide` | `is_alive()` and `exc_holder` cascade, on the copy |
| `WatchdogSave` | save with `update_fields`, which writes over whatever the row then holds |
| `WorkerReturns`, `WorkerRaises` | the end of `fn`; it may also hang |

Every database statement is its own transaction (the settings leave autocommit on), so
each is a step of its own. `is_alive()` is asked in `WatchdogDecide`, not when the join
ends: a worker that ends just after the timeout counts as ended. `KillWorker`,
`RestartContainer` and `BootWorker` are gunicorn and the container; both threads of a task
die with their process. `SweepCount` and `SweepUpdate` are the two queries of
`fix_stuck_tasks` with a cutoff fixed when it starts; `old` is the set of tasks behind the
cutoff of a command that starts now. `CleanupWhileServing` says whether the command may run
while workers are up: FALSE is what its docstring says of it ("run on startup"), TRUE is what
its code permits.

No script in the repository calls the command: `ops/startup.sh:274`,
`scripts/docker-entrypoint.sh:33` and the README's start line start gunicorn alone. The
properties that need the command are therefore about the deployment that its docstring describes.

`TaskLifecycle` is the promise to a poller: absent, pending, running, one terminal status,
and then nothing. The refinement mapping is the row's status.

### MediaIngestion

Extends `BackgroundTasks` and adds the two tables and the local state of `fn`. A `Job`
step needs `worker[t] = "running"`, so a kill stops the job where it is; the job's last step is
`WorkerReturns` or `WorkerRaises`. The job goes on after a join timeout, as the thread
does. The steps of `transcribe_media_asset` (`services/transcription.py`) are its database
statements: PROCESSING saved; provider looked up, which may raise outside the `try`; media
fetched and transcribed, or failed and FAILED saved; highest revision read; transcript
inserted; READY saved. `update_fields` saves of a row that is gone raise
(`AssetVanished`). `_run_extraction` of the publish tab shares the steps without the
transcript. Nothing checks `ingestion_status` before a job is submitted, and
`SubmitTranscription` does not either.

`asset` keeps the kind of an asset as far as the cleanups treat kinds differently.
`SweepAssets` is the first part of `fix_stuck_tasks`, `OpenPublishTab` the expiry in the
publish tab's GET, `FixStuckExtractions` the command with `--apply`. `transcript` maps each
writer to the number it stored; `removed` are those deleted since.

`PostAsset` and `PatchAsset` are the generic asset API, whose serializer leaves
`ingestion_status` writable. A POST inserts a row in any status, READY and PROCESSING without a
job among them. A PATCH writes every column of an old copy; because the request may be
arbitrarily slow, the row may get any status, and a row that was deleted in between comes back.
`hand_edited` records both (a POST as PENDING, the default, is like any other insert): what
the properties say of job outcomes is about the other assets. `ReadRevision` also admits transcription of an
extraction row that has no URL yet, which the code would answer with FAILED: the model has
more behaviours than the code there.

### EpisodeWorkflow

`episode` is the row (status and overlay token; the other columns follow the same saves).
A request loads a copy, decides on it, and saves; `request[r]` holds the copy.

| action | code |
|---|---|
| `EpisodeStatusView` | status page and status API: role and table checked on the copy |
| `EpisodePublishView` | the publish tab: acts when its copy is approved, then uploads for minutes |
| `CheckGate` | the checklist query in `transition_to`; refusal ends the request |
| `SaveTransition` | `save()` of the whole copy |
| `EpisodeUpdateView`, `SaveEdit`, `SavePlain` | the edit form saves its copy twice |
| `save_notes`, `SavePlain` | the Control Room's notes |
| `EpisodeDetailAPI`, `SavePatch` | PATCH and PUT: status is one of the serializer's writable fields |
| `regenerate_overlay_token`, `SaveToken` | save with `update_fields` of the token |
| `ChecklistToggleView` | ticks or unticks an item |

`reached`, `host_acted`, `ever_complete` and `patched` are history variables.
A toggle reads an item and saves it later; one that overlaps another writes the value
that is there already or the opposite one, so it is a stutter or a toggle.

`WorkflowHistory` is what remains true in spite of lost updates: the set of statuses ever
reached grows along the chain one neighbour at a time, and approved and published are in it
only when a host has acted and the checklist has been complete. After a PATCH
(`Override`) it promises nothing.

### ShortsRendering

`short` is the `VideoShort` table of one episode (status, link, error), `stored` the files in
Spaces, and `request[r]` what a request, background thread or command is doing, with the
shorts it has yet to render (`todo`), the one at hand (`at`) and, for a PATCH, its copy.

| action | code |
|---|---|
| `identify_and_queue_shorts`, `QueueShort`, `QueueingEnds` | one insert per clip; a clip that does not parse, or a failed insert, ends it |
| `render_all_queued_shorts`, `SourceArrives`, `SourceFails` | queued shorts listed once, then the source is downloaded for all of them |
| `RenderShortAPI` | one short, in any status |
| `MarkRendering`, `SkipDeleted`, `MarkUploading` | `save(update_fields=...)`, which raises when the row is gone |
| `Upload`, `SaveReady` | upload, then a full `save()`, which inserts the row again if it was deleted |
| `RenderFails` | the `except` of `render_short`: FAILED and the error, nothing else |
| `LoadPatch`, `SavePatch`, `Delete` | the detail API; PATCH saves every column of its copy |
| `Kill` | the process ends, or gunicorn's `--timeout` does it |

Nothing claims a short. The docstring of `render_short` says "must be QUEUED or FAILED"; no
caller checks, so the model does not either. `patched` and `cut` are history variables: shorts
that a PATCH has written, and shorts whose render was killed. Background threads are requests
here; what their task rows say is `BackgroundTasks`. The run does not check for deadlock, because an
episode whose shorts are all deleted, with no row left to insert within the bound, has nothing to do.

### LocalEngine and SpliceJobs

`engine` is the table of engines, with the heartbeat as never, recent or old; `agent` is the
program on the user's machine; `request` holds, for a call in flight, the row and the copy it
will save.

| action | code (`splice/`) |
|---|---|
| `register_engine`, `CreateEngine` | the name is looked up, then the row inserted |
| `authenticate` | every call of an engine writes heartbeat and online flag (`authentication.py`) |
| `check_engine_offline`, `MarkOffline` | the heartbeat is read, then `is_online` saved |
| `LoadEngine`, `SaveEngine`, `DeleteEngine` | the generic API; PATCH saves all columns, DELETE cascades |
| `create`, `InsertJob` | submission to any engine that is online |
| `LoadJob`, `SaveJob` | PATCH of a user |
| `confirm`, `SaveConfirmed`, `ReleaseJob` | two saves by column; the status is never looked at |
| `heartbeat` | the ten first waiting jobs of the engine, by priority and age |
| `Report`, `partial_update` | the engine's own PATCH, load and save |
| `EngineStops`, `EngineStarts` | the program, which is not in this repository |

Nothing in the repository calls `check_engine_offline`; the model takes it to be called at any
time. `excused` is a history variable: jobs whose engine stopped over them,
or that a user's PATCH wrote; nothing in the code ever corrects their status.

### SpliceMedia

A file is the sequence of its bytes, a hash is the bytes it covers. `compute_fingerprints`
follows the code's loop, which compares the *size of a digest*, a constant, with the number of
bytes wanted, and so covers the whole file or nothing. `match_fingerprints`, `relink_media`,
`get_location_for_asset` and the three functions on plans are operators; projects are edited,
arranged and undone between the creation of two plans. A plan lists its assets in the order in
which the database returned them, and for an asset that is second in several sync points it
keeps the offset of the last row; both orders are the database's choice.

### The other parts

Each module has the same shape: tables as functions from rows, a `...Call` variable for what
each request holds between its read and its write, and history variables only where a property
has to name the overlap in which the code promises nothing.

| module | what is kept of the code |
|---|---|
| `PodcastFeed` | `update_or_create` per platform in order, `_build_rss_feed` as a query, the upload as a step after it; a call may end anywhere |
| `FeedSettings` | which statements save the whole row and which a column; the OAuth callback loads the row, gets a new token or none (`prompt='consent'` in `views.py:448` makes a new one the usual case), saves that or the token of its copy, then asks Google, then saves the channel |
| `RunOfShow` | the row lock of the segments tab, the API without it, foreign keys that fail or become null, `clean` of the forms |
| `SecondScreen` | staff screens poll and take the code of the sponsor they show; an overlay's poll has no token and fails, and its code has one URL per episode that is cached for 300 s |
| `GuestQuotes` | every edit writes all columns of its copy; approving is one of them; the page inserts a guest as pending, the API's POST with any status |
| `ClipMoments` | `clean()` of the form with its truth tests (zero counts as missing), `_time_to_ms`, `_ms_to_time`; the API checks neither |
| `ShowNotes` | the prompt of each type by its key words, the mock provider's order of tests, approval read before a draft is inserted |
| `Exports` | which query each file makes, in order, with writes in between |
| `Accounts` | get-then-create in the middleware with the address in lower case (`Canonical`), `get_or_create` with the address as typed and under another username in the invitation, lookups that raise on two rows |
| `Uploads` | keys with and without a random prefix, presign, PUT, publish, insert, and failure between them |
| `ShowRoles` | the page of roles: check of the sender, then insert (which raises on a second row of a user) or delete by key; shows made by the page and then given their administrator, or by the API without one; DELETE with its cascade |

`MCStudio` instantiates `SpliceMedia` (in two halves, its files and its plans) and these
modules side by side. They share no variable: where two of them look at one table of the code
(the live segment in `RunOfShow` and `SecondScreen`, the tables an export reads, the feed
rebuild in `PodcastFeed` and `FeedSettings`), each has a variable for what it sees of it, which
others may change at any time. So their steps commute, no property relates two of them, and a
behaviour of the run picks one part at the start (`part`): interleaving the parts would
multiply the states and reach no new state of any one of them.
The runs `splice` and `studio` do not check for deadlock: once all rows of an instance are used up and
deleted, nobody has anything left to do.

## The runs

| run | states | bounds |
|---|---|---|
| `tasks` | 6,600 | 2 tasks, 2 workers, cleanup before gunicorn, symmetry |
| `tasks_serving` | 27,538 | 2 tasks, 1 worker, cleanup at any time, fairness |
| `tasks_orphans` | violation | 2 tasks, 1 worker, fairness |
| `ingestion` | 2,133,297 | 2 jobs, 1 worker, 1 asset, posted or patched once by the API |
| `ingestion_serving` | 875,424 | 1 job, 2 authors, 1 asset, posted or patched once by the API, a transcript deleted, cleanup before gunicorn, fairness |
| `ingestion_expiry` | violation | 1 job, 1 asset |
| `workflow` | 473,785 | 2 requests, 1 required item, 1 new token, PATCH to published |
| `workflow_gate`, `workflow_token` | violation | the same |
| `shorts` | 579,852 | 2 shorts, 2 requests, one short patched once, fairness |
| `splice` | 381,013 | 1 engine, 2 jobs, answers of 1 job, 1 request of a user or the service and 1 of the engine, 2 edits, fairness |
| `studio` | 868,791 | 2 overlapping calls in each part; 1 or 2 rows of each table, 3 users, 2 spellings of an address, 3 uploads, 2 plans of 3 timelines over 2 assets, files of up to 5 bytes |

What the passing runs show:

- `VerdictMatchesOutcome`: completed means that `fn` returned and failed that it raised, with
  kills, timeouts and late ends in between; `VerdictCorrect` proves it for a concurrent cleanup too.
- `NoAbandonedRow`: a row in progress has a live watchdog or one killed with its process.
- `RowConsistent`, `EndedOnceByItsJudge`: with the cleanup before gunicorn, the
  fields of a row agree, an ended row changes no more, and only orphans are given up on.
  Both fail when the cleanup runs while workers serve (`started_at`, `status` and
  `error_message` then come from two writers); that is why they are in `tasks` only.
- `VerdictIsFinal`: what a watchdog concluded stays even then, because `update()` evaluates
  its filter again.
- `PollerIsAnswered`: a poller reads a terminal status even when `fn` hangs, unless the
  process died.
- `ImplementsLifecycle`, `ImplementsHistory`: refinement of the abstract specifications.
- `RecordsAreTrue`, `ProcessingHasCause`: task rows, asset statuses and transcripts agree with
  two jobs on one asset, deletion, timeouts, cleanups and restarts in any order. Of an asset
  whose status an API client chose, in a POST or a PATCH, all that is promised is that a
  completed transcription has stored its transcript.
- `RevisionsHaveNoGaps`: racing writers may share a revision number (no constraint forbids
  it), but no number is skipped.
- `ProcessingEnds`: PROCESSING is left, unless the job was killed or found no provider, or an
  API client wrote the status.
- `JumpNeedsStaleCopy`: a status leaves the table only by a lost update, never by a
  decision.
- `ReadyIsPlayable`, `LinkStays`: a READY short has its link and its file, and a published link
  goes only by a PATCH with an older copy, although two requests may render, fail, edit,
  delete and insert the same short.
- `BusyHasCause`, `RenderingEnds`: RENDERING and UPLOADING end by themselves; what remains
  was killed or put back by a PATCH. Nothing in the code ever picks such a short up again.

- `OfflineHasCause`, `ProcessingHasWorker`, `WaitingIsTaken`: an engine that reports in time
  and is not edited stays online; no job is left under way without its engine, unless that
  stopped or a user wrote the status; a waiting job is handed out behind others.
- `RelinkedIsOriginal`, `SoundPlans`: a moved file is recognised only by its own bytes, in spite
  of the hash loop (except where it covers nothing: files of 10 to 329 bytes); a plan that
  validates finds its media (except sources of type `generated`, which no lookup tries), and
  plans that compare as equal validate alike and have blueprints that differ in `plan_id` and
  `revision` only: the two fields of a blueprint that name its plan.
- `PlatformsAgree`, `EpisodesStay`: after a whole, undisturbed publication all platforms have its
  audio; an episode leaves the feed only by a rebuild that was overtaken.
- `TokenIsLast`: the YouTube token is that of the last connect or disconnect, unless a full save
  of the settings, or another callback that may get no new token, was under way.
- `PlacedOrdersDiffer`, `ActiveIsOwn`: the lock of the segments tab works, and the live segment
  is one of the episode's, except one that the API moved away.
- `CodeIsTheSponsors`: a QR code leads to the sponsor beside it; on an overlay only while the
  live sponsor has not changed since it was loaded.
- `DecisionStands`, `UsedWasApproved`: decisions are lost only to requests that held the row; what
  gets into a draft was approved, and reads as show notes.
- `PackageAgrees`: the files of a package agree on every table nobody wrote meanwhile.
- `OneAccountPerAddress`: a person has one account, although the gateway and invitations name
  accounts differently and only the username is unique. Two invitations of one address at once,
  or two visits that have settled on one username, still make one account; the exceptions are a
  request that was creating one under another username when the first was inserted, and an
  invitation typed in a spelling that is not canonical.
- `ClipsRun`: a clip that forms wrote ends after it starts, and the form shows times that it
  would read as the same.
- `AdminsStay`: the page of roles never takes the last administrator of a show, unless that one
  or a superuser asked for it, or an overlapping request had just removed the one who asked.
- `AssetHoldsItsUpload`: the object of an asset is there, public when its user has been told so,
  and its own unless it went through the server under the name of another.

Why the bounds are enough. Tasks share nothing but the cleanup, so two tasks show a
verdict saved between its `count()` and `update()`. Two workers are needed so that one
can be killed while another serves; with the cleanup at any time one suffices, because a
dead one is replaced. Two jobs on one asset show every overlap of two writers of one
status; a third adds another copy of the same race. Two requests suffice for a lost
update; sequences of them are unbounded because a finished request begins another.
One required item suffices for the gate, which asks only whether all are ticked. Two
shorts make a batch with a next one, two requests render the same short twice or one under
the other's edit. For the jobs, an answer of one job makes the second wait behind the
first, and one edit can follow another. In the studio's parts a property speaks of one row or
two, and two requests are the overlap it excuses or survives; a third user row shows a second
account; three members, two assignments and two shows let two administrators remove each other
and one show's page name a row of the other; two uploads share a name and a third repeats one; two lists of cuts, none and two, are
below and above the one input of the blueprint, one timeline has a sync point and one has both
assets; two spellings are a canonical one and another; files of four and five bytes lie on the two
sides of what the scaled hash covers. The theorems
below remove these bounds for every invariant and action property that a passing run checks;
only the liveness properties rest on them.

Every property has a mutant in `PROJECT.json`: a plausible mistake in one definition
(defined beside it, with a comment that begins "Defect") that makes TLC report that property.

## Fairness

`FairSpec` is fair to watchdog threads (the operating system runs them, and the timed join
returns), to `BootWorker` (gunicorn replaces its workers), to `Age` (time passes) and to the
steps of a started cleanup. `SweepUpdate` is strongly fair: a restart may cut a command
short, but not every time. `fn` is not assumed to end; nobody is assumed to submit, kill or
restart. `IngestionFairSpec` is fair to the watchdog and the job steps: a job's external
calls carry timeouts (downloads 1800 s, ffmpeg 600 s, the HTTP clients their own), so a job
whose process lives takes its next step. In `ShortsRendering` a request renders on or is
killed: ffmpeg has 600 s and the Spaces client its timeouts; the download of the source has none, but
when it happens after a short was marked, it is inside a request that gunicorn kills after
`--timeout`, and the command downloads before it marks any short.

In `SpliceJobs` an engine whose program runs sends its heartbeats and reports, and a report
that has begun is saved: the engine loops on a timer and requests end. Nobody is assumed to
submit, confirm or start anything. The parts of the studio state no liveness.

## What is proved

Each invariant and each action property of a passing run has a theorem, which holds for every
value of the constants that meets the assumptions named in the modules; they are collected in
[the assumptions](#assumptions-on-the-constants). The proofs are laid out alike: an inductive
invariant, a lemma for the initial states, one step for each action, and a temporal step that
combines them. The `Start` and `Step` lemmas, and the conjuncts of each invariant, are named
for what they say.

`BackgroundTasks_proofs` holds for every set of tasks and workers. The only
assumptions are those named in `BackgroundTasks` and, where stated,
`CleanupWhileServing = FALSE`.

| theorem | states |
|---|---|
| `TypeCorrect` | `Spec => []TypeOK` |
| `VerdictCorrect` | `Spec => []VerdictMatchesOutcome` |
| `NothingAbandoned` | `Spec => []NoAbandonedRow` |
| `VerdictStaysFinal` | `Spec => VerdictIsFinal` |
| `RowsConsistent` | `Spec => []RowConsistent`, cleanup before gunicorn |
| `TasksEndOnce` | `Spec => EndedOnceByItsJudge`, cleanup before gunicorn |
| `LifecycleImplemented` | `Spec => ImplementsLifecycle`, cleanup before gunicorn |

The argument. `VerdictMatchesOutcome` is not inductive: the row becomes completed by a
save of a copy that was decided on earlier. `Inv` adds `Threads` (which program counters
of the two threads go together) and `Decided` (a watchdog that has decided holds a copy whose
status fits how the worker ended; a worker that has ended does not change its mind). For the rows
themselves, `SerialInv` adds `Served` (while the cleanup is due or counting, no process is up, so no
watchdog lives), `OneWriter` (a live watchdog's row is in the status that the watchdog put it in)
and `FreshCopy` (the copy is the row). With these a save never meets a row that somebody
else ended, so each step maps to a step of `TaskLifecycle` or to a stutter. `VerdictIsFinal`
needs no such assumption: `JudgedInv` says that a live watchdog's row has not been judged.

`EpisodeWorkflow_proofs` holds for every set of requests, items, patched statuses and bound
on tokens.

| theorem | states |
|---|---|
| `WorkflowTypeCorrect` | `Spec => []TypeOK` |
| `JumpsAreLostUpdates` | `Spec => JumpNeedsStaleCopy` |
| `HistoryImplemented` | `Spec => ImplementsHistory` |

The argument. A jump can come only from a copy, so the invariant `Decision` records what is
known of every request's copy: its target was in the table for the copy's status, and an
approval was asked for by a host or the copy was approved already. `Grounded` adds that, until
a PATCH, every copy's status has been reached, that a request past the gate has seen a
complete checklist, and that approved and published were reached behind both.

`ShortsRendering_proofs` holds for every set of shorts and requests.

| theorem | states |
|---|---|
| `ShortsTypeCorrect` | `Spec => []ShortsTypeOK` |
| `ReadyPlays` | `Spec => []ReadyIsPlayable` |
| `BusyIsExplained` | `Spec => []BusyHasCause` |
| `LinksStay` | `Spec => LinkStays` |

The argument. A PATCH writes back what it read, so what holds of the rows has to hold of the
copies (`Copies`), whatever has happened to the row since; this works because nothing ever
removes a file from `stored`. `AtHand` says that a request knows its short, and has
uploaded when it says so. Most steps replace one row and move one request: `RowStep` proves
those once.

`MediaIngestion_proofs` holds for every set of tasks, assets and authors, with the cleanup
before gunicorn or at any time.

| theorem | states |
|---|---|
| `IngestionRunsTasks` | `IngestionSpec => Spec`, the task runner's |
| `IngestionTypeCorrect` | `IngestionSpec => []IngestionTypeOK` |
| `RecordsTrue` | `IngestionSpec => []RecordsAreTrue` |
| `ProcessingCaused` | `IngestionSpec => []ProcessingHasCause` |
| `NoRevisionGaps` | `IngestionSpec => []RevisionsHaveNoGaps` |

The argument. Each step of the composition is a step of `BackgroundTasks` or leaves its
variables alone, so `Inv` and all theorems about tasks carry over. `RecordsAreTrue` relates
a row to a transcript, between which stand the worker thread and its place in `fn`:
`JobThreads` ties the place to the thread and `JobTranscripts` ties transcripts to places,
while `VerdictMatchesOutcome` ties the row to the thread. `ProcessingAttended` is the
stronger form of `ProcessingHasCause`, which names the job. A revision number is computed in
one step and stored in another, and rows may be deleted in between; `NumbersFollow`
therefore says of the numbers that are still on their way, too, that they follow a number
once stored.

`SpliceJobs_proofs` holds for every set of engines and requests and every finite set of jobs
(`SpliceJobs` orders waiting jobs by a position that counts them).

| theorem | states |
|---|---|
| `SpliceTypeCorrect` | `Spec => []SpliceTypeOK` |
| `OfflineCaused` | `Spec => OfflineHasCause` |
| `JobHasOneEngine` | `Spec => []OneOwner` |
| `JobKeepsItsEngine` | `Spec => [][OwnersStay]_vars` |
| `ProcessingWorked` | `Spec => []ProcessingHasWorker` |

The argument. `ProcessingHasWorker` relates the row of a job to the program on the user's
machine, which report to each other with requests that may overlap a PATCH's older copy. The
difficulty is identity: a deleted row comes back when an older copy is saved. `OneOwner`
says that the row, all copies of it and the program that has the job name one engine, and
`OwnersStay` that no step hands the job to another. With these, `ReportsMatch` says that a
report on its way is the only one of its job and is what its engine waits for, so saving it
moves row and engine together.

`RunOfShow_proofs` holds for every set of episodes, segments, templates and requests.

| theorem | states |
|---|---|
| `ShowTypeCorrect` | `ShowSpec => []ShowTypeOK` |
| `PlacedDiffer` | `ShowSpec => []PlacedOrdersDiffer` |
| `ActiveOwn` | `ShowSpec => []ActiveIsOwn` |

The argument. `AddsAbove`: a request that adds a segment to an episode is alone in it, by the
lock that the tab takes, and its order is above every placed one. `CallsOK`: the copy that
a request will write to the live segment's column names a segment of that episode, or one that the
API moved, or one that has been deleted. The deletion nulls the column but not the copies; saving
such a copy fails at the foreign key, since the deleted row's key is not given out again.

`Feed_proofs` holds for every list of platforms and every set of episodes, audios and calls.

| theorem | states |
|---|---|
| `PlatformsAlike` | `FeedSpec => []PlatformsAgree` |
| `EpisodesRemain` | `FeedSpec => EpisodesStay` |
| `TokenLast` | `SettingsSpec => []TokenIsLast` |

The argument. `Alone`: a publication that nothing overlapped is the only one of its episode
and has written every platform that it does not have before it. `Later`: the rows only ever put
episodes into the feed, so of two calls the one that listed later lists at least as
much; the history `ahead` holds which of two calls that are uploading has listed first.
`CopiesHoldToken`: unless the token changed under a full save, every copy that will be saved
has the last one.

`Studio_proofs` holds for every set of rows, users and requests of each part.

| theorem | part | states |
|---|---|---|
| `DecisionsStand` | guests | `GuestSpec => []DecisionStands` |
| `CodesMatch` | screens | `ScreenSpec => []CodeIsTheSponsors` |
| `AssetsHold` | uploads | `UploadSpec => []AssetHoldsItsUpload` |
| `ClipsInOrder` | clip moments | `ClipSpec => []ClipsRun` |
| `PackagesAgree` | exports | `ExportSpec => []PackageAgrees` |
| `UsedApproved` | AI drafts | `NotesSpec => []UsedWasApproved` |
| `OneAccountEach` | accounts | `AccountSpec => []OneAccountPerAddress` |
| `AdministratorsStay` | roles | `RoleSpec => AdminsStay` |
| `RelinksAreOriginal`, `PlansSound` | splice media | `MediaSpec => []RelinkedIsOriginal`, `[]SoundPlans` |
| `StudioRunsParts` | all | `StudioSpec` implies the specification of each part |
| `StudioTypeCorrect` | all | `StudioSpec => []StudioTypeOK` |

The argument is the same in most parts: requests hold copies of rows, so the invariant says of
every copy what the property says of the rows, except of those that a history variable notes as
raced.

- Guests: a copy that will be saved over an uncontested row carries the decision (`CopiesStand`).
- Screens: an overlay that saw no change has cached the live sponsor or nothing (`OverlaysFollow`).
- Uploads: keys of different kinds differ, so an object is stored by an upload of its own key
  (`StoredByItsOwn`); what a browser was told of is there and public (`PutIsThere`).
- Clip moments: writing out a time and reading it back loses less than a second, for every
  time (`TimesRoundTrip`, `TimesParse`); the copies that forms hold run forwards too.
- Exports: an answer about a table not written since the package began is what a query would find
  now (`AnswersPresent`); it does not matter which files ask.
- AI drafts: the status on which a request uses an output was the last decision's when it
  looked (`NotesInv`, where `ruling` is what was last decided), and nothing that happens later
  unmakes that (`ApprovedStays`); the provider answers the prompt of show notes with show notes
  unless the subject contains the word it looks for first (`SaysShowNotes`).
- Accounts: an address nobody contends for has at most one account, and once it has one, whoever
  is still creating another has chosen the username that is now taken (`OneOrCreating`); an
  account under a spelling that is not canonical is an invitation's (`GatewayIsCanonical`).
- Roles: a removal that is under way was asked for by someone who was an administrator when the
  page checked, and an assignment's key names one row (`OneRowEach`), so a removal takes
  one role; the property names the cases in which that was the last one's.
- Splice media: files of one size and one partial hash are equal where the hash reads
  anything (`MatchMeansSame`); what an asset is linked to matches its fingerprint (`LinksMatch`).
  What the comparison of plans leaves out, the loudness preset, is one constant in every plan
  (`PlansAreSound`).

`StudioNext` lets one part move at a time. `StudioRunsParts` shows that such a behaviour is
one of each part with stuttering, which is why checking and proving the parts separately loses
nothing.

### Assumptions on the constants

Most say that a placeholder is not a value (`NoWorker`, `NoAsset`, `NoShort`, `NoObject`, `None`,
`Nobody`, `NoOne`, `Nothing`, `Blank`, `Nil`, `Removed`): it stands for a column that is null, a row or an
object that is not there. That a bound is a natural number (`MaxTokens`, `MaxTouches`, `MaxVideos`,
`MostDrafts`, `LastNumber`, `LastOrder`, `LastRevision`) concerns the model only; there is none in the code. The
others are about the code:

- `FeedConstants`: there is at least one platform; the list is
  `PodcastPlatform.CHOICES`.
- `EditsAssumption`, `PatchedToAssumption`, `AskedTypes`, `RoleConstants`: serializers and forms
  accept the choices of a field only. A priority is any natural number: the field has no maximum.
- `AuthorsAssumption`: a task's thread and a user who pastes a transcript are two writers.
- `OrdersAssumption`, `ClipConstants`: orders and milliseconds are not negative, the parts of a
  typed time are digits.
- `CanonicalAssumption`: lower case and the removal of blanks, done twice, is the same as once.
- `MediaConstants`: files are sequences of bytes; the divisor of the hash's step (10) is at most
  the chunk that it reads (1 MiB); a timeline has finitely many clips, and its clips and sync
  points are of the project's assets (foreign keys).
- `JobsAssumption`: there are finitely many jobs.

### Only model-checked

`PollerIsAnswered`, `ProcessingEnds`, `RenderingEnds` and `WaitingIsTaken`: they hold under
fairness, and the prover reasons about neither fairness conditions nor `ENABLED`. The four runs
that end with a violation are counterexamples and have nothing to prove.

## Disagreements between code and text

Each has a run that TLC ends with a violation.

- `tasks_orphans`: `fix_stuck_tasks` is said to mark tasks interrupted by a restart, but takes
  only those older than `--minutes`. A task submitted shortly before the restart is passed over
  and stays pending or running until the command runs again.
- `ingestion_expiry`: the publish tab says that it expires orphaned rows; it goes by
  `created_at`, and fails an old asset under a live job.
- `workflow_gate`: the README's gate items are required before an episode goes live; the API's
  serializer accepts `status: published` without the gate.
- `workflow_token`: regenerating the overlay token is to revoke the old URL; a request that
  loaded the episode before saves the old token back.

Also seen:

- `FinalizeShowNotesView` and `ShowNoteFinalAPI` (`api.py:648`) use `created`, which is not
  bound, past their checks: finalizing show notes always raises.
- `publish_to_youtube` in the publish tab names a platform that the constants do not have, after
  the video is uploaded: no row tells of it, and a retry uploads it again.
- `api.py:1604` uses an undefined `logger`: when publishing an object fails, the asset exists and
  the user is told of an error.
- The clips tab's form posts neither of its two hidden required fields, so it always answers
  with an error; a start of 0 ms counts as missing (`forms.py:588`).
- The JSON export of an episode that has an `episode_type` raises (`services/exports.py:60`).
- `second_screen.html:107` polls a URL without the overlay's token.
- Prompts for segment suggestions and for chapters contain words that the mock provider looks
  for first, so it answers with questions and titles.
- The login after an accepted invitation raises, because several backends are configured; the
  invitation has been accepted and the password set by then.
- `increment_revision` (`splice/models.py:96`) gives one number to two callers; `confirm`
  (`splice/views.py:400`) re-opens finished jobs; a job's priority is described as "0=highest"
  (`splice/models.py:1448`) and sorted the other way (`splice/views.py:162`), and any larger
  number is stored.
- An invited `Ann@x.com` who later comes by the gateway gets a second account: the gateway looks
  up `ann@x.com` (`gateway_auth.py:58`), the invitation stored the address as typed
  (`views.py:2905`).
- `POST /api/episodes/<id>/media/` inserts an asset as READY or PROCESSING without any job
  (`api.py:321`), and nothing but a cleanup ever takes the second away; a guest may be
  inserted with quotes already approved (`api.py:289`).
- Two plans of an unchanged project with two assets, or with two sync points of one second asset,
  may list the assets in another order or keep another offset, and so compare as different: the
  queries name no order (`render_plan.py:55`, `render_plan.py:94`).
- A concat filter may name more inputs than the one that the blueprint has
  (`render_plan.py:218`).
- `RequestShowJoinView` (`views.py:3113`) sets `requested_by`, which the model does not have, and
  leaves the required `user` empty: a request to join is never stored. The form for it never
  shows either: whoever may see a show has a role on it (`views.py:362`).
- A show made through the API has no administrator until a superuser assigns one.
- `CommentSyncView` (`views.py:3345`) creates a `BackgroundTask` with fields the model does not
  have and raises before it stores anything.

## What is left out

- A database error inside the watchdog: nothing catches it, the thread dies and the row
  stays in progress. It would be one more way to lose a watchdog, like a kill.
- Text of messages, timestamps beyond null or set, result payloads, progress output.
- Media bytes, ffmpeg, providers, HTTP: an outcome of the step that calls them.
- Episode creation and deletion, seeding of checklist items. An episode
  created through the API has no items, which is `Items = {}` here: its gate is open.
- The artifact and the clip moments that identification inserts with each short; a lost edit of
  a short's title under a full save.
- Roles outside `ShowRoles`: the other handlers are modelled as they run for a user who may call
  them. Overrides for an episode are written by the admin site only.
- Error reporting: no setting defines the repository and token it needs, so every report is
  refused. Comments: their synchronisation raises before it stores anything.
- Sessions between browser and engine: a row is inserted once and then only read.
- ffmpeg, text to speech, e-mail, templates, the admin site (which writes a row like the
  modelled PATCH), the legacy service.

## Plan

Every invariant and action property is proved; the model needs no further module for that.
What could still be said by proof:

1. Splice: that a finished job is never handed out again except after a confirmation or a PATCH,
   as an action property that `OneOwner` and `ReportsMatch` support; TLC first.
2. An abstract specification of the processing jobs, as `TaskLifecycle` is for the tasks
   (waiting, taken, under way, ended), and the proof that `SpliceJobs` implements it until a user
   edits or confirms a job.
3. The step lemmas of the studio's parts that write one row and end one request repeat each
   other; as one lemma about functions that are updated at a point they would be shorter.
