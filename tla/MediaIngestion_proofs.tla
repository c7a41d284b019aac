------------------------ MODULE MediaIngestion_proofs ------------------------
(***************************************************************************)
(* Proofs about media assets and transcripts, for any number of tasks,     *)
(* assets and authors, in both settings of CleanupWhileServing.            *)
(*                                                                         *)
(* Part 1: every step of the composition is a step of BackgroundTasks, so  *)
(* what is proved there of rows and threads holds here.  Part 2 ties the   *)
(* program counter of fn to its thread, to the asset and to the transcript *)
(* it has stored.  Part 3 is about the revision numbers that tasks and     *)
(* people compute without a lock.                                          *)
(***************************************************************************)
EXTENDS MediaIngestion, BackgroundTasks_proofs, WellFoundedInduction

\* Where a job may stand while its thread has not started, or has ended; a
\* submitted task has its fn and an asset that was added.
JobThread(t) ==
    /\ worker[t] = "none" => job[t].pc = "start"
    /\ worker[t] = "returned" => job[t].pc = "return"
    /\ worker[t] = "raised" => job[t].pc \in {"raise", "no provider"}
    /\ watchdog[t] = "none" => job[t].fn = "none" /\ job[t].asset = NoAsset
    /\ watchdog[t] # "none" =>
         /\ job[t].fn # "none"
         /\ job[t].asset \in Assets
         /\ asset[job[t].asset].ingestion_status # "absent"
    /\ job[t].fn = "extract" => asset[job[t].asset].kind = "extraction"

JobThreads == \A t \in Tasks : JobThread(t)

\* A transcription has its transcript from StoreTranscript on, and nothing
\* but a deletion of the asset keeps it from READY then.
JobTranscript(t) ==
    /\ job[t].pc \in {"numbered", "stored"} => job[t].fn = "transcribe"
    /\ job[t].fn = "transcribe" /\ job[t].pc \in {"stored", "return"} =>
         transcript[t] # NoRevision
    /\ \/ job[t].pc \in {"start", "processing", "numbered", "no provider"}
       \/ job[t].fn = "extract"
       => transcript[t] = NoRevision
    /\ job[t].pc = "raise" /\ transcript[t] # NoRevision =>
         \/ asset[job[t].asset].ingestion_status = "deleted"
         \/ job[t].asset \in hand_edited

JobTranscripts == \A t \in Tasks : JobTranscript(t)

\* A job is between its PROCESSING save and the save that ends it, or was
\* lost on the way.
Attends(t) ==
    \/ worker[t] = "running" /\ job[t].pc \in {"processing", "numbered", "stored"}
    \/ Lost(t)

ProcessingAttended ==
    \A a \in Assets \ hand_edited :
        asset[a].ingestion_status = "processing" =>
            \E t \in Tasks : job[t].asset = a /\ Attends(t)

JobFacts == JobThreads /\ JobTranscripts /\ ReadyLinkWasTranscribed /\ ProcessingAttended

\* A number is 1 or continues a number that a writer has stored.
Follows(r) == r = 1 \/ r - 1 \in Revisions(Writers)

\* The numbers that have been computed and not stored yet follow, too.
NumbersFollow ==
    /\ \A u \in Authors : draft[u] # NoRevision => Follows(draft[u])
    /\ \A t \in Tasks : job[t].pc = "numbered" => Follows(job[t].revision)

\* There is a highest number, however many writers there are.
RevisionsBounded == \E m \in Nat : \A r \in Revisions(Writers) : r <= m

Numbering == NumbersFollow /\ RevisionsHaveNoGaps /\ RevisionsBounded

IngestionInv == IngestionTypeOK /\ Inv /\ JobFacts /\ Numbering

----------------------------------------------------------------------------
(* Part 1.  The composition adds no step to the task runner.               *)

LEMMA TasksStep == [IngestionNext]_allVars => [Next]_vars
<1> SUFFICES ASSUME [IngestionNext]_allVars PROVE [Next]_vars
  OBVIOUS
<1>1. ASSUME NEW a \in Assets, AddAsset(a) \/ DeleteAsset(a) \/ AgeAsset(a)
      PROVE  [Next]_vars
  BY <1>1 DEF AddAsset, DeleteAsset, AgeAsset
<1>2. ASSUME NEW t \in Tasks, NEW w \in Workers, NEW a \in Assets,
             SubmitTranscription(t, w, a) \/ SubmitExtraction(t, w, a)
      PROVE  [Next]_vars
  BY <1>2 DEF SubmitTranscription, SubmitExtraction, Submit, Next
<1>3. ASSUME NEW u \in Authors, AuthorReadsRevision(u) \/ AuthorStoresTranscript(u)
      PROVE  [Next]_vars
  BY <1>3 DEF AuthorReadsRevision, AuthorStoresTranscript
<1>4. ASSUME NEW a \in Patchable, PostAsset(a) \/ PatchAsset(a) PROVE [Next]_vars
  BY <1>4 DEF PostAsset, PatchAsset
<1>5. ASSUME NEW w \in Deletable, DeleteTranscript(w) PROVE [Next]_vars
  BY <1>5 DEF DeleteTranscript
<1>6. ASSUME NEW t \in Tasks, Run(t) PROVE [Next]_vars
  BY <1>6 DEF Run, Next
<1>7. ASSUME NEW t \in Tasks, Job(t) PROVE [Next]_vars
  BY <1>7 DEF Job, MarkProcessing, ProviderMissing, MediaFails, ReadRevision,
              StoreTranscript, MarkReady, AssetVanished, JobEnds, Next
<1>8. ASSUME SweepTasks \/ Restart PROVE [Next]_vars
  BY <1>8 DEF SweepTasks, Restart, Next
<1>9. ASSUME SweepAssets \/ OpenPublishTab \/ FixStuckExtractions PROVE [Next]_vars
  BY <1>9 DEF SweepAssets, OpenPublishTab, FixStuckExtractions
<1>10. ASSUME Environment PROVE [Next]_vars
  BY <1>10 DEF Environment, Next
<1>11. ASSUME UNCHANGED allVars PROVE [Next]_vars
  BY <1>11 DEF allVars
<1> QED
  BY <1>1, <1>2, <1>3, <1>4, <1>5, <1>6, <1>7, <1>8, <1>9, <1>10, <1>11 DEF IngestionNext

\* The media jobs run as the task runner runs any fn: each behaviour of the
\* composition is one of BackgroundTasks.
THEOREM IngestionRunsTasks == IngestionSpec => Spec
<1>1. IngestionInit => Init
  BY DEF IngestionInit
<1> QED
  BY <1>1, TasksStep, PTL DEF IngestionSpec, Spec

\* What the steps of the task runner other than a submission and the end of
\* fn do to a thread.
ThreadsMove ==
    \A t \in Tasks :
        /\ \/ worker'[t] = worker[t]
           \/ worker[t] = "none" /\ worker'[t] = "running"
           \/ worker[t] = "running" /\ worker'[t] = "killed"
        /\ watchdog'[t] = "none" <=> watchdog[t] = "none"

LEMMA Moves ==
    ASSUME Inv,
           \/ \E t \in Tasks : Watchdog(t) \/ Age(t)
           \/ \E w \in Workers : KillWorker(w) \/ BootWorker(w)
           \/ RestartContainer \/ RunCommand \/ SweepCount \/ SweepUpdate
    PROVE  ThreadsMove
<1> USE DEF ThreadsMove, Inv, TypeOK
<1>1. ASSUME NEW t \in Tasks, Watchdog(t) PROVE ThreadsMove
  BY <1>1 DEF Watchdog, WatchdogFetch, WatchdogMarkRunning, JoinReturns, JoinTimesOut,
              Refetch, WatchdogDecide, WatchdogSave, Threads
<1>2. ASSUME NEW w \in Workers, KillWorker(w) PROVE ThreadsMove
  BY <1>2 DEF KillWorker, KillThreads, WatchdogLive
<1>3. ASSUME RestartContainer PROVE ThreadsMove
  BY <1>3 DEF RestartContainer, KillThreads, WatchdogLive
<1>4. ASSUME NEW w \in Workers, BootWorker(w) PROVE ThreadsMove
  BY <1>4 DEF BootWorker
<1>5. ASSUME NEW t \in Tasks, Age(t) PROVE ThreadsMove
  BY <1>5 DEF Age
<1>6. ASSUME RunCommand \/ SweepCount \/ SweepUpdate PROVE ThreadsMove
  BY <1>6 DEF RunCommand, SweepCount, SweepUpdate
<1> QED
  BY <1>1, <1>2, <1>3, <1>4, <1>5, <1>6

----------------------------------------------------------------------------
(* The highest stored number exists, so the next number is one more.       *)

\* A bounded set of numbers, or 0 for an empty one, has a greatest element.
LEMMA GreatestExists ==
    ASSUME NEW S \in SUBSET Nat, NEW m \in Nat, \A q \in S : q <= m
    PROVE  \E r \in S \cup {0} : \A q \in S : q <= r
<1> DEFINE T == S \cup {0}
<1> DEFINE D == {m - r : r \in T}
<1>1. D \subseteq Nat /\ D # {}
  OBVIOUS
<1>2. PICK x \in D : \A y \in D : ~ (<<y, x>> \in OpToRel(<, Nat))
  BY <1>1, NatLessThanWellFounded, WFMin
<1>3. PICK r \in T : x = m - r
  OBVIOUS
<1>4. ASSUME NEW q \in S PROVE q <= r
  <2>1. m - q \in D
    BY <1>4
  <2>2. ~ (m - q < m - r)
    BY <1>1, <1>2, <1>3, <2>1 DEF OpToRel
  <2> QED
    BY <2>2, <1>3
<1> QED
  BY <1>3, <1>4

LEMMA NextRevisionFollows ==
    ASSUME transcript \in [Writers -> Nat], RevisionsBounded
    PROVE  NextRevision \in Nat /\ NextRevision # NoRevision /\ Follows(NextRevision)
<1> DEFINE S == Revisions(Writers \ removed)
           r == CHOOSE r \in S \cup {0} : \A q \in S : q <= r
<1>1. S \subseteq Revisions(Writers) /\ Revisions(Writers) \subseteq Nat
  BY DEF Revisions
<1>2. \E x \in S \cup {0} : \A q \in S : q <= x
  BY <1>1, GreatestExists DEF RevisionsBounded
<1>3. r \in S \cup {0}
  BY <1>2
<1>4. NextRevision = 1 + r
  BY DEF NextRevision
<1> HIDE DEF r
<1>5. r \in Nat /\ (r = 0 \/ r \in Revisions(Writers))
  BY <1>1, <1>3
<1> QED
  BY <1>4, <1>5 DEF Follows, NoRevision

----------------------------------------------------------------------------
(* Types.                                                                  *)

LEMMA GiveUpOnType ==
    ASSUME asset \in [Assets -> AssetRows], NEW S, GiveUpOn(S)
    PROVE  /\ asset' \in [Assets -> AssetRows]
           /\ \A a \in Assets :
                /\ asset'[a].kind = asset[a].kind
                /\ asset'[a].ingestion_status =
                     IF a \in S THEN "failed" ELSE asset[a].ingestion_status
BY DEF GiveUpOn, AssetRows

\* An inserted row has its kind and its status; the others stay.
LEMMA AssetInserted ==
    ASSUME asset \in [Assets -> AssetRows], NEW a \in Assets,
           NEW k \in {"link", "streaming", "upload", "extraction"},
           NEW s \in {"ready", "failed"} \cup AssetBusy,
           asset' = [asset EXCEPT ![a] = [kind |-> k, ingestion_status |-> s]]
    PROVE  /\ asset' \in [Assets -> AssetRows]
           /\ asset'[a].kind = k /\ asset'[a].ingestion_status = s
           /\ \A b \in Assets : b # a => asset'[b] = asset[b]
BY DEF AssetRows, AssetBusy

\* A save of another status into an asset row keeps its kind.
LEMMA AssetSaved ==
    ASSUME asset \in [Assets -> AssetRows], NEW a \in Assets,
           NEW s \in {"deleted", "ready", "failed"} \cup AssetBusy,
           asset' = [asset EXCEPT ![a].ingestion_status = s]
    PROVE  /\ asset' \in [Assets -> AssetRows]
           /\ asset'[a].ingestion_status = s
           /\ \A b \in Assets :
                /\ asset'[b].kind = asset[b].kind
                /\ b # a => asset'[b] = asset[b]
BY DEF AssetRows, AssetBusy

\* What a Goto leaves of the jobs.
LEMMA Moved ==
    ASSUME job \in [Tasks -> JobRows], NEW t \in Tasks,
           NEW label \in {"processing", "stored", "return", "raise", "no provider"},
           Goto(t, label)
    PROVE  /\ job' \in [Tasks -> JobRows]
           /\ job'[t].pc = label
           /\ \A s \in Tasks :
                /\ job'[s].fn = job[s].fn
                /\ job'[s].asset = job[s].asset
                /\ s # t => job'[s] = job[s]
BY DEF Goto, JobRows

\* What a submission makes of the jobs.
LEMMA Submitted ==
    ASSUME job \in [Tasks -> JobRows], NEW t \in Tasks, NEW w, NEW a \in Assets,
           NEW f \in {"transcribe", "extract"}, Submit(t, w, a, f)
    PROVE  /\ job' \in [Tasks -> JobRows]
           /\ job'[t].fn = f /\ job'[t].asset = a /\ job'[t].pc = job[t].pc
           /\ \A s \in Tasks : s # t => job'[s] = job[s]
BY DEF Submit, JobRows

LEMMA IngestionInitType == IngestionInit => IngestionTypeOK
<1> SUFFICES ASSUME IngestionInit PROVE IngestionTypeOK
  OBVIOUS
<1>1. asset \in [Assets -> AssetRows]
  BY DEF IngestionInit, AssetRows
<1>2. draft \in [Authors -> Nat] /\ transcript \in [Writers -> Nat]
  BY DEF IngestionInit, NoRevision
<1>3. TypeOK /\ aged = {} /\ removed = {} /\ hand_edited = {} /\ assets_swept \in BOOLEAN
  BY InitType DEF IngestionInit
<1>4. \A t \in Tasks : job[t] \in JobRows
  BY DEF IngestionInit, JobRows, NoRevision
<1>5. job \in [Tasks -> JobRows]
  BY <1>4 DEF IngestionInit
<1> QED
  BY <1>1, <1>2, <1>3, <1>5 DEF IngestionTypeOK

\* A job that is running has its fn and an asset.
LEMMA RunningJob ==
    ASSUME Inv, JobThreads, NEW t \in Tasks, worker[t] # "none"
    PROVE  job[t].fn # "none" /\ job[t].asset \in Assets
BY DEF Inv, Threads, JobThreads, JobThread

LEMMA IngestionTypeStep ==
    ASSUME IngestionTypeOK, Inv, JobThreads, RevisionsBounded, [IngestionNext]_allVars
    PROVE  IngestionTypeOK'
<1>0. TypeOK'
  BY TasksStep, TypeStep DEF IngestionTypeOK
<1> USE DEF IngestionTypeOK
<1>1. ASSUME NEW a \in Assets, AddAsset(a) PROVE IngestionTypeOK'
  <2>1. PICK k \in {"link", "streaming", "upload", "extraction"} :
          asset' = [asset EXCEPT ![a] =
                      [kind |-> k,
                       ingestion_status |-> IF k = "upload" THEN "ready" ELSE "pending"]]
    BY <1>1 DEF AddAsset
  <2>2. asset' \in [Assets -> AssetRows]
    BY <2>1 DEF AssetRows, AssetBusy
  <2> QED
    BY <1>0, <1>1, <2>2 DEF AddAsset
<1>2. ASSUME NEW a \in Assets, DeleteAsset(a) PROVE IngestionTypeOK'
  BY <1>0, <1>2, AssetSaved DEF DeleteAsset
<1>3. ASSUME NEW a \in Assets, AgeAsset(a) PROVE IngestionTypeOK'
  BY <1>0, <1>3 DEF AgeAsset
<1>4. ASSUME NEW t \in Tasks, NEW w \in Workers, NEW a \in Assets,
             SubmitTranscription(t, w, a) \/ SubmitExtraction(t, w, a)
      PROVE  IngestionTypeOK'
  <2>1. PICK f \in {"transcribe", "extract"} : Submit(t, w, a, f)
    BY <1>4 DEF SubmitTranscription, SubmitExtraction
  <2> QED
    BY <1>0, <2>1, Submitted DEF Submit
<1>5. ASSUME NEW u \in Authors, AuthorReadsRevision(u) \/ AuthorStoresTranscript(u)
      PROVE  IngestionTypeOK'
  <2>1. CASE AuthorReadsRevision(u)
    BY <1>0, <2>1, NextRevisionFollows DEF AuthorReadsRevision
  <2>2. CASE AuthorStoresTranscript(u)
    BY <1>0, <2>2 DEF AuthorStoresTranscript
  <2> QED
    BY <1>5, <2>1, <2>2
<1>6. ASSUME NEW a \in Patchable, PostAsset(a) \/ PatchAsset(a) PROVE IngestionTypeOK'
  <2>1. a \in Assets
    BY PatchableAssumption
  <2>2. CASE PostAsset(a)
    BY <1>0, <2>1, <2>2, AssetInserted DEF PostAsset
  <2>3. CASE PatchAsset(a)
    BY <1>0, <2>1, <2>3, AssetSaved DEF PatchAsset
  <2> QED
    BY <1>6, <2>2, <2>3
<1>7. ASSUME NEW w \in Deletable, DeleteTranscript(w) PROVE IngestionTypeOK'
  BY <1>0, <1>7, DeletableAssumption DEF DeleteTranscript, Writers
<1>8. ASSUME NEW t \in Tasks, Run(t) PROVE IngestionTypeOK'
  BY <1>0, <1>8 DEF Run, ingestionVars
<1>9. ASSUME NEW t \in Tasks, Job(t) PROVE IngestionTypeOK'
  <2>1. CASE MarkProcessing(t)
    BY <1>0, <2>1, RunningJob, AssetSaved, Moved
       DEF MarkProcessing, SaveStatus, At, AssetBusy
  <2>2. CASE ProviderMissing(t)
    BY <1>0, <2>2, Moved DEF ProviderMissing
  <2>3. CASE MediaFails(t)
    BY <1>0, <2>3, RunningJob, AssetSaved, Moved DEF MediaFails, SaveStatus, At
  <2>4. CASE ReadRevision(t)
    BY ZenonT(30), <1>0, <2>4, NextRevisionFollows DEF ReadRevision, JobRows
  <2>5. CASE StoreTranscript(t)
    BY <1>0, <2>5, Moved DEF StoreTranscript, Writers, JobRows
  <2>6. CASE MarkReady(t)
    BY <1>0, <2>6, RunningJob, AssetSaved, Moved DEF MarkReady, SaveStatus, At
  <2>7. CASE AssetVanished(t)
    BY <1>0, <2>7, Moved DEF AssetVanished
  <2>8. CASE JobEnds(t)
    BY <1>0, <2>8 DEF JobEnds, ingestionVars
  <2> QED
    BY <1>9, <2>1, <2>2, <2>3, <2>4, <2>5, <2>6, <2>7, <2>8 DEF Job
<1>10. ASSUME SweepAssets \/ OpenPublishTab \/ FixStuckExtractions
       PROVE  IngestionTypeOK'
  <2>1. asset' \in [Assets -> AssetRows]
    BY <1>10, GiveUpOnType DEF SweepAssets, OpenPublishTab, FixStuckExtractions
  <2> QED
    BY <1>0, <1>10, <2>1 DEF SweepAssets, OpenPublishTab, FixStuckExtractions
<1>11. ASSUME SweepTasks \/ Restart \/ Environment PROVE IngestionTypeOK'
  BY <1>0, <1>11 DEF SweepTasks, Restart, Environment, ingestionVars
<1>12. ASSUME UNCHANGED allVars PROVE IngestionTypeOK'
  BY <1>0, <1>12 DEF allVars, ingestionVars
<1> QED
  BY <1>1, <1>2, <1>3, <1>4, <1>5, <1>6, <1>7, <1>8, <1>9, <1>10, <1>11, <1>12
     DEF IngestionNext

----------------------------------------------------------------------------
(* Part 2.  The statements of a job, against everybody else who writes its *)
(* asset.                                                                  *)

\* What people and the cleanups may do to the assets under a job.
AssetsMove ==
    /\ UNCHANGED <<vars, job, transcript>>
    /\ hand_edited \subseteq hand_edited'
    /\ \A a \in Assets :
         /\ asset[a].ingestion_status # "absent" =>
              asset'[a].kind = asset[a].kind /\ asset'[a].ingestion_status # "absent"
         /\ asset[a].ingestion_status = "deleted" =>
              asset'[a].ingestion_status = "deleted" \/ a \in hand_edited'
         /\ a \notin hand_edited' =>
              /\ asset'[a].ingestion_status = "processing" =>
                   asset[a].ingestion_status = "processing"
              /\ asset'[a].kind # "upload" /\ asset'[a].ingestion_status = "ready" =>
                   asset[a].kind = asset'[a].kind /\ asset[a].ingestion_status = "ready"

LEMMA AssetsMoveKeeps ==
    ASSUME IngestionTypeOK, Inv, JobFacts, AssetsMove
    PROVE  JobFacts'
<1> USE DEF AssetsMove, vars
<1>1. \A t \in Tasks : watchdog[t] # "none" => job[t].asset \in Assets
  BY DEF JobFacts, JobThreads, JobThread
<1>2. \A t \in Tasks : watchdog[t] = "none" => worker[t] = "none" /\ job[t].pc = "start"
  BY DEF JobFacts, JobThreads, JobThread, Inv, Threads
<1>3. \A t \in Tasks : watchdog[t] = "none" => job[t].asset \notin Assets
  BY NoAssetAssumption DEF JobFacts, JobThreads, JobThread
<1>4. JobThreads'
  <2>1. \A t \in Tasks : job[t].fn = "extract" => watchdog[t] # "none"
    BY DEF JobFacts, JobThreads, JobThread
  <2> QED
    BY ZenonT(30), <1>1, <2>1 DEF JobFacts, JobThreads, JobThread
<1>5. JobTranscripts'
  BY <1>1, <1>2 DEF JobFacts, JobTranscripts, JobTranscript
<1>6. ReadyLinkWasTranscribed'
  BY DEF JobFacts, ReadyLinkWasTranscribed
<1>7. ProcessingAttended'
  <2>1. \A t \in Tasks : Attends(t)' <=> Attends(t)
    BY DEF Attends, Lost
  <2> QED
    BY <2>1 DEF JobFacts, ProcessingAttended
<1> QED
  BY <1>4, <1>5, <1>6, <1>7 DEF JobFacts

\* A cleanup gives up on busy assets only.
LEMMA GiveUpMoves ==
    ASSUME IngestionTypeOK, NEW S \in SUBSET Assets, GiveUpOn(S),
           \A a \in S : asset[a].ingestion_status \in AssetBusy,
           UNCHANGED <<vars, job, transcript, hand_edited>>
    PROVE  AssetsMove
<1>1. \A a \in S : asset[a].ingestion_status \notin {"absent", "deleted"}
  BY DEF AssetBusy
<1>2. asset \in [Assets -> AssetRows]
  BY DEF IngestionTypeOK
<1> QED
  BY <1>1, <1>2, GiveUpOnType DEF AssetsMove

LEMMA AssetStep ==
    ASSUME IngestionTypeOK,
           \/ \E a \in Assets : AddAsset(a) \/ DeleteAsset(a) \/ AgeAsset(a)
           \/ \E a \in Patchable : PostAsset(a) \/ PatchAsset(a)
           \/ SweepAssets \/ OpenPublishTab \/ FixStuckExtractions
    PROVE  AssetsMove
<1> USE DEF IngestionTypeOK, AssetsMove
<1>1. ASSUME NEW a \in Assets, AddAsset(a) PROVE AssetsMove
  <2>1. PICK k \in {"link", "streaming", "upload", "extraction"} :
          asset' = [asset EXCEPT ![a] =
                      [kind |-> k,
                       ingestion_status |-> IF k = "upload" THEN "ready" ELSE "pending"]]
    BY <1>1 DEF AddAsset
  <2> QED
    BY <1>1, <2>1 DEF AddAsset
<1>2. ASSUME NEW a \in Assets, DeleteAsset(a) PROVE AssetsMove
  BY <1>2, AssetSaved DEF DeleteAsset
<1>3. ASSUME NEW a \in Assets, AgeAsset(a) PROVE AssetsMove
  BY <1>3 DEF AgeAsset
<1>4. ASSUME NEW a \in Patchable, PatchAsset(a) PROVE AssetsMove
  <2>1. a \in Assets
    BY PatchableAssumption
  <2>2. PICK s \in {"ready", "failed"} \cup AssetBusy :
          asset' = [asset EXCEPT ![a].ingestion_status = s]
    BY <1>4 DEF PatchAsset
  <2>3. s # "absent"
    BY DEF AssetBusy
  <2> QED
    BY <1>4, <2>1, <2>2, <2>3, AssetSaved DEF PatchAsset
<1>4a. ASSUME NEW a \in Patchable, PostAsset(a) PROVE AssetsMove
  <2>1. a \in Assets
    BY PatchableAssumption
  <2>2. PICK k \in {"link", "streaming", "upload"}, s \in {"ready", "failed"} \cup AssetBusy :
          /\ asset' = [asset EXCEPT ![a] = [kind |-> k, ingestion_status |-> s]]
          /\ hand_edited' = IF s = "pending" THEN hand_edited ELSE hand_edited \cup {a}
    BY <1>4a DEF PostAsset
  <2>3. /\ asset'[a].ingestion_status = s
        /\ \A b \in Assets : b # a => asset'[b] = asset[b]
    BY <2>1, <2>2, AssetInserted
  <2>4. s = "pending" \/ a \in hand_edited'
    BY <2>2
  <2>5. hand_edited \subseteq hand_edited'
    BY <2>2
  <2> QED
    BY <1>4a, <2>3, <2>4, <2>5 DEF PostAsset
<1>5. ASSUME SweepAssets PROVE AssetsMove
  BY <1>5, GiveUpMoves DEF SweepAssets, stuck_assets
<1>6. ASSUME OpenPublishTab PROVE AssetsMove
  <2> DEFINE S == stuck_assets \cup
                    {a \in Assets : /\ asset[a].kind = "streaming"
                                    /\ asset[a].ingestion_status \in AssetBusy}
  <2>1. S \subseteq Assets /\ \A a \in S : asset[a].ingestion_status \in AssetBusy
    BY DEF stuck_assets
  <2>2. GiveUpOn(S) /\ UNCHANGED <<vars, job, transcript, hand_edited>>
    BY <1>6 DEF OpenPublishTab
  <2> HIDE DEF S
  <2> QED
    BY <2>1, <2>2, GiveUpMoves
<1>7. ASSUME FixStuckExtractions PROVE AssetsMove
  <2> DEFINE S == {a \in stuck_assets : asset[a].kind \in {"upload", "extraction"}}
  <2>1. S \subseteq Assets /\ \A a \in S : asset[a].ingestion_status \in AssetBusy
    BY DEF stuck_assets
  <2>2. GiveUpOn(S) /\ UNCHANGED <<vars, job, transcript, hand_edited>>
    BY <1>7 DEF FixStuckExtractions
  <2> HIDE DEF S
  <2> QED
    BY <2>1, <2>2, GiveUpMoves
<1> QED
  BY <1>1, <1>2, <1>3, <1>4, <1>5, <1>6, <1>4a, <1>7

\* The runner's own steps start, kill and abandon threads; fn keeps its place.
LEMMA RunnerKeeps ==
    ASSUME IngestionTypeOK, Inv, JobFacts, ThreadsMove,
           UNCHANGED <<asset, job, transcript, hand_edited>>
    PROVE  JobFacts'
<1> USE DEF ThreadsMove
<1>1. JobThreads'
  BY ZenonT(30) DEF JobFacts, JobThreads, JobThread
<1>2. JobTranscripts'
  BY DEF JobFacts, JobTranscripts, JobTranscript
<1>3. ReadyLinkWasTranscribed'
  BY DEF JobFacts, ReadyLinkWasTranscribed
<1>4. ASSUME NEW t \in Tasks, Attends(t) PROVE Attends(t)'
  BY <1>4 DEF Attends, Lost
<1>5. ProcessingAttended'
  BY <1>4 DEF JobFacts, ProcessingAttended
<1> QED
  BY <1>1, <1>2, <1>3, <1>5 DEF JobFacts

\* A submission gives an idle task its fn and its asset.
LEMMA SubmitKeeps ==
    ASSUME IngestionTypeOK, Inv, JobFacts, NEW t \in Tasks, NEW w \in Workers,
           NEW a \in Assets, SubmitTranscription(t, w, a) \/ SubmitExtraction(t, w, a)
    PROVE  JobFacts'
<1>1. PICK f \in {"transcribe", "extract"} :
        /\ Submit(t, w, a, f)
        /\ asset[a].ingestion_status # "absent"
        /\ f = "extract" => asset[a].kind = "extraction"
  BY DEF SubmitTranscription, SubmitExtraction
<1>2. /\ job' \in [Tasks -> JobRows]
      /\ job'[t].fn = f /\ job'[t].asset = a /\ job'[t].pc = job[t].pc
      /\ \A s \in Tasks : s # t => job'[s] = job[s]
  BY <1>1, Submitted DEF IngestionTypeOK
<1>3. /\ UNCHANGED <<asset, transcript, hand_edited, worker>>
      /\ watchdog'[t] = "starting"
      /\ \A s \in Tasks : s # t => watchdog'[s] = watchdog[s]
  BY <1>1 DEF Submit, run_background_task, Inv, TypeOK
<1>4. watchdog[t] = "none" /\ worker[t] = "none" /\ job[t].pc = "start"
  BY <1>1 DEF Submit, run_background_task, Inv, Threads, JobFacts, JobThreads, JobThread
<1>5. transcript[t] = NoRevision /\ ~Attends(t)
  BY <1>4 DEF JobFacts, JobTranscripts, JobTranscript, Attends, Lost
<1>6. JobThreads'
  <2>1. JobThread(t)'
    BY <1>1, <1>2, <1>3, <1>4 DEF JobThread
  <2>2. ASSUME NEW s \in Tasks, s # t PROVE JobThread(s)'
    <3>1. job'[s] = job[s] /\ worker'[s] = worker[s] /\ watchdog'[s] = watchdog[s]
      BY <1>2, <1>3, <2>2
    <3> QED
      BY ZenonT(30), <1>3, <3>1 DEF JobThread, JobFacts, JobThreads
  <2> QED
    BY <2>1, <2>2 DEF JobThreads
<1>7. JobTranscripts'
  BY <1>2, <1>3, <1>4, <1>5 DEF JobFacts, JobTranscripts, JobTranscript
<1>8. ReadyLinkWasTranscribed'
  BY <1>2, <1>3, <1>5 DEF JobFacts, ReadyLinkWasTranscribed
<1>9. ProcessingAttended'
  <2>1. \A s \in Tasks : s # t => (Attends(s)' <=> Attends(s))
    BY <1>2, <1>3 DEF Attends, Lost
  <2> QED
    BY <1>2, <1>3, <1>5, <2>1 DEF JobFacts, ProcessingAttended
<1> QED
  BY <1>6, <1>7, <1>8, <1>9 DEF JobFacts

\* People's transcripts are not those of tasks.
LEMMA PeopleKeep ==
    ASSUME IngestionTypeOK, Inv, JobFacts,
           \/ \E u \in Authors : AuthorReadsRevision(u) \/ AuthorStoresTranscript(u)
           \/ \E w \in Deletable : DeleteTranscript(w)
    PROVE  JobFacts'
<1>1. UNCHANGED <<vars, asset, job, hand_edited>>
  BY DEF AuthorReadsRevision, AuthorStoresTranscript, DeleteTranscript
<1>2. \A t \in Tasks : transcript'[t] = transcript[t]
  BY AuthorsAssumption
     DEF AuthorReadsRevision, AuthorStoresTranscript, DeleteTranscript, IngestionTypeOK, Writers
<1>3. \A t \in Tasks : Attends(t)' <=> Attends(t)
  BY <1>1 DEF vars, Attends, Lost
<1>4. JobThreads'
  BY <1>1 DEF vars, JobFacts, JobThreads, JobThread
<1>5. JobTranscripts'
  BY <1>1, <1>2 DEF JobFacts, JobTranscripts, JobTranscript
<1>6. ReadyLinkWasTranscribed'
  BY <1>1, <1>2 DEF JobFacts, ReadyLinkWasTranscribed
<1>7. ProcessingAttended'
  BY <1>1, <1>3 DEF JobFacts, ProcessingAttended
<1> QED
  BY <1>4, <1>5, <1>6, <1>7 DEF JobFacts

----------------------------------------------------------------------------
(* The steps of a job.                                                     *)

\* What every statement of a job but its end leaves alone.
JobMoves(t, label) ==
    /\ job' \in [Tasks -> JobRows]
    /\ job'[t].pc = label
    /\ \A s \in Tasks :
         /\ job'[s].fn = job[s].fn
         /\ job'[s].asset = job[s].asset
         /\ s # t => job'[s] = job[s]
    /\ UNCHANGED <<vars, hand_edited>>

\* A save by the job changes the status of its own asset, which exists.
JobSaves(t, s) ==
    /\ asset'[job[t].asset].ingestion_status = s
    /\ \A a \in Assets :
         /\ asset'[a].kind = asset[a].kind
         /\ a # job[t].asset => asset'[a] = asset[a]

LEMMA SaveIsJobSaves ==
    ASSUME IngestionTypeOK, NEW t \in Tasks, job[t].asset \in Assets,
           NEW s \in {"processing", "ready", "failed"}, SaveStatus(t, s)
    PROVE  JobSaves(t, s)
BY AssetSaved DEF IngestionTypeOK, SaveStatus, JobSaves, AssetBusy

LEMMA GotoIsJobMoves ==
    ASSUME IngestionTypeOK, NEW t \in Tasks,
           NEW label \in {"processing", "stored", "return", "raise", "no provider"},
           Goto(t, label), UNCHANGED <<vars, hand_edited>>
    PROVE  JobMoves(t, label)
BY Moved DEF IngestionTypeOK, JobMoves

\* The threads of the jobs stay where they are while one of them moves.
LEMMA JobMovesThreads ==
    ASSUME IngestionTypeOK, Inv, JobFacts, NEW t \in Tasks, worker[t] = "running",
           NEW label, JobMoves(t, label),
           \/ UNCHANGED asset
           \/ \E s \in {"processing", "ready", "failed"} : JobSaves(t, s)
    PROVE  JobThreads'
<1>1. /\ \A a \in Assets : asset'[a].kind = asset[a].kind
      /\ \A a \in Assets : asset[a].ingestion_status # "absent" =>
                             asset'[a].ingestion_status # "absent"
  BY DEF JobSaves
<1>2. ASSUME NEW s \in Tasks PROVE JobThread(s)'
  <2>1. JobThread(s) /\ (s = t \/ job'[s].pc = job[s].pc)
    BY DEF JobFacts, JobThreads, JobMoves
  <2>2. /\ job'[s].fn = job[s].fn /\ job'[s].asset = job[s].asset
        /\ worker'[s] = worker[s] /\ watchdog'[s] = watchdog[s]
    BY DEF JobMoves, vars
  <2>3. job[s].fn = "extract" => job[s].asset \in Assets
    BY <2>1 DEF JobThread
  <2> QED
    BY <1>1, <2>1, <2>2, <2>3 DEF JobThread
<1> QED
  BY <1>2 DEF JobThreads

\* What a step of one job has to see to, so that everything said of all jobs
\* and all assets stays true.
LEMMA JobStepKeeps ==
    ASSUME IngestionTypeOK, Inv, JobFacts, NEW t \in Tasks, worker[t] = "running",
           NEW label, JobMoves(t, label),
           \/ UNCHANGED asset
           \/ Exists(t) /\ \E s \in {"processing", "ready", "failed"} : JobSaves(t, s),
           \A s \in Tasks : s # t => transcript'[s] = transcript[s],
           transcript[t] # NoRevision => transcript'[t] # NoRevision,
           JobTranscript(t)',
           asset'[job[t].asset].ingestion_status = "processing" => Attends(t)',
           \/ UNCHANGED asset
           \/ ~JobSaves(t, "ready")
           \/ asset[job[t].asset].kind = "extraction"
           \/ transcript[t] # NoRevision
    PROVE  JobFacts'
<1>1. JobThreads'
  BY JobMovesThreads
<1>2. JobTranscripts'
  <2>1. ASSUME NEW s \in Tasks, s # t PROVE JobTranscript(s)'
    <3>1. job'[s] = job[s] /\ transcript'[s] = transcript[s] /\ hand_edited' = hand_edited
      BY <2>1 DEF JobMoves
    <3>2. asset[job[s].asset].ingestion_status = "deleted" =>
            asset'[job[s].asset].ingestion_status = "deleted" \/ job[s].asset \notin Assets
      BY DEF JobSaves, Exists
    <3>3. job[s].pc = "raise" => job[s].asset \in Assets
      BY DEF JobFacts, JobThreads, JobThread, Inv, Threads
    <3> QED
      BY <3>1, <3>2, <3>3 DEF JobTranscript, JobFacts, JobTranscripts
  <2> QED
    BY <2>1 DEF JobTranscripts
<1>3. ASSUME NEW a \in Assets \ hand_edited, asset'[a].kind \in {"link", "streaming"},
             asset'[a].ingestion_status = "ready"
      PROVE  \E s \in Tasks : job'[s].asset = a /\ transcript'[s] # NoRevision
  <2>1. asset'[a].kind = asset[a].kind
    BY DEF JobSaves
  <2>2. CASE asset[a].ingestion_status = "ready"
    BY <1>3, <2>1, <2>2 DEF JobMoves, JobFacts, ReadyLinkWasTranscribed
  <2>3. CASE asset[a].ingestion_status # "ready"
    <3>1. a = job[t].asset /\ JobSaves(t, "ready") /\ asset' # asset
      BY <1>3, <2>3 DEF JobSaves
    <3> QED
      BY <1>3, <2>1, <3>1 DEF JobMoves
  <2> QED
    BY <2>2, <2>3
<1>4. ASSUME NEW a \in Assets \ hand_edited, asset'[a].ingestion_status = "processing"
      PROVE  \E s \in Tasks : job'[s].asset = a /\ Attends(s)'
  <2>1. CASE a = job[t].asset
    BY <1>4, <2>1 DEF JobMoves
  <2>2. CASE a # job[t].asset
    <3>1. asset'[a] = asset[a]
      BY <2>2 DEF JobSaves
    <3>2. PICK s \in Tasks : job[s].asset = a /\ Attends(s)
      BY <1>4, <3>1 DEF JobFacts, ProcessingAttended
    <3>3. job'[s] = job[s] /\ worker' = worker
      BY <2>2, <3>2 DEF JobMoves, vars
    <3> QED
      BY <3>2, <3>3 DEF Attends, Lost
  <2> QED
    BY <2>1, <2>2
<1>5. UNCHANGED hand_edited
  BY DEF JobMoves
<1> QED
  BY <1>1, <1>2, <1>3, <1>4, <1>5 DEF JobFacts, ReadyLinkWasTranscribed, ProcessingAttended

\* fn has returned or raised; its thread ends with the same outcome.
LEMMA JobEndsKeeps ==
    ASSUME IngestionTypeOK, Inv, JobFacts, NEW t \in Tasks, JobEnds(t)
    PROVE  JobFacts'
<1>1. /\ UNCHANGED <<ingestionVars, watchdog>>
      /\ worker[t] = "running"
      /\ \/ job[t].pc = "return" /\ worker' = [worker EXCEPT ![t] = "returned"]
         \/ job[t].pc \in {"raise", "no provider"} /\ worker' = [worker EXCEPT ![t] = "raised"]
  BY DEF JobEnds, WorkerReturns, WorkerRaises
<1>2. worker \in [Tasks -> {"none", "running", "returned", "raised", "killed"}]
  BY DEF Inv, TypeOK
<1>3. ASSUME NEW s \in Tasks PROVE JobThread(s)'
  BY ZenonT(30), <1>1, <1>2 DEF ingestionVars, JobFacts, JobThreads, JobThread
<1>4. ASSUME NEW s \in Tasks, Attends(s) PROVE Attends(s)'
  BY <1>1, <1>2, <1>4 DEF ingestionVars, Attends, Lost
<1>5. JobTranscripts' /\ ReadyLinkWasTranscribed'
  BY <1>1 DEF ingestionVars, JobFacts, JobTranscripts, JobTranscript, ReadyLinkWasTranscribed
<1>6. ProcessingAttended'
  BY <1>1, <1>4 DEF ingestionVars, JobFacts, ProcessingAttended
<1> QED
  BY <1>3, <1>5, <1>6 DEF JobFacts, JobThreads

LEMMA JobKeeps ==
    ASSUME IngestionTypeOK, Inv, JobFacts, NumbersFollow, RevisionsBounded,
           NEW t \in Tasks, Job(t)
    PROVE  JobFacts'
<1>0. /\ worker[t] = "running" =>
           job[t].asset \in Assets /\ job[t].fn \in {"transcribe", "extract"}
      /\ JobTranscript(t) /\ JobThread(t)
  BY RunningJob DEF JobFacts, JobThreads, JobTranscripts, IngestionTypeOK, JobRows
<1>1. CASE MarkProcessing(t)
  <2>1. worker[t] = "running" /\ job[t].pc = "start" /\ Exists(t) /\ UNCHANGED transcript
    BY <1>1 DEF MarkProcessing, At
  <2>2. JobMoves(t, "processing") /\ JobSaves(t, "processing")
    BY <1>0, <1>1, <2>1, GotoIsJobMoves, SaveIsJobSaves DEF MarkProcessing
  <2>3. JobTranscript(t)' /\ Attends(t)' /\ ~JobSaves(t, "ready")
    BY <1>0, <2>1, <2>2 DEF JobMoves, JobSaves, JobTranscript, Attends, vars
  <2> QED
    BY <2>1, <2>2, <2>3, JobStepKeeps
<1>2. CASE ProviderMissing(t)
  <2>1. worker[t] = "running" /\ job[t].pc = "processing" /\ UNCHANGED <<transcript, asset>>
    BY <1>2 DEF ProviderMissing, At
  <2>2. JobMoves(t, "no provider")
    BY <1>2, GotoIsJobMoves DEF ProviderMissing
  <2>3. JobTranscript(t)' /\ Attends(t)'
    BY <1>0, <2>1, <2>2 DEF JobMoves, JobTranscript, Attends, Lost
  <2> QED
    BY <2>1, <2>2, <2>3, JobStepKeeps
<1>3. CASE MediaFails(t)
  <2>1. worker[t] = "running" /\ job[t].pc = "processing" /\ Exists(t) /\ UNCHANGED transcript
    BY <1>3 DEF MediaFails, At
  <2>2. JobMoves(t, "raise") /\ JobSaves(t, "failed")
    BY <1>0, <1>3, <2>1, GotoIsJobMoves, SaveIsJobSaves DEF MediaFails
  <2>3. JobTranscript(t)' /\ ~JobSaves(t, "ready")
        /\ asset'[job[t].asset].ingestion_status = "failed"
    BY <1>0, <2>1, <2>2 DEF JobMoves, JobSaves, JobTranscript
  <2> QED
    BY <2>1, <2>2, <2>3, JobStepKeeps
<1>4. CASE ReadRevision(t)
  <2>1. worker[t] = "running" /\ job[t].pc = "processing" /\ job[t].fn = "transcribe"
        /\ UNCHANGED <<transcript, asset>>
    BY <1>4 DEF ReadRevision, At
  <2>2. JobMoves(t, "numbered")
    <3>1. job' = [job EXCEPT ![t].pc = "numbered", ![t].revision = NextRevision]
          /\ UNCHANGED <<vars, hand_edited>>
      BY <1>4 DEF ReadRevision
    <3> QED
      BY ZenonT(30), <3>1, NextRevisionFollows DEF JobMoves, IngestionTypeOK, JobRows
  <2>3. JobTranscript(t)' /\ Attends(t)'
    BY <1>0, <2>1, <2>2 DEF JobMoves, JobTranscript, Attends, vars
  <2> QED
    BY <2>1, <2>2, <2>3, JobStepKeeps
<1>5. CASE StoreTranscript(t)
  <2>1. worker[t] = "running" /\ job[t].pc = "numbered" /\ UNCHANGED asset
    BY <1>5 DEF StoreTranscript, At
  <2>2. JobMoves(t, "stored")
    BY <1>5, GotoIsJobMoves DEF StoreTranscript
  <2>3. job[t].revision # NoRevision
    BY <2>1 DEF NumbersFollow, Follows, Revisions, IngestionTypeOK, NoRevision
  <2>4. transcript'[t] = job[t].revision
        /\ \A s \in Tasks : s # t => transcript'[s] = transcript[s]
    BY <1>5 DEF StoreTranscript, IngestionTypeOK, Writers
  <2>5. JobTranscript(t)' /\ Attends(t)'
    BY <1>0, <2>1, <2>2, <2>3, <2>4 DEF JobMoves, JobTranscript, Attends, vars
  <2> QED
    BY <2>1, <2>2, <2>3, <2>4, <2>5, JobStepKeeps
<1>6. CASE MarkReady(t)
  <2>1. /\ worker[t] = "running" /\ Exists(t) /\ UNCHANGED transcript
        /\ job[t].pc = "stored" \/ job[t].fn = "extract"
    BY <1>6 DEF MarkReady, At
  <2>2. JobMoves(t, "return") /\ JobSaves(t, "ready")
    BY <1>0, <1>6, <2>1, GotoIsJobMoves, SaveIsJobSaves DEF MarkReady
  <2>3. \/ job[t].fn = "transcribe" /\ transcript[t] # NoRevision
        \/ job[t].fn = "extract" /\ asset[job[t].asset].kind = "extraction"
    BY <1>0, <2>1 DEF JobTranscript, JobThread
  <2>4. JobTranscript(t)' /\ asset'[job[t].asset].ingestion_status = "ready"
    BY <1>0, <2>1, <2>2, <2>3 DEF JobMoves, JobSaves, JobTranscript
  <2> QED
    BY <2>1, <2>2, <2>3, <2>4, JobStepKeeps
<1>7. CASE AssetVanished(t)
  <2>1. /\ worker[t] = "running" /\ UNCHANGED <<asset, transcript>>
        /\ asset[job[t].asset].ingestion_status = "deleted"
    BY <1>7 DEF AssetVanished, At, Exists
  <2>2. JobMoves(t, "raise")
    BY <1>7, GotoIsJobMoves DEF AssetVanished
  <2>3. JobTranscript(t)' /\ asset'[job[t].asset].ingestion_status = "deleted"
    BY <1>0, <2>1, <2>2 DEF JobMoves, JobTranscript
  <2> QED
    BY <2>1, <2>2, <2>3, JobStepKeeps
<1> QED
  BY <1>1, <1>2, <1>3, <1>4, <1>5, <1>6, <1>7, JobEndsKeeps DEF Job

----------------------------------------------------------------------------
(* Part 3.  A number is read in one transaction and stored in a later one. *)

\* Storing a number that follows leaves no gap, and what followed before
\* follows still: the writer had stored nothing that could be overwritten.
LEMMA StoringFollows ==
    ASSUME transcript \in [Writers -> Nat], RevisionsHaveNoGaps, RevisionsBounded,
           NEW w \in Writers, NEW n \in Nat, transcript[w] = NoRevision, Follows(n),
           transcript' = [transcript EXCEPT ![w] = n]
    PROVE  /\ RevisionsHaveNoGaps' /\ RevisionsBounded'
           /\ \A r \in Nat : r # NoRevision /\ Follows(r) => Follows(r)'
<1>1. \A v \in Writers : transcript'[v] = IF v = w THEN n ELSE transcript[v]
  OBVIOUS
<1>2. \A r \in Nat : r # NoRevision /\ r \in Revisions(Writers) => r \in Revisions(Writers)'
  BY <1>1 DEF Revisions
<1>3. \A r \in Revisions(Writers)' : r = n \/ r \in Revisions(Writers)
  BY <1>1 DEF Revisions
<1>4. ASSUME NEW r \in Nat, r # NoRevision, Follows(r) PROVE Follows(r)'
  BY <1>2, <1>4 DEF Follows, NoRevision
<1>5. Revisions(Writers) \subseteq Nat
  BY DEF Revisions
<1>6. \A r \in Revisions(Writers)' : r # NoRevision => r \in Nat /\ Follows(r)
  BY <1>3, <1>5 DEF RevisionsHaveNoGaps, Follows
<1>7. RevisionsHaveNoGaps'
  BY <1>4, <1>6 DEF RevisionsHaveNoGaps, Follows
<1>8. RevisionsBounded'
  <2>1. PICK m \in Nat : \A r \in Revisions(Writers) : r <= m
    BY DEF RevisionsBounded
  <2>2. \A r \in Revisions(Writers)' : r <= m + n
    BY <1>3, <1>5, <2>1
  <2> QED
    BY <2>2 DEF RevisionsBounded
<1> QED
  BY <1>4, <1>7, <1>8

\* A number that a job has read is one a transcript can have.
LEMMA NumberedRevision ==
    ASSUME IngestionTypeOK, Numbering, NEW t \in Tasks, job[t].pc = "numbered"
    PROVE  /\ job[t].revision \in Nat /\ job[t].revision # NoRevision
           /\ Follows(job[t].revision)
<1>1. Revisions(Writers) \subseteq Nat
  BY DEF IngestionTypeOK, Revisions
<1>2. job[t].revision \in Nat
  BY DEF IngestionTypeOK, JobRows
<1>3. Follows(job[t].revision)
  BY DEF Numbering, NumbersFollow
<1> QED
  BY <1>1, <1>2, <1>3 DEF Follows, NoRevision

\* Deletions, kills and cleanups in between touch neither the numbers that
\* were computed nor those that are stored.
LEMMA NumberingStep ==
    ASSUME IngestionInv, [IngestionNext]_allVars
    PROVE  Numbering'
<1>0. IngestionTypeOK /\ JobFacts /\ Numbering
  BY DEF IngestionInv
<1>1. ASSUME UNCHANGED <<draft, job, transcript>> PROVE Numbering'
  BY <1>0, <1>1 DEF Numbering, NumbersFollow, RevisionsHaveNoGaps, RevisionsBounded,
                    Follows, Revisions
<1>2. ASSUME UNCHANGED <<draft, transcript>>,
             \A t \in Tasks : job'[t].pc = "numbered" => job'[t] = job[t]
      PROVE  Numbering'
  BY <1>0, <1>2 DEF Numbering, NumbersFollow, RevisionsHaveNoGaps, RevisionsBounded,
                    Follows, Revisions
<1>3. ASSUME NEW t \in Tasks, NEW w \in Workers, NEW a \in Assets,
             SubmitTranscription(t, w, a) \/ SubmitExtraction(t, w, a)
      PROVE  Numbering'
  <2>1. PICK f \in {"transcribe", "extract"} : Submit(t, w, a, f)
    BY <1>3 DEF SubmitTranscription, SubmitExtraction
  <2>2. watchdog[t] = "none" /\ worker[t] = "none" /\ job[t].pc = "start"
    BY <2>1 DEF Submit, run_background_task, IngestionInv, Inv, Threads, JobFacts,
                JobThreads, JobThread
  <2>3. \A s \in Tasks : job'[s].pc = "numbered" => job'[s] = job[s]
    BY <1>0, <2>1, <2>2, Submitted DEF IngestionTypeOK
  <2> QED
    BY <1>2, <2>1, <2>3 DEF Submit
<1>4. ASSUME NEW u \in Authors, AuthorReadsRevision(u) PROVE Numbering'
  <2>1. Follows(NextRevision)
    BY <1>0, NextRevisionFollows DEF IngestionTypeOK, Numbering
  <2>2. /\ UNCHANGED <<job, transcript>>
        /\ \A v \in Authors : draft'[v] = draft[v] \/ draft'[v] = NextRevision
    BY <1>0, <1>4 DEF AuthorReadsRevision, IngestionTypeOK
  <2> QED
    BY <1>0, <2>1, <2>2 DEF Numbering, NumbersFollow, RevisionsHaveNoGaps, RevisionsBounded,
                            Follows, Revisions
<1>5. ASSUME NEW u \in Authors, AuthorStoresTranscript(u) PROVE Numbering'
  <2>1. u \in Writers /\ draft[u] \in Nat /\ Follows(draft[u]) /\ transcript[u] = NoRevision
    BY <1>0, <1>5 DEF AuthorStoresTranscript, IngestionTypeOK, Numbering, NumbersFollow, Writers
  <2>2. /\ RevisionsHaveNoGaps' /\ RevisionsBounded'
        /\ \A r \in Nat : r # NoRevision /\ Follows(r) => Follows(r)'
    BY <1>0, <1>5, <2>1, StoringFollows DEF AuthorStoresTranscript, IngestionTypeOK, Numbering
  <2>3. \A t \in Tasks : job[t].pc = "numbered" =>
          job[t].revision \in Nat /\ job[t].revision # NoRevision /\ Follows(job[t].revision)
    BY <1>0, NumberedRevision
  <2>4. NumbersFollow'
    BY <1>0, <1>5, <2>2, <2>3
       DEF AuthorStoresTranscript, IngestionTypeOK, Numbering, NumbersFollow
  <2> QED
    BY <2>2, <2>4 DEF Numbering
<1>6. ASSUME NEW t \in Tasks, ReadRevision(t) PROVE Numbering'
  <2>1. Follows(NextRevision)
    BY <1>0, NextRevisionFollows DEF IngestionTypeOK, Numbering
  <2>2. /\ UNCHANGED <<draft, transcript>>
        /\ \A s \in Tasks : job'[s] = job[s] \/ job'[s].revision = NextRevision
    BY <1>0, <1>6 DEF ReadRevision, IngestionTypeOK, JobRows
  <2> QED
    BY <1>0, <2>1, <2>2 DEF Numbering, NumbersFollow, RevisionsHaveNoGaps, RevisionsBounded,
                            Follows, Revisions
<1>7. ASSUME NEW t \in Tasks, StoreTranscript(t) PROVE Numbering'
  <2>1. /\ t \in Writers /\ transcript[t] = NoRevision
        /\ job[t].revision \in Nat /\ Follows(job[t].revision)
    BY <1>0, <1>7, NumberedRevision
       DEF StoreTranscript, At, Writers, JobFacts, JobTranscripts, JobTranscript
  <2>2. /\ RevisionsHaveNoGaps' /\ RevisionsBounded'
        /\ \A r \in Nat : r # NoRevision /\ Follows(r) => Follows(r)'
    BY <1>0, <1>7, <2>1, StoringFollows DEF StoreTranscript, IngestionTypeOK, Numbering
  <2>3. \A s \in Tasks : job'[s].pc = "numbered" => job'[s] = job[s] /\ job[s].pc = "numbered"
    BY <1>0, <1>7, Moved DEF StoreTranscript, IngestionTypeOK
  <2>4. \A s \in Tasks : job[s].pc = "numbered" =>
          job[s].revision \in Nat /\ job[s].revision # NoRevision /\ Follows(job[s].revision)
    BY <1>0, NumberedRevision
  <2>5. NumbersFollow'
    BY <1>0, <1>7, <2>2, <2>3, <2>4
       DEF StoreTranscript, IngestionTypeOK, Numbering, NumbersFollow
  <2> QED
    BY <2>2, <2>5 DEF Numbering
<1>8. ASSUME NEW t \in Tasks,
             \/ MarkProcessing(t) \/ ProviderMissing(t) \/ MediaFails(t)
             \/ MarkReady(t) \/ AssetVanished(t)
      PROVE  Numbering'
  <2>1. PICK label \in {"processing", "return", "raise", "no provider"} :
          Goto(t, label) /\ UNCHANGED <<draft, transcript>>
    BY <1>8 DEF MarkProcessing, ProviderMissing, MediaFails, MarkReady, AssetVanished
  <2>2. \A s \in Tasks : job'[s].pc = "numbered" => job'[s] = job[s]
    BY <1>0, <2>1, Moved DEF IngestionTypeOK
  <2> QED
    BY <1>2, <2>1, <2>2
<1>9. ASSUME UNCHANGED allVars PROVE Numbering'
  BY <1>1, <1>9 DEF allVars, ingestionVars
<1>10. ASSUME NEW a \in Assets, AddAsset(a) \/ DeleteAsset(a) \/ AgeAsset(a) PROVE Numbering'
  BY <1>1, <1>10 DEF AddAsset, DeleteAsset, AgeAsset
<1>11. ASSUME \/ \E a \in Patchable : PostAsset(a) \/ PatchAsset(a)
              \/ \E w \in Deletable : DeleteTranscript(w)
              \/ SweepAssets \/ SweepTasks \/ OpenPublishTab \/ FixStuckExtractions
              \/ Restart \/ Environment
              \/ \E t \in Tasks : Run(t) \/ JobEnds(t)
       PROVE  Numbering'
  <2>1. UNCHANGED <<draft, job, transcript>>
    BY <1>11 DEF PostAsset, PatchAsset, DeleteTranscript, SweepAssets, SweepTasks, OpenPublishTab,
                 FixStuckExtractions, Restart, Environment, Run, JobEnds, ingestionVars
  <2> QED
    BY <1>1, <2>1
<1> QED
  BY <1>3, <1>4, <1>5, <1>6, <1>7, <1>8, <1>9, <1>10, <1>11 DEF IngestionNext, Job

----------------------------------------------------------------------------
(* The invariant.                                                          *)

LEMMA IngestionInvInit == IngestionInit => IngestionInv
<1> SUFFICES ASSUME IngestionInit PROVE IngestionInv
  OBVIOUS
<1>1. IngestionTypeOK /\ Inv
  BY IngestionInitType, InitInv DEF IngestionInit
<1>2. \A t \in Tasks :
        /\ worker[t] = "none" /\ watchdog[t] = "none" /\ transcript[t] = NoRevision
        /\ job[t].fn = "none" /\ job[t].asset = NoAsset /\ job[t].pc = "start"
  BY DEF IngestionInit, Init, Writers
<1>3. \A a \in Assets : asset[a].ingestion_status = "absent"
  BY DEF IngestionInit
<1>4. JobFacts
  <2>1. JobThreads /\ JobTranscripts
    BY <1>2 DEF JobThreads, JobThread, JobTranscripts, JobTranscript
  <2>2. ReadyLinkWasTranscribed /\ ProcessingAttended
    BY <1>3 DEF ReadyLinkWasTranscribed, ProcessingAttended
  <2> QED
    BY <2>1, <2>2 DEF JobFacts
<1>5. Revisions(Writers) \subseteq {0} /\ \A u \in Authors : draft[u] = NoRevision
  BY DEF IngestionInit, Revisions, NoRevision
<1>6. Numbering
  BY <1>2, <1>5 DEF Numbering, NumbersFollow, RevisionsHaveNoGaps, RevisionsBounded, NoRevision
<1> QED
  BY <1>1, <1>4, <1>6 DEF IngestionInv

LEMMA JobFactsStep ==
    ASSUME IngestionInv, [IngestionNext]_allVars
    PROVE  JobFacts'
<1>0. IngestionTypeOK /\ Inv /\ JobFacts /\ NumbersFollow /\ RevisionsBounded
  BY DEF IngestionInv, Numbering
<1>1. ASSUME \/ \E a \in Assets : AddAsset(a) \/ DeleteAsset(a) \/ AgeAsset(a)
             \/ \E a \in Patchable : PostAsset(a) \/ PatchAsset(a)
             \/ SweepAssets \/ OpenPublishTab \/ FixStuckExtractions
      PROVE  JobFacts'
  BY <1>0, <1>1, AssetStep, AssetsMoveKeeps
<1>2. ASSUME NEW t \in Tasks, NEW w \in Workers, NEW a \in Assets,
             SubmitTranscription(t, w, a) \/ SubmitExtraction(t, w, a)
      PROVE  JobFacts'
  BY <1>0, <1>2, SubmitKeeps
<1>3. ASSUME \/ \E u \in Authors : AuthorReadsRevision(u) \/ AuthorStoresTranscript(u)
             \/ \E w \in Deletable : DeleteTranscript(w)
      PROVE  JobFacts'
  BY <1>0, <1>3, PeopleKeep
<1>4. ASSUME NEW t \in Tasks, Job(t) PROVE JobFacts'
  BY <1>0, <1>4, JobKeeps
<1>5. ASSUME SweepTasks \/ Restart \/ Environment \/ \E t \in Tasks : Run(t)
      PROVE  JobFacts'
  <2>1. UNCHANGED <<asset, job, transcript, hand_edited>>
    BY <1>5 DEF SweepTasks, Restart, Environment, Run, ingestionVars
  <2>2. ThreadsMove
    BY <1>0, <1>5, Moves DEF SweepTasks, Restart, Environment, Run
  <2> QED
    BY <1>0, <2>1, <2>2, RunnerKeeps
<1>6. ASSUME UNCHANGED allVars PROVE JobFacts'
  <2>1. ThreadsMove /\ UNCHANGED <<asset, job, transcript, hand_edited>>
    BY <1>6 DEF allVars, vars, ingestionVars, ThreadsMove
  <2> QED
    BY <1>0, <2>1, RunnerKeeps
<1> QED
  BY <1>1, <1>2, <1>3, <1>4, <1>5, <1>6 DEF IngestionNext

LEMMA IngestionInvStep == IngestionInv /\ [IngestionNext]_allVars => IngestionInv'
<1> SUFFICES ASSUME IngestionInv, [IngestionNext]_allVars PROVE IngestionInv'
  OBVIOUS
<1>1. IngestionTypeOK'
  BY IngestionTypeStep DEF IngestionInv, JobFacts, Numbering
<1>2. Inv'
  BY TasksStep, InvStep DEF IngestionInv
<1> QED
  BY <1>1, <1>2, JobFactsStep, NumberingStep DEF IngestionInv

LEMMA IngestionInvariance == IngestionSpec => []IngestionInv
BY IngestionInvInit, IngestionInvStep, PTL DEF IngestionSpec

\* The tables of media ingestion hold rows of their types.
THEOREM IngestionTypeCorrect == IngestionSpec => []IngestionTypeOK
BY IngestionInvariance, PTL DEF IngestionInv

\* The task page and the media tab agree with the transcripts that are
\* stored: completed means stored, failed means not stored (or the asset was
\* deleted, or its status chosen by an API client), a READY link has a
\* transcript unless an API client chose that status.
THEOREM RecordsTrue == IngestionSpec => []RecordsAreTrue
<1>1. IngestionInv => RecordsAreTrue
  <2> SUFFICES ASSUME IngestionInv PROVE RecordsAreTrue
    OBVIOUS
  <2>1. CompletedHasTranscript
    BY DEF IngestionInv, Inv, VerdictMatchesOutcome, JobFacts, JobThreads, JobThread,
           JobTranscripts, JobTranscript, CompletedHasTranscript
  <2>2. FailedHasNoTranscript
    BY DEF IngestionInv, Inv, VerdictMatchesOutcome, JobFacts, JobThreads, JobThread,
           JobTranscripts, JobTranscript, FailedHasNoTranscript
  <2> QED
    BY <2>1, <2>2 DEF IngestionInv, JobFacts, RecordsAreTrue
<1> QED
  BY <1>1, IngestionInvariance, PTL

\* No job that ended by itself leaves its asset PROCESSING behind; a row that
\* an API client posted or patched is the named exception.
THEOREM ProcessingCaused == IngestionSpec => []ProcessingHasCause
<1>1. IngestionInv => ProcessingHasCause
  BY DEF IngestionInv, JobFacts, ProcessingAttended, Attends, ProcessingHasCause
<1> QED
  BY <1>1, IngestionInvariance, PTL

\* However many jobs and people race for a revision number, and whichever
\* transcripts are deleted meanwhile, the numbers have no gaps.
THEOREM NoRevisionGaps == IngestionSpec => []RevisionsHaveNoGaps
BY IngestionInvariance, PTL DEF IngestionInv, Numbering
=============================================================================
