----------------------------- MODULE SpliceJobs -----------------------------
(***************************************************************************)
(* Processing jobs of splice: users submit, edit and confirm them, engines *)
(* take them from the answers to their heartbeats and report by PATCH.     *)
(*                                                                         *)
(* The table is the only memory of a job: nothing claims one when it is    *)
(* handed out, and nothing looks for one whose engine stopped.             *)
(***************************************************************************)
EXTENDS LocalEngine

CONSTANTS
    Jobs,           \* LocalProcessingJob rows
    HeartbeatBatch, \* jobs in the answer to a heartbeat (10 in the code)
    Editable,       \* the jobs that users edit and confirm
    Edits           \* the fields users PATCH, as records

ASSUME JobsAssumption == IsFiniteSet(Jobs) /\ None \notin Jobs

VARIABLES
    job,        \* the LocalProcessingJob table
    work,       \* the job that each engine's program is busy with
    excused     \* jobs whose engine stopped over them, or that a user's PATCH wrote

jobVars == <<job, work, excused>>
vars == <<engineVars, request, jobVars, touches>>

----------------------------------------------------------------------------
Statuses == {"queued", "waiting_for_engine", "waiting_for_media", "processing",
             "completed", "failed", "cancelled"}

\* The serializer accepts the choices of the status, and any number that is not negative
\* as the priority: the 0 to 10 of its help text is no validator.
ASSUME EditsAssumption ==
    \A edit \in Edits :
        /\ "status" \in DOMAIN edit => edit.status \in Statuses
        /\ "priority" \in DOMAIN edit => edit.priority \in Nat

JobRows == [exists : BOOLEAN, local_engine : Engines \cup {None}, status : Statuses,
            priority : Nat, user_confirmed : BOOLEAN, created_at : 0..Cardinality(Jobs)]

NoJob == [exists |-> FALSE, local_engine |-> None, status |-> "queued", priority |-> 5,
          user_confirmed |-> FALSE, created_at |-> 0]

\* A deleted row is not used for another job.
GoneJob == [NoJob EXCEPT !.created_at = Cardinality(Jobs)]

NoWork == [job |-> None, phase |-> "idle"]

Init ==
    /\ EngineInit
    /\ request = [r \in Requests \cup Uplinks |-> Idle]
    /\ job = [j \in Jobs |-> NoJob]
    /\ work = [e \in Engines |-> NoWork]
    /\ excused = {}
    /\ touches = 0

----------------------------------------------------------------------------
(* Users.                                                                  *)

\* Any engine that is online is picked; the job is inserted later.
create(r, e) ==
    /\ engine[e].exists
    /\ engine[e].is_online
    /\ \E j \in Jobs : job[j] = NoJob
    /\ Start(r, "submitting", e, None)
    /\ UNCHANGED <<engineVars, jobVars, touches>>

\* The insert fails if the engine was deleted.
InsertJob(r, j) ==
    LET e == request[r].at
        born == Cardinality({k \in Jobs : job[k] # NoJob}) + 1
    IN  /\ request[r].doing = "submitting"
        /\ job[j] = NoJob
        /\ job' = IF engine[e].exists
                  THEN [job EXCEPT ![j] = [NoJob EXCEPT !.exists = TRUE, !.local_engine = e,
                                                        !.created_at = born]]
                  ELSE job
        /\ Finish(r)
        /\ UNCHANGED <<engineVars, work, excused, touches>>

Edited(row, edit) ==
    [row EXCEPT !.status = IF "status" \in DOMAIN edit THEN edit.status ELSE @,
                !.priority = IF "priority" \in DOMAIN edit THEN edit.priority ELSE @]

\* A user's PATCH: the row is loaded ...
LoadJob(r, j, edit) ==
    /\ job[j].exists
    /\ Touch
    /\ Start(r, "patching job", j, Edited(job[j], edit))
    /\ UNCHANGED <<engineVars, jobVars>>

\* ... and all of its columns are written: a row deleted meanwhile is inserted again,
\* if its engine is still there.
Saved(copy, j) == IF engine[copy.local_engine].exists THEN [job EXCEPT ![j] = copy] ELSE job

SaveJob(r) ==
    LET j == request[r].at
    IN  /\ request[r].doing = "patching job"
        /\ job' = Saved(request[r].copy, j)
        /\ excused' = excused \cup {j}
        /\ Finish(r)
        /\ UNCHANGED <<engineVars, work, touches>>

\* confirm never looks at the status ...
confirm(r, j) ==
    /\ job[j].exists
    /\ Touch
    /\ Start(r, "confirming", j, None)
    /\ UNCHANGED <<engineVars, jobVars>>

\* ... saves the confirmation by itself; the save raises when the row is gone ...
SaveConfirmed(r) ==
    LET j == request[r].at
    IN  /\ request[r].doing = "confirming"
        /\ IF job[j].exists
           THEN /\ job' = [job EXCEPT ![j].user_confirmed = TRUE]
                /\ request' = [request EXCEPT ![r].doing = "releasing"]
           ELSE /\ Finish(r)
                /\ UNCHANGED job
        /\ UNCHANGED <<engineVars, work, excused, touches>>

\* Defect: the job is set to be under way at once.
ReleaseJob_Processing(r) ==
    LET j == request[r].at
    IN  /\ request[r].doing = "releasing"
        /\ job' = IF job[j].exists /\ engine[job[j].local_engine].auto_process_jobs
                  THEN [job EXCEPT ![j].status = "processing"] ELSE job
        /\ Finish(r)
        /\ UNCHANGED <<engineVars, work, excused, touches>>

\* ... and then the status, if the engine starts jobs by itself.
ReleaseJob(r) ==
    LET j == request[r].at
    IN  /\ request[r].doing = "releasing"
        /\ job' = IF job[j].exists /\ engine[job[j].local_engine].auto_process_jobs
                  THEN [job EXCEPT ![j].status = "waiting_for_engine"] ELSE job
        /\ Finish(r)
        /\ UNCHANGED <<engineVars, work, excused, touches>>

DeleteJob(j) ==
    /\ job[j].exists
    /\ job' = [job EXCEPT ![j] = GoneJob]
    /\ UNCHANGED <<engineVars, request, work, excused, touches>>

DeleteEngine(e) ==
    /\ DeleteEngineRow(e)
    /\ job' = [j \in Jobs |-> IF job[j].local_engine = e THEN GoneJob ELSE job[j]]
    /\ UNCHANGED <<work, excused, touches>>

----------------------------------------------------------------------------
(* Engines. Their programs are not in this repository: an engine works on  *)
(* one job at a time, and tells the server when it starts and ends it.     *)

Before(i, j) ==
    \/ job[i].priority > job[j].priority
    \/ job[i].priority = job[j].priority /\ job[i].created_at < job[j].created_at

\* Defect: confirmed jobs are left out of the answer.
Waiting_QueuedOnly(e) ==
    {j \in Jobs : job[j].exists /\ job[j].local_engine = e /\ job[j].status = "queued"}

Waiting(e) ==
    {j \in Jobs : /\ job[j].exists
                  /\ job[j].local_engine = e
                  /\ job[j].status \in {"queued", "waiting_for_engine"}}

\* The jobs in the answer to a heartbeat of an engine.
jobs_queued(e) ==
    {j \in Waiting(e) : Cardinality({i \in Waiting(e) : Before(i, j)}) < HeartbeatBatch}

heartbeat(e) ==
    /\ authenticate(e)
    /\ \/ /\ work[e] = NoWork
          /\ \E j \in jobs_queued(e) : work' = [work EXCEPT ![e] = [job |-> j, phase |-> "taken"]]
       \/ /\ work[e] # NoWork \/ jobs_queued(e) = {}
          /\ UNCHANGED work
    /\ UNCHANGED <<agent, request, job, excused, touches>>

\* The engine begins to PATCH the job; it drops a job that is not there.
Report(r, e, status) ==
    LET j == work[e].job
    IN  /\ work[e].phase \in {"taken", "running"}
        /\ status \in (IF work[e].phase = "taken" THEN {"processing"} ELSE {"completed", "failed"})
        /\ authenticate(e)
        /\ IF job[j].exists
           THEN /\ Start(r, "reporting", j, [job[j] EXCEPT !.status = status])
                /\ work' = [work EXCEPT ![e].phase = IF @ = "taken" THEN "starting" ELSE "ending"]
           ELSE /\ request[r] = Idle
                /\ work' = [work EXCEPT ![e] = NoWork]
                /\ UNCHANGED request
        /\ UNCHANGED <<agent, job, excused, touches>>

Answered(e, status) == IF status = "processing" THEN [work[e] EXCEPT !.phase = "running"] ELSE NoWork

\* The report is saved and the engine, if it still runs, hears of it.
partial_update(r) ==
    LET j == request[r].at
        waits(e) == work[e].job = j /\ work[e].phase = (IF request[r].copy.status = "processing"
                                                        THEN "starting" ELSE "ending")
    IN  /\ request[r].doing = "reporting"
        /\ job' = Saved(request[r].copy, j)
        /\ work' = [e \in Engines |-> IF waits(e) THEN Answered(e, request[r].copy.status)
                                      ELSE work[e]]
        /\ Finish(r)
        /\ UNCHANGED <<engineVars, excused, touches>>

\* An engine's program ends, or loses its machine; it forgets what it worked on.
EngineStops(e) ==
    /\ agent[e] = "up"
    /\ agent' = [agent EXCEPT ![e] = "down"]
    /\ work' = [work EXCEPT ![e] = NoWork]
    /\ excused' = IF work[e].phase \in {"starting", "running", "ending"} THEN excused \cup {work[e].job}
                ELSE excused
    /\ UNCHANGED <<engine, request, job, touches>>

EngineStarts(e) ==
    /\ agent[e] = "down"
    /\ engine[e].exists
    /\ agent' = [agent EXCEPT ![e] = "up"]
    /\ UNCHANGED <<engine, request, jobVars, touches>>

----------------------------------------------------------------------------
Next ==
    \/ EngineStep /\ UNCHANGED jobVars
    \/ \E r \in Requests, e \in Engines : create(r, e)
    \/ \E r \in Uplinks, e \in Engines, status \in Statuses : Report(r, e, status)
    \/ \E r \in Requests, j \in Jobs :
         \/ InsertJob(r, j)
         \/ j \in Editable /\ (confirm(r, j) \/ \E edit \in Edits : LoadJob(r, j, edit))
    \/ \E r \in Requests : SaveJob(r) \/ SaveConfirmed(r) \/ ReleaseJob(r)
    \/ \E r \in Uplinks : partial_update(r)
    \/ \E j \in Jobs : DeleteJob(j)
    \/ \E e \in Engines : DeleteEngine(e) \/ heartbeat(e) \/ EngineStops(e) \/ EngineStarts(e)

Spec == Init /\ [][Next]_vars

\* A running engine sends heartbeats and reports, and a report that began is saved.
FairSpec ==
    /\ Spec
    /\ \A e \in Engines : /\ WF_vars(heartbeat(e))
                          /\ WF_vars(\E r \in Uplinks, status \in Statuses : Report(r, e, status))
    /\ \A r \in Uplinks : WF_vars(partial_update(r))

----------------------------------------------------------------------------
(* Properties.                                                             *)

SpliceTypeOK ==
    /\ engine \in [Engines -> EngineRows]
    /\ agent \in [Engines -> {"up", "down"}]
    /\ job \in [Jobs -> JobRows]
    /\ work \in [Engines -> [job : Jobs \cup {None},
                             phase : {"idle", "taken", "starting", "running", "ending"}]]
    /\ excused \subseteq Jobs
    /\ touches \in 0..MaxTouches

\* A job is shown as processing only while an engine works on it, except when that
\* engine was stopped over it or a user's PATCH put the status there: cancelling,
\* confirming and reporting in any order leave no job under way that nobody works on.
ProcessingHasWorker ==
    \A j \in Jobs :
        job[j].exists /\ job[j].status = "processing" =>
            \/ j \in excused
            \/ \E e \in Engines : work[e].job = j /\ work[e].phase \in {"running", "ending"}

\* A waiting job is handed to its engine in the end, behind any number of others and
\* whatever confirmations re-open, as long as the engine runs.
WaitingIsTaken ==
    \A j \in Jobs :
        (\E e \in Engines : j \in Waiting(e)) ~>
            \/ \E e \in Engines : work[e].job = j
            \/ ~job[j].exists
            \/ job[j].status \notin {"queued", "waiting_for_engine"}
            \/ agent[job[j].local_engine] = "down"
=============================================================================
