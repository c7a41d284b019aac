-------------------------- MODULE BackgroundTasks --------------------------
(***************************************************************************)
(* The background task runner: services/tasks.py, the BackgroundTask row,  *)
(* and the fix_stuck_tasks command.                                        *)
(*                                                                         *)
(* A view running in a gunicorn worker process calls run_background_task,  *)
(* which commits a pending row and starts a daemon watchdog thread in the  *)
(* same process.  The watchdog marks the row running, runs fn in a second  *)
(* thread, joins that thread with a timeout, re-reads the row, and writes  *)
(* a verdict.  Every read and every save is one transaction (the project   *)
(* runs in autocommit), so other processes interleave between any two of   *)
(* them.  Both threads vanish when their process dies.                     *)
(*                                                                         *)
(* Rows are never deleted: deleting an episode nulls BackgroundTask.episode*)
(* and no view, command or admin page deletes a task, so the DoesNotExist  *)
(* returns of the watchdog are not modelled.                               *)
(***************************************************************************)
EXTENDS FiniteSets

CONSTANTS
    Tasks,                \* the tasks views may ever submit
    Workers,              \* gunicorn worker processes
    NoWorker,             \* the host of a task that was not submitted yet
    CleanupWhileServing   \* may fix_stuck_tasks run while workers are up?

ASSUME NoWorkerAssumption == NoWorker \notin Workers
ASSUME CleanupAssumption == CleanupWhileServing \in BOOLEAN

VARIABLES
    row,        \* the BackgroundTask table
    old,        \* tasks whose created_at lies before any new cutoff
    host,       \* the process whose threads serve the task
    watchdog,   \* program counter of the watchdog thread
    task_obj,   \* the watchdog's local copy of the row; NoRow outside its life
    worker,     \* the thread that runs fn
    up,         \* worker processes alive
    sweep,      \* fix_stuck_tasks: idle, due, or between count() and update()
    cutoff      \* the tasks created before that command's cutoff

vars == <<row, old, host, watchdog, task_obj, worker, up, sweep, cutoff>>

----------------------------------------------------------------------------
InProgress == {"pending", "running"}
Terminal == {"completed", "failed", "timeout"}

\* A timestamp matters only as null or set; an error message is named by the
\* code that composed it.
Times == {"null", "set"}
Errors == {"", "exception", "timed out", "interrupted"}

Rows == [status : {"absent"} \cup InProgress \cup Terminal,
         started_at : Times,
         completed_at : Times,
         error_message : Errors]

NoRow == [status |-> "absent", started_at |-> "null",
          completed_at |-> "null", error_message |-> ""]

is_terminal(r) == r.status \in Terminal

WatchdogLive == {"starting", "fetched", "joining", "refetched", "decided"}

TypeOK ==
    /\ row \in [Tasks -> Rows]
    /\ old \subseteq Tasks
    /\ host \in [Tasks -> Workers \cup {NoWorker}]
    /\ watchdog \in [Tasks -> {"none", "exited", "killed"} \cup WatchdogLive]
    /\ task_obj \in [Tasks -> Rows]
    /\ worker \in [Tasks -> {"none", "running", "returned", "raised", "killed"}]
    /\ up \subseteq Workers
    /\ sweep \in {"idle", "due", "counted"}
    /\ cutoff \subseteq Tasks

Init ==
    /\ row = [t \in Tasks |-> NoRow]
    /\ old = {}
    /\ host = [t \in Tasks |-> NoWorker]
    /\ watchdog = [t \in Tasks |-> "none"]
    /\ task_obj = [t \in Tasks |-> NoRow]
    /\ worker = [t \in Tasks |-> "none"]
    /\ up = Workers
    /\ sweep = "idle"
    /\ cutoff = {}

----------------------------------------------------------------------------
(* Submitting a task, and the watchdog thread.                             *)

NewRow == [NoRow EXCEPT !.status = "pending"]

run_background_task(t, w) ==
    /\ w \in up
    /\ row[t].status = "absent"
    /\ row' = [row EXCEPT ![t] = NewRow]
    /\ host' = [host EXCEPT ![t] = w]
    /\ watchdog' = [watchdog EXCEPT ![t] = "starting"]
    /\ UNCHANGED <<old, task_obj, worker, up, sweep, cutoff>>

\* The first read of the row, in the watchdog's own thread.
WatchdogFetch(t) ==
    /\ watchdog[t] = "starting"
    /\ watchdog' = [watchdog EXCEPT ![t] = "fetched"]
    /\ task_obj' = [task_obj EXCEPT ![t] = row[t]]
    /\ UNCHANGED <<row, old, host, worker, up, sweep, cutoff>>

Started(r) == [r EXCEPT !.status = "running", !.started_at = "set"]

\* save(update_fields=["status", "started_at"]), whatever the row now holds,
\* then worker.start().
WatchdogMarkRunning(t) ==
    /\ watchdog[t] = "fetched"
    /\ watchdog' = [watchdog EXCEPT ![t] = "joining"]
    /\ task_obj' = [task_obj EXCEPT ![t] = Started(@)]
    /\ row' = [row EXCEPT ![t] = Started(@)]
    /\ worker' = [worker EXCEPT ![t] = "running"]
    /\ UNCHANGED <<old, host, up, sweep, cutoff>>

\* fn ends by returning or by an exception that the worker thread keeps in
\* exc_holder.  It may also never end.
WorkerReturns(t) ==
    /\ worker[t] = "running"
    /\ worker' = [worker EXCEPT ![t] = "returned"]
    /\ UNCHANGED <<row, old, host, watchdog, task_obj, up, sweep, cutoff>>

WorkerRaises(t) ==
    /\ worker[t] = "running"
    /\ worker' = [worker EXCEPT ![t] = "raised"]
    /\ UNCHANGED <<row, old, host, watchdog, task_obj, up, sweep, cutoff>>

\* Once join returns the watchdog re-reads the row and leaves a row alone
\* that somebody else has already ended.
Refetch(t) ==
    /\ watchdog[t] = "joining"
    /\ IF is_terminal(row[t])
       THEN /\ watchdog' = [watchdog EXCEPT ![t] = "exited"]
            /\ task_obj' = [task_obj EXCEPT ![t] = NoRow]
       ELSE /\ watchdog' = [watchdog EXCEPT ![t] = "refetched"]
            /\ task_obj' = [task_obj EXCEPT ![t] = row[t]]
    /\ UNCHANGED <<row, old, host, worker, up, sweep, cutoff>>

JoinReturns(t) == worker[t] # "running" /\ Refetch(t)

\* Defect: join() without a timeout.
JoinTimesOut_Never(t) == FALSE

JoinTimesOut(t) == worker[t] = "running" /\ Refetch(t)

\* Defect: a status no page knows.
Verdict_Unknown(t) == [status |-> "done", error |-> ""]

\* Defect: exc_holder is not consulted.
Verdict_IgnoresException(t) ==
    IF worker[t] = "running" THEN [status |-> "timeout", error |-> "timed out"]
    ELSE [status |-> "completed", error |-> ""]

\* is_alive() is asked only now: fn may have ended since join timed out.
Verdict(t) ==
    CASE worker[t] = "running" -> [status |-> "timeout", error |-> "timed out"]
      [] worker[t] = "raised" -> [status |-> "failed", error |-> "exception"]
      [] OTHER -> [status |-> "completed", error |-> task_obj[t].error_message]

Ended(r, s, e) ==
    [r EXCEPT !.status = s, !.completed_at = "set", !.error_message = e]

\* Defect: completed_at stays null.
WatchdogDecide_NoCompletedAt(t) ==
    /\ watchdog[t] = "refetched"
    /\ watchdog' = [watchdog EXCEPT ![t] = "decided"]
    /\ task_obj' = [task_obj EXCEPT ![t] =
                       [@ EXCEPT !.status = Verdict(t).status,
                                 !.error_message = Verdict(t).error]]
    /\ UNCHANGED <<row, old, host, worker, up, sweep, cutoff>>

WatchdogDecide(t) ==
    /\ watchdog[t] = "refetched"
    /\ watchdog' = [watchdog EXCEPT ![t] = "decided"]
    /\ task_obj' = [task_obj EXCEPT ![t] =
                       Ended(@, Verdict(t).status, Verdict(t).error)]
    /\ UNCHANGED <<row, old, host, worker, up, sweep, cutoff>>

\* Defect: update_fields forgets the status.
WatchdogSave_NoStatus(t) ==
    /\ watchdog[t] = "decided"
    /\ watchdog' = [watchdog EXCEPT ![t] = "exited"]
    /\ row' = [row EXCEPT ![t] =
                 [@ EXCEPT !.completed_at = task_obj[t].completed_at,
                           !.error_message = task_obj[t].error_message]]
    /\ task_obj' = [task_obj EXCEPT ![t] = NoRow]
    /\ UNCHANGED <<old, host, worker, up, sweep, cutoff>>

\* save(update_fields=["status", "completed_at", "error_message"])
Saved(r, copy) ==
    [r EXCEPT !.status = copy.status, !.completed_at = copy.completed_at,
              !.error_message = copy.error_message]

WatchdogSave(t) ==
    /\ watchdog[t] = "decided"
    /\ watchdog' = [watchdog EXCEPT ![t] = "exited"]
    /\ row' = [row EXCEPT ![t] = Saved(@, task_obj[t])]
    /\ task_obj' = [task_obj EXCEPT ![t] = NoRow]
    /\ UNCHANGED <<old, host, worker, up, sweep, cutoff>>

----------------------------------------------------------------------------
(* Processes.  gunicorn kills and replaces a worker whose request exceeds  *)
(* --timeout; a redeploy or a crash takes the whole container down.  Both  *)
(* threads of a task are daemons of its host.                              *)

KillThreads(dying) ==
    /\ watchdog' = [t \in Tasks |->
                      IF host[t] \in dying /\ watchdog[t] \in WatchdogLive
                      THEN "killed" ELSE watchdog[t]]
    /\ task_obj' = [t \in Tasks |-> IF host[t] \in dying THEN NoRow ELSE task_obj[t]]
    /\ worker' = [t \in Tasks |->
                    IF host[t] \in dying /\ worker[t] = "running"
                    THEN "killed" ELSE worker[t]]

KillWorker(w) ==
    /\ w \in up
    /\ up' = up \ {w}
    /\ KillThreads({w})
    /\ UNCHANGED <<row, old, host, sweep, cutoff>>

\* The container start runs fix_stuck_tasks before gunicorn, as the command's
\* docstring has it; the container may die again in the middle of the command.
RestartContainer ==
    /\ up' = {}
    /\ KillThreads(Workers)
    /\ sweep' = "due"
    /\ cutoff' = {}
    /\ UNCHANGED <<row, old, host>>

\* Defect: gunicorn does not wait for the command.
BootWorker_AtOnce(w) ==
    /\ w \notin up
    /\ up' = up \cup {w}
    /\ UNCHANGED <<row, old, host, watchdog, task_obj, worker, sweep, cutoff>>

BootWorker(w) ==
    /\ w \notin up
    /\ sweep = "idle" \/ CleanupWhileServing
    /\ up' = up \cup {w}
    /\ UNCHANGED <<row, old, host, watchdog, task_obj, worker, sweep, cutoff>>

\* Time passes: the task's created_at falls behind the --minutes threshold.
Age(t) ==
    /\ row[t].status # "absent"
    /\ t \notin old
    /\ old' = old \cup {t}
    /\ UNCHANGED <<row, host, watchdog, task_obj, worker, up, sweep, cutoff>>

----------------------------------------------------------------------------
(* fix_stuck_tasks.  The cutoff is fixed when the command starts; count()  *)
(* and update() each evaluate the filter afresh.                           *)

\* Defect: update() reuses the rows that count() saw.
stuck_tasks_NotRefiltered(before) == before

stuck_tasks(before) == {t \in before : row[t].status \in InProgress}

\* An operator, or the start of another replica, runs the command while this
\* container serves.
RunCommand ==
    /\ CleanupWhileServing
    /\ sweep = "idle"
    /\ sweep' = "due"
    /\ UNCHANGED <<row, old, host, watchdog, task_obj, worker, up, cutoff>>

SweepCount ==
    /\ sweep = "due"
    /\ IF stuck_tasks(old) # {}
       THEN sweep' = "counted" /\ cutoff' = old
       ELSE sweep' = "idle" /\ cutoff' = {}
    /\ UNCHANGED <<row, old, host, watchdog, task_obj, worker, up>>

\* Defect: orphans are queued again instead of ended.
SweepUpdate_Requeues ==
    /\ sweep = "counted"
    /\ row' = [t \in Tasks |->
                 IF t \in stuck_tasks(cutoff)
                 THEN [row[t] EXCEPT !.status = "pending"] ELSE row[t]]
    /\ sweep' = "idle"
    /\ cutoff' = {}
    /\ UNCHANGED <<old, host, watchdog, task_obj, worker, up>>

SweepUpdate ==
    /\ sweep = "counted"
    /\ row' = [t \in Tasks |->
                 IF t \in stuck_tasks(cutoff)
                 THEN Ended(row[t], "timeout", "interrupted") ELSE row[t]]
    /\ sweep' = "idle"
    /\ cutoff' = {}
    /\ UNCHANGED <<old, host, watchdog, task_obj, worker, up>>

----------------------------------------------------------------------------
Watchdog(t) ==
    \/ WatchdogFetch(t) \/ WatchdogMarkRunning(t)
    \/ JoinReturns(t) \/ JoinTimesOut(t)
    \/ WatchdogDecide(t) \/ WatchdogSave(t)

Next ==
    \/ \E t \in Tasks, w \in Workers : run_background_task(t, w)
    \/ \E t \in Tasks : Watchdog(t)
    \/ \E t \in Tasks : WorkerReturns(t) \/ WorkerRaises(t) \/ Age(t)
    \/ \E w \in Workers : KillWorker(w) \/ BootWorker(w)
    \/ RestartContainer \/ RunCommand \/ SweepCount \/ SweepUpdate

Spec == Init /\ [][Next]_vars

\* The operating system schedules the watchdog threads, the join timer
\* fires, a started command runs on and is not cut short every time it is
\* started, and gunicorn boots missing workers.  fn
\* itself may hang, and nobody promises to submit a task, to kill a worker or
\* to restart a container, so those actions are not fair.
FairSpec ==
    /\ Spec
    /\ \A t \in Tasks : WF_vars(Watchdog(t))
    /\ \A w \in Workers : WF_vars(BootWorker(w))
    /\ \A t \in Tasks : WF_vars(Age(t))
    /\ WF_vars(SweepCount) /\ SF_vars(SweepUpdate)

----------------------------------------------------------------------------
(* Properties.                                                             *)

\* A poller that reads "completed" may rely on fn having returned, and one
\* that reads "failed" on fn having raised: neither a kill, a join timeout, a
\* late end of fn nor a concurrent fix_stuck_tasks makes the row say so
\* otherwise (the is_alive / exc_holder cascade of _watchdog).
VerdictMatchesOutcome ==
    \A t \in Tasks :
        /\ row[t].status = "completed" => worker[t] = "returned"
        /\ row[t].status = "failed" => worker[t] = "raised"

\* The watchdog never walks away from a row that still says pending or
\* running: such a row has a live watchdog, or one that died with its process.
NoAbandonedRow ==
    \A t \in Tasks :
        row[t].status \in InProgress => watchdog[t] \in WatchdogLive \cup {"killed"}

\* The fields a poller reads agree with each other: completed_at is set
\* exactly on ended tasks, an error message is present exactly on the tasks
\* that failed or timed out, and it is the right kind of message.
Consistent(r) ==
    /\ r.completed_at = "set" <=> is_terminal(r)
    /\ r.error_message # "" <=> r.status \in {"failed", "timeout"}
    /\ r.error_message = "exception" <=> r.status = "failed"
    /\ r.status \in {"running", "completed", "failed"} => r.started_at = "set"

RowConsistent == \A t \in Tasks : Consistent(row[t])

\* Even when fix_stuck_tasks runs against live tasks, what a watchdog
\* concluded stays: the command re-evaluates its filter in update(), so it
\* never overwrites a verdict written between its count() and its update().
Judged(r) == r.status \in {"completed", "failed"} \/ r.error_message = "timed out"

VerdictIsFinal == [][\A t \in Tasks : Judged(row[t]) => row'[t] = row[t]]_vars

\* An ended task does not change ...
StaysEnded(t) == is_terminal(row[t]) => row'[t] = row[t]

\* ... and fix_stuck_tasks gives up on orphans only: a task it ends has lost its watchdog,
\* however recently it was still making progress.
EndsOrphan(t) == SweepUpdate /\ row'[t] # row[t] => watchdog[t] = "killed"

\* With the command run before gunicorn a task is ended once, by what knows how it went:
\* its watchdog, or the command when the watchdog was killed.
EndedOnceByItsJudge == [][\A t \in Tasks : StaysEnded(t) /\ EndsOrphan(t)]_vars

\* A poller of a submitted task eventually reads a terminal status even when
\* fn hangs, unless the process that hosts the task died.
PollerIsAnswered ==
    \A t \in Tasks :
        row[t].status \in InProgress ~> is_terminal(row[t]) \/ watchdog[t] = "killed"

\* What the docstring of fix_stuck_tasks says: when the command runs at a
\* container start, a task whose threads died with the previous container is
\* not shown as in progress forever.
OrphanIsSettled ==
    \A t \in Tasks :
        sweep = "due" /\ watchdog[t] = "killed" ~> row[t].status \notin InProgress

\* The rows implement the lifecycle that the polling pages assume.
Lifecycle == INSTANCE TaskLifecycle WITH status <- [t \in Tasks |-> row[t].status]
ImplementsLifecycle == Lifecycle!Spec
=============================================================================
