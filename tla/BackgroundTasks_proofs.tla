----------------------- MODULE BackgroundTasks_proofs -----------------------
(***************************************************************************)
(* Proofs about the task runner, for any number of tasks and processes.    *)
(*                                                                         *)
(* Part 1 holds in both settings of CleanupWhileServing.  A verdict is     *)
(* right because it was right when the watchdog decided it (Decided) and   *)
(* because a thread's outcome never changes once fn has ended; the second  *)
(* fact needs no invariant, the first needs to know which thread states    *)
(* go with which program counter (Threads).                                *)
(***************************************************************************)
EXTENDS BackgroundTasks, TLAPS

\* Which states of the worker thread go with which point of the watchdog.
Threads ==
    \A t \in Tasks :
        /\ watchdog[t] = "none" <=> row[t].status = "absent"
        /\ watchdog[t] \in {"none", "starting", "fetched"} => worker[t] = "none"
        /\ watchdog[t] \in {"joining", "refetched", "decided"} =>
             worker[t] \in {"running", "returned", "raised"}

\* What a watchdog is about to save is an outcome that really happened.
Decided ==
    \A t \in Tasks : watchdog[t] = "decided" =>
        /\ is_terminal(task_obj[t])
        /\ task_obj[t].status = "completed" => worker[t] = "returned"
        /\ task_obj[t].status = "failed" => worker[t] = "raised"

Inv == TypeOK /\ Threads /\ Decided /\ VerdictMatchesOutcome /\ NoAbandonedRow

----------------------------------------------------------------------------
(* The rows the code builds are rows.                                      *)

LEMMA NoRowType == NoRow \in Rows
BY DEF NoRow, Rows, InProgress, Terminal, Errors, Times

LEMMA NewRowType == NewRow \in Rows /\ NewRow.status = "pending"
BY DEF NewRow, NoRow, Rows, InProgress, Terminal, Errors, Times

LEMMA StartedType == ASSUME NEW r \in Rows PROVE Started(r) \in Rows
BY DEF Started, Rows, InProgress, Terminal, Errors, Times

LEMMA EndedType ==
    ASSUME NEW r \in Rows, NEW s \in Terminal, NEW e \in Errors
    PROVE  Ended(r, s, e) \in Rows
BY DEF Ended, Rows, InProgress, Terminal, Errors, Times

LEMMA VerdictType ==
    ASSUME TypeOK, NEW t \in Tasks
    PROVE  Verdict(t).status \in Terminal /\ Verdict(t).error \in Errors
<1>1. task_obj[t].error_message \in Errors
  BY DEF TypeOK, Rows
<1> QED
  BY <1>1 DEF Verdict, Terminal, Errors

LEMMA SavedType ==
    ASSUME NEW r \in Rows, NEW copy \in Rows
    PROVE  Saved(r, copy) \in Rows
BY DEF Saved, Rows

----------------------------------------------------------------------------
LEMMA InitType == Init => TypeOK
BY NoRowType DEF Init, TypeOK

\* Every step keeps every variable in its type.
LEMMA TypeStep == TypeOK /\ [Next]_vars => TypeOK'
<1> SUFFICES ASSUME TypeOK, [Next]_vars PROVE TypeOK'
  OBVIOUS
<1> USE DEF TypeOK
<1>1. ASSUME NEW t \in Tasks, NEW w \in Workers, run_background_task(t, w)
      PROVE  TypeOK'
  BY <1>1, NewRowType DEF run_background_task, WatchdogLive
<1>2. ASSUME NEW t \in Tasks, WatchdogFetch(t) PROVE TypeOK'
  BY <1>2 DEF WatchdogFetch, WatchdogLive
<1>3. ASSUME NEW t \in Tasks, WatchdogMarkRunning(t) PROVE TypeOK'
  BY <1>3, StartedType DEF WatchdogMarkRunning, WatchdogLive
<1>4. ASSUME NEW t \in Tasks, JoinReturns(t) \/ JoinTimesOut(t) PROVE TypeOK'
  BY <1>4, NoRowType DEF JoinReturns, JoinTimesOut, Refetch, WatchdogLive
<1>5. ASSUME NEW t \in Tasks, WatchdogDecide(t) PROVE TypeOK'
  BY <1>5, VerdictType, EndedType DEF WatchdogDecide, WatchdogLive
<1>6. ASSUME NEW t \in Tasks, WatchdogSave(t) PROVE TypeOK'
  BY <1>6, SavedType, NoRowType DEF WatchdogSave
<1>7. ASSUME NEW t \in Tasks, WorkerReturns(t) \/ WorkerRaises(t) \/ Age(t)
      PROVE  TypeOK'
  BY <1>7 DEF WorkerReturns, WorkerRaises, Age
<1>8. ASSUME NEW w \in Workers, KillWorker(w) \/ BootWorker(w) PROVE TypeOK'
  BY <1>8, NoRowType DEF KillWorker, KillThreads, BootWorker
<1>9. ASSUME RestartContainer \/ RunCommand \/ SweepCount PROVE TypeOK'
  BY <1>9, NoRowType DEF RestartContainer, KillThreads, RunCommand, SweepCount
<1>10. ASSUME SweepUpdate PROVE TypeOK'
  <2>1. "timeout" \in Terminal /\ "interrupted" \in Errors
    BY DEF Terminal, Errors
  <2> QED
    BY <1>10, <2>1, EndedType DEF SweepUpdate
<1>11. ASSUME UNCHANGED vars PROVE TypeOK'
  BY <1>11 DEF vars
<1> QED
  BY <1>1, <1>2, <1>3, <1>4, <1>5, <1>6, <1>7, <1>8, <1>9, <1>10, <1>11 DEF Next, Watchdog

\* Every variable stays within its type.
THEOREM TypeCorrect == Spec => []TypeOK
<1>1. Init => TypeOK
  BY InitType
<1> QED
  BY <1>1, TypeStep, PTL DEF Spec

----------------------------------------------------------------------------
LEMMA InitInv == Init => Inv
<1> SUFFICES ASSUME Init PROVE Inv
  OBVIOUS
<1>1. \A t \in Tasks : row[t].status = "absent" /\ watchdog[t] = "none" /\ worker[t] = "none"
  BY DEF Init, NoRow
<1> QED
  BY <1>1, InitType DEF Inv, Threads, Decided, VerdictMatchesOutcome,
                        NoAbandonedRow, InProgress

\* The verdict that a watchdog decides is what happened to its thread.
LEMMA VerdictRight ==
    ASSUME NEW t \in Tasks, worker[t] \in {"running", "returned", "raised"}
    PROVE  /\ Verdict(t).status = "completed" => worker[t] = "returned"
           /\ Verdict(t).status = "failed" => worker[t] = "raised"
BY DEF Verdict

\* Every step keeps the strengthened invariant.
LEMMA InvStep == Inv /\ [Next]_vars => Inv'
<1> SUFFICES ASSUME Inv, [Next]_vars PROVE Inv'
  OBVIOUS
<1> USE DEF Inv, Threads, Decided, VerdictMatchesOutcome, NoAbandonedRow
<1>0. TypeOK'
  BY TypeStep
<1>1. ASSUME NEW t \in Tasks, NEW w \in Workers, run_background_task(t, w)
      PROVE  Inv'
  BY <1>0, <1>1, NewRowType DEF run_background_task, TypeOK, InProgress, WatchdogLive
<1>2. ASSUME NEW t \in Tasks, WatchdogFetch(t) PROVE Inv'
  BY <1>0, <1>2 DEF WatchdogFetch, TypeOK, InProgress, WatchdogLive
<1>3. ASSUME NEW t \in Tasks, WatchdogMarkRunning(t) PROVE Inv'
  BY <1>0, <1>3 DEF WatchdogMarkRunning, Started, TypeOK, Rows, InProgress, WatchdogLive
<1>4. ASSUME NEW t \in Tasks, JoinReturns(t) \/ JoinTimesOut(t) PROVE Inv'
  BY <1>0, <1>4 DEF JoinReturns, JoinTimesOut, Refetch, is_terminal, TypeOK,
                    InProgress, Terminal, WatchdogLive
<1>5. ASSUME NEW t \in Tasks, WatchdogDecide(t) PROVE Inv'
  <2>1. task_obj'[t].status = Verdict(t).status /\ Verdict(t).status \in Terminal
    BY <1>5, VerdictType DEF WatchdogDecide, Ended, TypeOK, Rows
  <2>2. Decided'
    BY <1>5, <2>1, VerdictRight DEF WatchdogDecide, is_terminal, TypeOK
  <2> QED
    BY <1>0, <1>5, <2>2 DEF WatchdogDecide, TypeOK, InProgress, WatchdogLive
<1>6. ASSUME NEW t \in Tasks, WatchdogSave(t) PROVE Inv'
  <2>1. row'[t].status = task_obj[t].status
    BY <1>6 DEF WatchdogSave, Saved, TypeOK, Rows
  <2> QED
    BY <1>0, <1>6, <2>1 DEF WatchdogSave, TypeOK, is_terminal, InProgress,
                            Terminal, WatchdogLive
<1>7. ASSUME NEW t \in Tasks, WorkerReturns(t) \/ WorkerRaises(t) \/ Age(t)
      PROVE  Inv'
  BY <1>0, <1>7 DEF WorkerReturns, WorkerRaises, Age, TypeOK, is_terminal
<1>8. ASSUME NEW w \in Workers, KillWorker(w) \/ BootWorker(w) PROVE Inv'
  BY <1>0, <1>8 DEF KillWorker, KillThreads, BootWorker, TypeOK, is_terminal, WatchdogLive
<1>9. ASSUME RestartContainer \/ RunCommand \/ SweepCount PROVE Inv'
  BY <1>0, <1>9 DEF RestartContainer, KillThreads, RunCommand, SweepCount, TypeOK,
                    is_terminal, WatchdogLive
<1>10. ASSUME SweepUpdate PROVE Inv'
  <2>1. ASSUME NEW t \in Tasks
        PROVE  row'[t] = row[t] \/ (row[t].status \in InProgress /\ row'[t].status = "timeout")
    <3>1. row[t] \in Rows
      BY DEF TypeOK
    <3>2. row'[t] = row[t] \/ (row[t].status \in InProgress
                               /\ row'[t] = Ended(row[t], "timeout", "interrupted"))
      BY <1>10 DEF SweepUpdate, stuck_tasks
    <3>3. Ended(row[t], "timeout", "interrupted").status = "timeout"
      BY <3>1 DEF Ended, Rows
    <3> QED
      BY <3>2, <3>3
  <2> QED
    BY <1>0, <1>10, <2>1 DEF SweepUpdate, TypeOK, is_terminal, InProgress
<1>11. ASSUME UNCHANGED vars PROVE Inv'
  BY <1>0, <1>11 DEF vars, is_terminal
<1> QED
  BY <1>1, <1>2, <1>3, <1>4, <1>5, <1>6, <1>7, <1>8, <1>9, <1>10, <1>11 DEF Next, Watchdog

\* The strengthened invariant holds throughout.
THEOREM Invariance == Spec => []Inv
BY InitInv, InvStep, PTL DEF Spec

\* The thread outcome a poller may infer from the row is the real one.
THEOREM VerdictCorrect == Spec => []VerdictMatchesOutcome
BY Invariance, PTL DEF Inv

\* No watchdog leaves an unfinished row behind.
THEOREM NothingAbandoned == Spec => []NoAbandonedRow
BY Invariance, PTL DEF Inv

----------------------------------------------------------------------------
(* Part 2.  When fix_stuck_tasks runs only before gunicorn, a row has one  *)
(* writer at a time: the watchdog of a live process, or the command while  *)
(* no process is up (Served).  The check for a terminal status and the     *)
(* save that follows are two transactions, but nobody writes between them. *)

Served ==
    /\ sweep # "idle" => up = {}
    /\ \A t \in Tasks : watchdog[t] \in WatchdogLive => host[t] \in up

\* What a live watchdog may rely on about its row.
OneWriter ==
    \A t \in Tasks :
        /\ watchdog[t] \in {"starting", "fetched"} => row[t].status = "pending"
        /\ watchdog[t] \in {"joining", "refetched", "decided"} => row[t].status = "running"

\* A copy is still true when it is used, and a decided copy can be saved.
FreshCopy ==
    \A t \in Tasks :
        /\ watchdog[t] = "refetched" => task_obj[t] = row[t]
        /\ watchdog[t] = "decided" => Consistent(task_obj[t])

SerialInv == Inv /\ Served /\ OneWriter /\ FreshCopy /\ RowConsistent

----------------------------------------------------------------------------
(* What each statement of the code does to the consistency of a row.       *)

LEMMA NoRowConsistent == Consistent(NoRow)
BY DEF Consistent, NoRow, is_terminal, Terminal

LEMMA NewRowConsistent == Consistent(NewRow)
BY DEF Consistent, NewRow, NoRow, is_terminal, Terminal

LEMMA StartedConsistent ==
    ASSUME NEW r \in Rows, r.status = "pending", Consistent(r)
    PROVE  Consistent(Started(r)) /\ Started(r).status = "running"
BY DEF Consistent, Started, Rows, is_terminal, Terminal

LEMMA VerdictConsistent ==
    ASSUME TypeOK, NEW t \in Tasks, task_obj[t].status = "running", Consistent(task_obj[t])
    PROVE  Consistent(Ended(task_obj[t], Verdict(t).status, Verdict(t).error))
<1>1. task_obj[t].error_message = "" /\ task_obj[t].started_at = "set"
  BY DEF Consistent
<1>2. /\ Verdict(t).error # "" <=> Verdict(t).status \in {"failed", "timeout"}
      /\ Verdict(t).error = "exception" <=> Verdict(t).status = "failed"
  BY <1>1 DEF Verdict
<1>3. Verdict(t).status \in Terminal
  BY VerdictType
<1>4. task_obj[t] \in Rows
  BY DEF TypeOK
<1> QED
  BY <1>1, <1>2, <1>3, <1>4 DEF Ended, Consistent, Rows, is_terminal

LEMMA SavedConsistent ==
    ASSUME NEW r \in Rows, NEW copy \in Rows, r.started_at = "set",
           is_terminal(copy), Consistent(copy)
    PROVE  Consistent(Saved(r, copy)) /\ is_terminal(Saved(r, copy))
BY DEF Saved, Consistent, Rows, is_terminal

LEMMA InterruptedConsistent ==
    ASSUME NEW r \in Rows
    PROVE  Consistent(Ended(r, "timeout", "interrupted"))
BY DEF Ended, Consistent, Rows, is_terminal, Terminal

----------------------------------------------------------------------------
LEMMA SerialInit == Init => SerialInv
<1> SUFFICES ASSUME Init PROVE SerialInv
  OBVIOUS
<1>1. \A t \in Tasks : row[t] = NoRow /\ watchdog[t] = "none"
  BY DEF Init
<1>2. Served /\ OneWriter /\ FreshCopy
  BY <1>1 DEF Init, Served, OneWriter, FreshCopy, WatchdogLive
<1>3. RowConsistent
  BY <1>1, NoRowConsistent DEF RowConsistent
<1> QED
  BY <1>2, <1>3, InitInv DEF SerialInv

\* A live watchdog has a live host, and no host is up while the command runs.
LEMMA ServedStep ==
    ASSUME CleanupWhileServing = FALSE
    PROVE  TypeOK /\ Served /\ [Next]_vars => Served'
<1> SUFFICES ASSUME TypeOK, Served, [Next]_vars PROVE Served'
  OBVIOUS
<1> USE DEF Served, TypeOK
<1>1. ASSUME NEW t \in Tasks, NEW w \in Workers, run_background_task(t, w)
      PROVE  Served'
  BY <1>1 DEF run_background_task, WatchdogLive
<1>2. ASSUME NEW t \in Tasks, Watchdog(t) PROVE Served'
  BY <1>2 DEF Watchdog, WatchdogFetch, WatchdogMarkRunning, JoinReturns, JoinTimesOut,
              Refetch, WatchdogDecide, WatchdogSave, WatchdogLive
<1>3. ASSUME NEW t \in Tasks, WorkerReturns(t) \/ WorkerRaises(t) \/ Age(t)
      PROVE  Served'
  BY <1>3 DEF WorkerReturns, WorkerRaises, Age
<1>4. ASSUME NEW w \in Workers, KillWorker(w) PROVE Served'
  BY <1>4 DEF KillWorker, KillThreads, WatchdogLive
<1>5. ASSUME NEW w \in Workers, BootWorker(w) PROVE Served'
  BY <1>5 DEF BootWorker
<1>6. ASSUME RestartContainer PROVE Served'
  <2>1. ASSUME NEW t \in Tasks PROVE watchdog'[t] \notin WatchdogLive
    <3>1. watchdog[t] \in WatchdogLive => host[t] \in Workers
      OBVIOUS
    <3> QED
      BY <1>6, <3>1 DEF RestartContainer, KillThreads, WatchdogLive
  <2> QED
    BY <1>6, <2>1 DEF RestartContainer
<1>7. ASSUME RunCommand \/ SweepCount \/ SweepUpdate PROVE Served'
  BY <1>7 DEF RunCommand, SweepCount, SweepUpdate
<1>8. ASSUME UNCHANGED vars PROVE Served'
  BY <1>8 DEF vars
<1> QED
  BY <1>1, <1>2, <1>3, <1>4, <1>5, <1>6, <1>7, <1>8 DEF Next

\* Part 2's invariant survives every step when the command runs before
\* gunicorn.
LEMMA SerialStep ==
    ASSUME CleanupWhileServing = FALSE
    PROVE  SerialInv /\ [Next]_vars => SerialInv'
<1> SUFFICES ASSUME SerialInv, [Next]_vars PROVE OneWriter' /\ FreshCopy' /\ RowConsistent'
  BY InvStep, ServedStep DEF SerialInv, Inv
<1>0. TypeOK /\ Threads /\ Decided /\ Served /\ OneWriter /\ FreshCopy /\ RowConsistent
  BY DEF SerialInv, Inv
<1> USE DEF OneWriter, FreshCopy, RowConsistent
<1>1. ASSUME NEW t \in Tasks, NEW w \in Workers, run_background_task(t, w)
      PROVE  OneWriter' /\ FreshCopy' /\ RowConsistent'
  BY <1>0, <1>1, NewRowType, NewRowConsistent DEF run_background_task, TypeOK, Threads
<1>2. ASSUME NEW t \in Tasks, WatchdogFetch(t)
      PROVE  OneWriter' /\ FreshCopy' /\ RowConsistent'
  BY <1>0, <1>2 DEF WatchdogFetch, TypeOK
<1>3. ASSUME NEW t \in Tasks, WatchdogMarkRunning(t)
      PROVE  OneWriter' /\ FreshCopy' /\ RowConsistent'
  BY <1>0, <1>3, StartedConsistent DEF WatchdogMarkRunning, TypeOK
<1>4. ASSUME NEW t \in Tasks, JoinReturns(t) \/ JoinTimesOut(t)
      PROVE  OneWriter' /\ FreshCopy' /\ RowConsistent'
  BY <1>0, <1>4 DEF JoinReturns, JoinTimesOut, Refetch, TypeOK
<1>5. ASSUME NEW t \in Tasks, WatchdogDecide(t)
      PROVE  OneWriter' /\ FreshCopy' /\ RowConsistent'
  <2>1. task_obj[t].status = "running" /\ Consistent(task_obj[t])
    BY <1>0, <1>5 DEF WatchdogDecide
  <2>2. Consistent(task_obj'[t])
    BY <1>0, <1>5, <2>1, VerdictConsistent DEF WatchdogDecide, TypeOK
  <2> QED
    BY <1>0, <1>5, <2>2 DEF WatchdogDecide, TypeOK
<1>6. ASSUME NEW t \in Tasks, WatchdogSave(t)
      PROVE  OneWriter' /\ FreshCopy' /\ RowConsistent'
  <2>1. row[t].started_at = "set" /\ is_terminal(task_obj[t]) /\ Consistent(task_obj[t])
    BY <1>0, <1>6 DEF WatchdogSave, Decided, Consistent
  <2>2. Consistent(Saved(row[t], task_obj[t]))
    BY <1>0, <2>1, SavedConsistent DEF TypeOK
  <2> QED
    BY <1>0, <1>6, <2>2 DEF WatchdogSave, TypeOK
<1>7. ASSUME NEW t \in Tasks, WorkerReturns(t) \/ WorkerRaises(t) \/ Age(t)
      PROVE  OneWriter' /\ FreshCopy' /\ RowConsistent'
  BY <1>0, <1>7 DEF WorkerReturns, WorkerRaises, Age
<1>8. ASSUME NEW w \in Workers, KillWorker(w) \/ BootWorker(w)
      PROVE  OneWriter' /\ FreshCopy' /\ RowConsistent'
  BY <1>0, <1>8 DEF KillWorker, KillThreads, BootWorker, TypeOK, WatchdogLive
<1>9. ASSUME RestartContainer \/ RunCommand \/ SweepCount
      PROVE  OneWriter' /\ FreshCopy' /\ RowConsistent'
  BY <1>0, <1>9 DEF RestartContainer, KillThreads, RunCommand, SweepCount, TypeOK, WatchdogLive
<1>10. ASSUME SweepUpdate PROVE OneWriter' /\ FreshCopy' /\ RowConsistent'
  <2>1. \A t \in Tasks : watchdog[t] \notin WatchdogLive
    BY <1>0, <1>10 DEF SweepUpdate, Served
  <2>2. OneWriter' /\ FreshCopy'
    BY <1>10, <2>1 DEF SweepUpdate, WatchdogLive
  <2>3. RowConsistent'
    BY <1>0, <1>10, InterruptedConsistent DEF SweepUpdate, TypeOK
  <2> QED
    BY <2>2, <2>3
<1>11. ASSUME UNCHANGED vars PROVE OneWriter' /\ FreshCopy' /\ RowConsistent'
  BY <1>0, <1>11 DEF vars
<1> QED
  BY <1>1, <1>2, <1>3, <1>4, <1>5, <1>6, <1>7, <1>8, <1>9, <1>10, <1>11 DEF Next, Watchdog

LEMMA SerialInvariance == ASSUME CleanupWhileServing = FALSE PROVE Spec => []SerialInv
BY SerialInit, SerialStep, PTL DEF Spec

\* The fields a poller reads never contradict each other.
THEOREM RowsConsistent ==
    ASSUME CleanupWhileServing = FALSE PROVE Spec => []RowConsistent
BY SerialInvariance, PTL DEF SerialInv

----------------------------------------------------------------------------
(* Who writes a row, and from which status: the only steps that change one *)
(* are a submission, the two saves of its own watchdog, and the command.   *)

LEMMA RowStep ==
    ASSUME SerialInv, [Next]_vars, NEW t \in Tasks
    PROVE  \/ row'[t] = row[t]
           \/ row[t].status = "absent" /\ row'[t].status = "pending"
           \/ row[t].status = "pending" /\ row'[t].status = "running"
           \/ row[t].status = "running" /\ row'[t].status \in Terminal
           \/ SweepUpdate /\ row[t].status \in InProgress /\ row'[t].status = "timeout"
<1> DEFINE Goal ==
             \/ row'[t] = row[t]
             \/ row[t].status = "absent" /\ row'[t].status = "pending"
             \/ row[t].status = "pending" /\ row'[t].status = "running"
             \/ row[t].status = "running" /\ row'[t].status \in Terminal
             \/ SweepUpdate /\ row[t].status \in InProgress /\ row'[t].status = "timeout"
<1>0. TypeOK /\ Decided /\ OneWriter /\ RowConsistent /\ row[t] \in Rows
  BY DEF SerialInv, Inv, TypeOK
<1>1. ASSUME NEW s \in Tasks, NEW w \in Workers, run_background_task(s, w) PROVE Goal
  BY <1>0, <1>1, NewRowType DEF run_background_task, TypeOK
<1>2. ASSUME NEW s \in Tasks, WatchdogMarkRunning(s) PROVE Goal
  BY <1>0, <1>2, StartedConsistent DEF WatchdogMarkRunning, TypeOK, OneWriter, RowConsistent
<1>3. ASSUME NEW s \in Tasks, WatchdogSave(s) PROVE Goal
  <2>1. row'[s].status = task_obj[s].status
    BY <1>0, <1>3 DEF WatchdogSave, Saved, TypeOK, Rows
  <2>2. row[s].status = "running" /\ task_obj[s].status \in Terminal
    BY <1>0, <1>3 DEF WatchdogSave, OneWriter, Decided, is_terminal
  <2>3. s # t => row'[t] = row[t]
    BY <1>0, <1>3 DEF WatchdogSave, TypeOK
  <2> QED
    BY <2>1, <2>2, <2>3
<1>4. ASSUME NEW s \in Tasks,
             \/ WatchdogFetch(s) \/ JoinReturns(s) \/ JoinTimesOut(s) \/ WatchdogDecide(s)
             \/ WorkerReturns(s) \/ WorkerRaises(s) \/ Age(s)
      PROVE  Goal
  BY <1>4 DEF WatchdogFetch, JoinReturns, JoinTimesOut, Refetch, WatchdogDecide,
              WorkerReturns, WorkerRaises, Age
<1>5. ASSUME \/ \E w \in Workers : KillWorker(w) \/ BootWorker(w)
             \/ RestartContainer \/ RunCommand \/ SweepCount
      PROVE  Goal
  BY <1>5 DEF KillWorker, BootWorker, RestartContainer, RunCommand, SweepCount
<1>6. ASSUME SweepUpdate PROVE Goal
  <2>1. CASE t \in stuck_tasks(cutoff)
    <3>1. row'[t] = Ended(row[t], "timeout", "interrupted")
      BY <1>6, <2>1 DEF SweepUpdate
    <3>2. row'[t].status = "timeout"
      BY <1>0, <3>1 DEF Ended, Rows
    <3> QED
      BY <1>6, <2>1, <3>2 DEF stuck_tasks
  <2>2. CASE t \notin stuck_tasks(cutoff)
    BY <1>6, <2>2 DEF SweepUpdate
  <2> QED
    BY <2>1, <2>2
<1>7. ASSUME UNCHANGED vars PROVE Goal
  BY <1>7 DEF vars
<1> QED
  BY <1>1, <1>2, <1>3, <1>4, <1>5, <1>6, <1>7 DEF Next, Watchdog

\* A task is ended once, by its watchdog or, when that was killed, by the command: between
\* the watchdog's check for a terminal status and its save there is no other writer, and the
\* command runs while no watchdog does.
THEOREM TasksEndOnce ==
    ASSUME CleanupWhileServing = FALSE PROVE Spec => EndedOnceByItsJudge
<1>1. SerialInv /\ [Next]_vars => [\A t \in Tasks : StaysEnded(t)]_vars
  BY RowStep DEF is_terminal, Terminal, InProgress, StaysEnded
<1>2. SerialInv /\ [Next]_vars => [\A t \in Tasks : EndsOrphan(t)]_vars
  <2> SUFFICES ASSUME SerialInv, NEW t \in Tasks, SweepUpdate, row'[t] # row[t]
               PROVE  watchdog[t] = "killed"
    BY DEF EndsOrphan
  <2>1. row[t].status \in InProgress
    BY DEF SweepUpdate, stuck_tasks
  <2>2. watchdog[t] \in WatchdogLive \cup {"killed"}
    BY <2>1 DEF SerialInv, Inv, NoAbandonedRow
  <2>3. watchdog[t] \notin WatchdogLive
    BY DEF SweepUpdate, SerialInv, Served
  <2> QED
    BY <2>2, <2>3
<1>3. SerialInv /\ [Next]_vars => [\A t \in Tasks : StaysEnded(t) /\ EndsOrphan(t)]_vars
  BY <1>1, <1>2
<1> QED
  BY <1>3, SerialInvariance, PTL DEF Spec, EndedOnceByItsJudge

\* The watchdogs and the command together implement the lifecycle that the
\* polling pages assume: initial states and steps map to those of
\* TaskLifecycle.
THEOREM LifecycleImplemented ==
    ASSUME CleanupWhileServing = FALSE PROVE Spec => ImplementsLifecycle
<1> DEFINE status == [t \in Tasks |-> row[t].status]
<1>1. Init => Lifecycle!Init
  <2> SUFFICES ASSUME Init PROVE status = [t \in Tasks |-> "absent"]
    BY DEF Lifecycle!Init
  <2>1. \A t \in Tasks : row[t].status = "absent"
    BY DEF Init, NoRow
  <2> QED
    BY <2>1
<1>2. SerialInv /\ [Next]_vars => [Lifecycle!Next]_status
  <2> SUFFICES ASSUME SerialInv, [Next]_vars PROVE [Lifecycle!Next]_status
    OBVIOUS
  <2>0. TypeOK /\ Decided /\ OneWriter /\ RowConsistent
    BY DEF SerialInv, Inv
  <2>1. ASSUME NEW t \in Tasks, NEW w \in Workers, run_background_task(t, w)
        PROVE  Lifecycle!Create(t)
    BY <2>0, <2>1, NewRowType DEF run_background_task, TypeOK, Lifecycle!Create
  <2>2. ASSUME NEW t \in Tasks, WatchdogMarkRunning(t) PROVE Lifecycle!Start(t)
    <3>1. row[t].status = "pending" /\ Started(row[t]).status = "running"
      BY <2>0, <2>2, StartedConsistent DEF WatchdogMarkRunning, TypeOK, OneWriter, RowConsistent
    <3> QED
      BY <2>0, <2>2, <3>1 DEF WatchdogMarkRunning, TypeOK, Lifecycle!Start
  <2>3. ASSUME NEW t \in Tasks, WatchdogSave(t) PROVE Lifecycle!Finish(t)
    <3>1. row[t].status = "running" /\ task_obj[t].status \in Lifecycle!Terminal
      BY <2>0, <2>3 DEF WatchdogSave, OneWriter, Decided, is_terminal, Terminal, Lifecycle!Terminal
    <3>2. row'[t].status = task_obj[t].status
      BY <2>0, <2>3 DEF WatchdogSave, Saved, TypeOK, Rows
    <3>3. status' = [status EXCEPT ![t] = task_obj[t].status]
      BY <2>0, <2>3, <3>2 DEF WatchdogSave, TypeOK
    <3> QED
      BY <3>1, <3>3 DEF Lifecycle!Finish
  <2>4. ASSUME SweepUpdate PROVE \E S \in SUBSET Tasks : Lifecycle!Interrupt(S)
    <3> DEFINE S == stuck_tasks(cutoff)
    <3>1. S \in SUBSET Tasks
      BY <2>0 DEF stuck_tasks, TypeOK
    <3>2. \A t \in S : status[t] \in Lifecycle!InProgress
      BY <3>1 DEF stuck_tasks, InProgress, Lifecycle!InProgress
    <3>3. ASSUME NEW t \in Tasks
          PROVE  row'[t].status = IF t \in S THEN "timeout" ELSE status[t]
      <4>1. Ended(row[t], "timeout", "interrupted").status = "timeout"
        BY <2>0 DEF Ended, TypeOK, Rows
      <4> QED
        BY <2>4, <4>1 DEF SweepUpdate
    <3>4. /\ \A t \in S : status[t] \in Lifecycle!InProgress
          /\ status' = [t \in Tasks |-> IF t \in S THEN "timeout" ELSE status[t]]
      BY <3>2, <3>3
    <3> HIDE DEF S
    <3> QED
      BY <3>1, <3>4 DEF Lifecycle!Interrupt
  <2>5. ASSUME NEW t \in Tasks,
               \/ WatchdogFetch(t) \/ JoinReturns(t) \/ JoinTimesOut(t) \/ WatchdogDecide(t)
               \/ WorkerReturns(t) \/ WorkerRaises(t) \/ Age(t)
        PROVE  status' = status
    BY <2>5 DEF WatchdogFetch, JoinReturns, JoinTimesOut, Refetch, WatchdogDecide,
                WorkerReturns, WorkerRaises, Age
  <2>6. ASSUME \/ \E w \in Workers : KillWorker(w) \/ BootWorker(w)
               \/ RestartContainer \/ RunCommand \/ SweepCount
               \/ UNCHANGED vars
        PROVE  status' = status
    BY <2>6 DEF KillWorker, BootWorker, RestartContainer, RunCommand, SweepCount, vars
  <2> QED
    BY <2>1, <2>2, <2>3, <2>4, <2>5, <2>6 DEF Next, Watchdog, Lifecycle!Next
<1> QED
  BY <1>1, <1>2, SerialInvariance, PTL DEF Spec, ImplementsLifecycle, Lifecycle!Spec

----------------------------------------------------------------------------
(* Part 3.  When the command may run at any time a row has two writers and *)
(* "ended" is no longer final, but a verdict is: the watchdog that wrote   *)
(* it is gone (Unjudged), and update() filters on the status again.        *)

\* A live watchdog has not yet given its verdict, and neither the row nor its
\* copy shows one.
Unjudged ==
    \A t \in Tasks :
        /\ watchdog[t] \in WatchdogLive =>
             /\ row[t].status \notin {"completed", "failed"}
             /\ row[t].error_message # "timed out"
        /\ watchdog[t] = "refetched" => task_obj[t].error_message # "timed out"
        /\ watchdog[t] = "decided" =>
             (task_obj[t].error_message = "timed out" => task_obj[t].status = "timeout")
        /\ row[t].error_message = "timed out" => row[t].status = "timeout"

JudgedInv == Inv /\ Unjudged

LEMMA JudgedInit == Init => JudgedInv
<1> SUFFICES ASSUME Init PROVE Unjudged
  BY InitInv DEF JudgedInv
<1>1. \A t \in Tasks : /\ watchdog[t] = "none"
                        /\ row[t].status = "absent"
                        /\ row[t].error_message = ""
  BY DEF Init, NoRow
<1> QED
  BY <1>1 DEF Unjudged, WatchdogLive

LEMMA JudgedStep == JudgedInv /\ [Next]_vars => JudgedInv'
<1> SUFFICES ASSUME JudgedInv, [Next]_vars PROVE Unjudged'
  BY InvStep DEF JudgedInv
<1>0. TypeOK /\ Decided /\ Unjudged
  BY DEF JudgedInv, Inv
<1> USE DEF Unjudged
<1>1. ASSUME NEW t \in Tasks, NEW w \in Workers, run_background_task(t, w) PROVE Unjudged'
  <2>1. NewRow.status = "pending" /\ NewRow.error_message = ""
    BY DEF NewRow, NoRow
  <2> QED
    BY <1>0, <1>1, <2>1 DEF run_background_task, TypeOK
<1>2. ASSUME NEW t \in Tasks, WatchdogFetch(t) PROVE Unjudged'
  BY <1>0, <1>2 DEF WatchdogFetch, TypeOK, WatchdogLive
<1>3. ASSUME NEW t \in Tasks, WatchdogMarkRunning(t) PROVE Unjudged'
  <2>1. /\ Started(row[t]).status = "running"
        /\ Started(row[t]).error_message = row[t].error_message
    BY <1>0 DEF Started, TypeOK, Rows
  <2> QED
    BY <1>0, <1>3, <2>1 DEF WatchdogMarkRunning, TypeOK, WatchdogLive
<1>4. ASSUME NEW t \in Tasks, JoinReturns(t) \/ JoinTimesOut(t) PROVE Unjudged'
  BY ZenonT(30), <1>0, <1>4 DEF JoinReturns, JoinTimesOut, Refetch, TypeOK, WatchdogLive
<1>5. ASSUME NEW t \in Tasks, WatchdogDecide(t) PROVE Unjudged'
  <2>1. Verdict(t).error = "timed out" => Verdict(t).status = "timeout"
    BY <1>0, <1>5 DEF Verdict, WatchdogDecide
  <2>2. /\ task_obj'[t].status = Verdict(t).status
        /\ task_obj'[t].error_message = Verdict(t).error
    BY <1>0, <1>5 DEF WatchdogDecide, Ended, TypeOK, Rows
  <2> QED
    BY <1>0, <1>5, <2>1, <2>2 DEF WatchdogDecide, TypeOK, WatchdogLive
<1>6. ASSUME NEW t \in Tasks, WatchdogSave(t) PROVE Unjudged'
  <2>1. /\ row'[t].status = task_obj[t].status
        /\ row'[t].error_message = task_obj[t].error_message
    BY <1>0, <1>6 DEF WatchdogSave, Saved, TypeOK, Rows
  <2> QED
    BY <1>0, <1>6, <2>1 DEF WatchdogSave, TypeOK, WatchdogLive
<1>7. ASSUME NEW t \in Tasks, WorkerReturns(t) \/ WorkerRaises(t) \/ Age(t) PROVE Unjudged'
  BY <1>0, <1>7 DEF WorkerReturns, WorkerRaises, Age
<1>8. ASSUME NEW w \in Workers, KillWorker(w) \/ BootWorker(w) PROVE Unjudged'
  BY ZenonT(30), <1>0, <1>8 DEF KillWorker, KillThreads, BootWorker, TypeOK, WatchdogLive
<1>9. ASSUME RestartContainer \/ RunCommand \/ SweepCount PROVE Unjudged'
  BY ZenonT(30), <1>0, <1>9 DEF RestartContainer, KillThreads, RunCommand, SweepCount, TypeOK, WatchdogLive
<1>10. ASSUME SweepUpdate PROVE Unjudged'
  <2>1. ASSUME NEW t \in Tasks
        PROVE  \/ row'[t] = row[t]
               \/ row'[t].status = "timeout" /\ row'[t].error_message = "interrupted"
    <3>1. /\ Ended(row[t], "timeout", "interrupted").status = "timeout"
          /\ Ended(row[t], "timeout", "interrupted").error_message = "interrupted"
      BY <1>0 DEF Ended, TypeOK, Rows
    <3> QED
      BY <1>10, <3>1 DEF SweepUpdate
  <2> QED
    BY <1>0, <1>10, <2>1 DEF SweepUpdate
<1>11. ASSUME UNCHANGED vars PROVE Unjudged'
  BY <1>0, <1>11 DEF vars
<1> QED
  BY <1>1, <1>2, <1>3, <1>4, <1>5, <1>6, <1>7, <1>8, <1>9, <1>10, <1>11 DEF Next, Watchdog

\* Whenever fix_stuck_tasks runs, what a watchdog concluded stays.
THEOREM VerdictStaysFinal == Spec => VerdictIsFinal
<1>1. JudgedInv /\ [Next]_vars => [\A t \in Tasks : Judged(row[t]) => row'[t] = row[t]]_vars
  <2> SUFFICES ASSUME JudgedInv, [Next]_vars, NEW t \in Tasks, Judged(row[t])
               PROVE  row'[t] = row[t]
    OBVIOUS
  <2>0. TypeOK /\ Threads /\ watchdog[t] \notin WatchdogLive /\ row[t].status \in Terminal
    BY DEF JudgedInv, Inv, Unjudged, Judged, Terminal
  <2>1. ASSUME NEW s \in Tasks, NEW w \in Workers, run_background_task(s, w)
        PROVE  row'[t] = row[t]
    BY <2>0, <2>1 DEF run_background_task, TypeOK, Terminal
  <2>2. ASSUME NEW s \in Tasks, Watchdog(s) PROVE row'[t] = row[t]
    BY <2>0, <2>2 DEF Watchdog, WatchdogFetch, WatchdogMarkRunning, JoinReturns, JoinTimesOut,
                      Refetch, WatchdogDecide, WatchdogSave, WatchdogLive, TypeOK
  <2>3. ASSUME SweepUpdate PROVE row'[t] = row[t]
    BY <2>0, <2>3 DEF SweepUpdate, stuck_tasks, InProgress, Terminal
  <2>4. ASSUME \/ \E s \in Tasks : WorkerReturns(s) \/ WorkerRaises(s) \/ Age(s)
               \/ \E w \in Workers : KillWorker(w) \/ BootWorker(w)
               \/ RestartContainer \/ RunCommand \/ SweepCount
               \/ UNCHANGED vars
        PROVE  row'[t] = row[t]
    BY <2>4 DEF WorkerReturns, WorkerRaises, Age, KillWorker, BootWorker, RestartContainer,
                RunCommand, SweepCount, vars
  <2> QED
    BY <2>1, <2>2, <2>3, <2>4 DEF Next
<1>2. Spec => []JudgedInv
  BY JudgedInit, JudgedStep, PTL DEF Spec
<1> QED
  BY <1>1, <1>2, PTL DEF Spec, VerdictIsFinal
=============================================================================
