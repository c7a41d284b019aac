-------------------------- MODULE SpliceJobs_proofs --------------------------
(***************************************************************************)
(* Proofs about the processing jobs of splice, for any number of engines,  *)
(* jobs and overlapping requests.                                          *)
(*                                                                         *)
(* Part 1 types the tables and the copies that requests hold.  Part 2      *)
(* shows that an engine goes offline for a cause.  Part 3: a job has one   *)
(* engine for good, although rows are deleted and inserted again from old  *)
(* copies (OneOwner); so the engine that is busy with a job and the report *)
(* that is on its way belong together (ReportsMatch), and a job that is    *)
(* processing has its worker.                                              *)
(***************************************************************************)
EXTENDS SpliceJobs, FiniteSetTheorems, TLAPS

Callers == Requests \cup Uplinks

Calls == [doing : {"idle", "registering", "checking", "patching engine", "submitting",
                   "patching job", "confirming", "releasing", "reporting"},
          at : Names \cup Engines \cup Jobs \cup {None},
          copy : EngineRows \cup JobRows \cup {None}]

\* What a request works on, and what it holds, by what it is doing.
CallOK(call) ==
    /\ call.doing = "registering" => call.at \in Names
    /\ call.doing = "checking" => call.at \in Engines /\ call.copy.last_heartbeat = "old"
    /\ call.doing = "patching engine" =>
         call.at \in Engines /\ call.copy \in EngineRows /\ call.copy.exists
    /\ call.doing = "submitting" => call.at \in Engines
    /\ call.doing \in {"confirming", "releasing"} => call.at \in Jobs
    /\ call.doing \in {"patching job", "reporting"} =>
         /\ call.at \in Jobs
         /\ call.copy \in JobRows
         /\ call.copy.exists
         /\ call.copy.local_engine \in Engines
    /\ call.doing = "reporting" => call.copy.status \in {"processing", "completed", "failed"}

CallsOK == request \in [Callers -> Calls] /\ \A r \in Callers : CallOK(request[r])

\* A job in the table has an engine in the table.
KeysOK ==
    \A j \in Jobs : job[j].exists =>
        job[j].local_engine \in Engines /\ engine[job[j].local_engine].exists

\* An engine that is not idle is busy with a job.
WorkOK == \A e \in Engines : work[e] = NoWork \/ (work[e].phase # "idle" /\ work[e].job \in Jobs)

\* Whoever shows that a job is an engine's: the row, a copy of it, the engine itself.
Owns(e, j) ==
    \/ job[j].exists /\ job[j].local_engine = e
    \/ work[e].job = j
    \/ \E r \in Callers : /\ request[r].doing \in {"patching job", "reporting"}
                          /\ request[r].at = j
                          /\ request[r].copy.local_engine = e

OneOwner ==
    \A j \in Jobs :
        /\ \A e, f \in Engines : Owns(e, j) /\ Owns(f, j) => e = f
        /\ job[j] = NoJob => \A e \in Engines : ~Owns(e, j)

Reports(r, j) == request[r].doing = "reporting" /\ request[r].at = j

\* The phase in which an engine waits for the answer to a report.
PhaseOf(status) == IF status = "processing" THEN "starting" ELSE "ending"

\* A report on its way is the one that the engine waits for.
ReportsMatch ==
    \A j \in Jobs \ excused :
        /\ \A r \in Callers : Reports(r, j) =>
             \E e \in Engines : work[e] = [job |-> j, phase |-> PhaseOf(request[r].copy.status)]
        /\ \A r, s \in Callers : Reports(r, j) /\ Reports(s, j) => r = s

----------------------------------------------------------------------------
(* Part 1.  Rows and copies.                                               *)

\* What the statements make of an engine's row is an engine's row.
LEMMA EngineRowTypes ==
    /\ NoEngine \in EngineRows
    /\ \A n \in Names : Gone \in EngineRows /\ ~Gone.exists
    /\ \A row \in EngineRows : Reported(row) \in EngineRows /\ Reported(row).exists = row.exists
BY DEF NoEngine, Gone, Reported, EngineRows, Beats

LEMMA JobsCounted == Cardinality(Jobs) \in Nat /\ \A j \in Jobs : Cardinality(Jobs) # 0
BY JobsAssumption, FS_CardinalityType, FS_EmptySet

LEMMA JobRowTypes ==
    /\ NoJob \in JobRows /\ ~NoJob.exists /\ NoJob.created_at = 0
    /\ GoneJob \in JobRows /\ ~GoneJob.exists
    /\ \A j \in Jobs : GoneJob # NoJob
<1>1. Cardinality(Jobs) \in 0..Cardinality(Jobs) /\ 0 \in 0..Cardinality(Jobs) /\ 5 \in Nat
  BY JobsCounted
<1>2. NoJob \in JobRows /\ ~NoJob.exists /\ NoJob.created_at = 0
  BY <1>1 DEF NoJob, JobRows, Statuses
<1>3. GoneJob \in JobRows /\ ~GoneJob.exists /\ GoneJob.created_at = Cardinality(Jobs)
  BY <1>1, <1>2 DEF GoneJob, NoJob, JobRows
<1> QED
  BY <1>2, <1>3, JobsCounted

\* The row that a submission inserts.
NewJob(e, born) ==
    [NoJob EXCEPT !.exists = TRUE, !.local_engine = e, !.created_at = born]

LEMMA NewJobType ==
    ASSUME NEW e \in Engines, NEW born \in 0..Cardinality(Jobs)
    PROVE  /\ NewJob(e, born) \in JobRows
           /\ NewJob(e, born).exists /\ NewJob(e, born).local_engine = e
           /\ NewJob(e, born).status = "queued"
<1>1. 5 \in Nat
  OBVIOUS
<1> QED
  BY <1>1 DEF NewJob, NoJob, JobRows, Statuses

\* There are never more rows than ids.
LEMMA BornType ==
    ASSUME NEW j \in Jobs, job[j] = NoJob
    PROVE  Cardinality({k \in Jobs : job[k] # NoJob}) + 1 \in 0..Cardinality(Jobs)
<1> DEFINE S == {k \in Jobs : job[k] # NoJob}
<1>1. S \subseteq Jobs \ {j} /\ IsFiniteSet(Jobs \ {j})
  BY JobsAssumption, FS_Subset
<1>2. Cardinality(S) <= Cardinality(Jobs \ {j}) /\ IsFiniteSet(S)
  BY <1>1, FS_Subset
<1>3. Cardinality(Jobs \ {j}) = Cardinality(Jobs) - 1
  BY JobsAssumption, FS_RemoveElement
<1>4. Cardinality(S) \in Nat
  BY <1>2, FS_CardinalityType
<1> QED
  BY <1>2, <1>3, <1>4, JobsCounted

LEMMA EditedType ==
    ASSUME NEW row \in JobRows, NEW edit \in Edits
    PROVE  /\ Edited(row, edit) \in JobRows
           /\ Edited(row, edit).exists = row.exists
           /\ Edited(row, edit).local_engine = row.local_engine
<1>1. row.status \in Statuses /\ row.priority \in Nat
  BY DEF JobRows
<1> DEFINE s == IF "status" \in DOMAIN edit THEN edit.status ELSE row.status
           p == IF "priority" \in DOMAIN edit THEN edit.priority ELSE row.priority
<1>2. s \in Statuses /\ p \in Nat
  BY <1>1, EditsAssumption
<1>3. Edited(row, edit) = [row EXCEPT !.status = s, !.priority = p]
  BY DEF Edited
<1> HIDE DEF s, p
<1> QED
  BY <1>2, <1>3 DEF JobRows

----------------------------------------------------------------------------
(* What a step does to the requests.                                       *)

Tables == SpliceTypeOK /\ CallsOK /\ KeysOK /\ WorkOK

OnlyCall(r, call) ==
    /\ request' \in [Callers -> Calls]
    /\ request'[r] = call
    /\ \A s \in Callers : s # r => request'[s] = request[s]

LEMMA IdleCall == Idle \in Calls /\ Idle.doing = "idle"
BY DEF Idle, Calls

LEMMA Started ==
    ASSUME CallsOK, NEW r \in Callers, NEW what, NEW at, NEW copy, Start(r, what, at, copy),
           [doing |-> what, at |-> at, copy |-> copy] \in Calls
    PROVE  OnlyCall(r, [doing |-> what, at |-> at, copy |-> copy]) /\ request[r] = Idle
BY DEF Start, CallsOK, OnlyCall

LEMMA Finished ==
    ASSUME CallsOK, NEW r \in Callers, Finish(r)
    PROVE  OnlyCall(r, Idle)
BY IdleCall DEF Finish, CallsOK, OnlyCall

\* The requests are right after a step if the one that moved is.
LEMMA CallsKept ==
    ASSUME CallsOK, NEW r \in Callers, NEW call, OnlyCall(r, call), CallOK(call)
    PROVE  CallsOK'
BY DEF OnlyCall, CallsOK

LEMMA FinishKeepsCalls ==
    ASSUME CallsOK, NEW r \in Callers, Finish(r)
    PROVE  CallsOK'
<1>1. CallOK(Idle)
  BY IdleCall DEF CallOK
<1> QED
  BY <1>1, Finished, CallsKept

\* A step that leaves the jobs alone and deletes no engine keeps the keys.
LEMMA EngineKeepsTables ==
    ASSUME Tables, UNCHANGED jobVars, CallsOK', touches' \in 0..MaxTouches,
           engine' \in [Engines -> EngineRows], agent' \in [Engines -> {"up", "down"}],
           \A e \in Engines : engine[e].exists => engine'[e].exists
    PROVE  Tables'
BY DEF Tables, SpliceTypeOK, KeysOK, WorkOK, jobVars

LEMMA TouchType == SpliceTypeOK /\ (Touch \/ UNCHANGED touches) => touches' \in 0..MaxTouches
BY TouchesAssumption DEF SpliceTypeOK, Touch

LEMMA EngineStepTables ==
    ASSUME Tables, EngineStep, UNCHANGED jobVars
    PROVE  Tables'
<1>0. /\ SpliceTypeOK /\ CallsOK
      /\ engine \in [Engines -> EngineRows] /\ agent \in [Engines -> {"up", "down"}]
  BY DEF Tables, SpliceTypeOK
<1>1. touches' \in 0..MaxTouches
  BY <1>0, TouchType DEF EngineStep, LoadEngine
<1>2. ASSUME NEW r \in Requests, NEW e \in Engines, NEW n \in Names, NEW auto \in BOOLEAN,
             LoadEngine(r, e, n, auto)
      PROVE  Tables'
  <2> DEFINE copy == [engine[e] EXCEPT !.engine_name = n, !.auto_process_jobs = auto]
             call == [doing |-> "patching engine", at |-> e, copy |-> copy]
  <2>1. copy \in EngineRows /\ copy.exists
    BY <1>0, <1>2 DEF LoadEngine, EngineRows
  <2>2. Start(r, "patching engine", e, copy) /\ UNCHANGED engineVars
    BY <1>2 DEF LoadEngine
  <2> HIDE DEF copy
  <2>3. call \in Calls /\ r \in Callers
    BY <2>1 DEF Calls, Callers
  <2>4. OnlyCall(r, call)
    BY <1>0, <2>2, <2>3, Started
  <2>5. CallOK(call)
    BY <2>1 DEF CallOK
  <2>6. CallsOK'
    BY <1>0, <2>3, <2>4, <2>5, CallsKept
  <2> QED
    BY <1>0, <1>1, <2>2, <2>6, EngineKeepsTables DEF engineVars
<1>3. ASSUME NEW r \in Requests, NEW n \in Names, register_engine(r, n) PROVE Tables'
  <2> DEFINE call == [doing |-> "registering", at |-> n, copy |-> None]
  <2>1. Start(r, "registering", n, None) /\ UNCHANGED engineVars
    BY <1>3 DEF register_engine
  <2>2. call \in Calls /\ r \in Callers
    BY DEF Calls, Callers
  <2>3. OnlyCall(r, call)
    BY <1>0, <2>1, <2>2, Started
  <2>4. CallsOK'
    BY <1>0, <2>2, <2>3, CallsKept DEF CallOK
  <2> QED
    BY <1>0, <1>1, <2>1, <2>4, EngineKeepsTables DEF engineVars
<1>4. ASSUME NEW r \in Requests, NEW e \in Engines, CreateEngine(r, e) PROVE Tables'
  <2>1. r \in Callers /\ request[r].at \in Names
    BY <1>0, <1>4 DEF CreateEngine, Callers, CallsOK, CallOK
  <2>2. CallsOK'
    BY <1>0, <1>4, <2>1, FinishKeepsCalls DEF CreateEngine
  <2>3. engine' = [engine EXCEPT ![e] =
                     [NoEngine EXCEPT !.exists = TRUE, !.engine_name = request[r].at]]
    BY <1>4 DEF CreateEngine
  <2>4. [NoEngine EXCEPT !.exists = TRUE, !.engine_name = request[r].at] \in EngineRows
    BY <2>1 DEF NoEngine, EngineRows, Beats
  <2>5. engine' \in [Engines -> EngineRows]
    BY <1>0, <2>3, <2>4
  <2>6. \A f \in Engines : engine[f].exists => engine'[f].exists
    BY <1>0, <2>3 DEF NoEngine
  <2>7. agent' \in [Engines -> {"up", "down"}]
    BY <1>0, <1>4 DEF CreateEngine
  <2> QED
    BY <1>1, <2>2, <2>5, <2>6, <2>7, EngineKeepsTables
<1>5. ASSUME NEW r \in Requests, NEW e \in Engines, check_engine_offline(r, e) PROVE Tables'
  <2> DEFINE call == [doing |-> "checking", at |-> e, copy |-> HeartbeatOf(e)]
  <2>1. Start(r, "checking", e, HeartbeatOf(e)) /\ UNCHANGED engineVars
    BY <1>5 DEF check_engine_offline
  <2>2. HeartbeatOf(e) \in EngineRows /\ HeartbeatOf(e).last_heartbeat = "old"
    BY <1>5, <1>0 DEF check_engine_offline, HeartbeatOf, NoEngine, EngineRows, Beats
  <2>3. call \in Calls /\ r \in Callers
    BY <2>2 DEF Calls, Callers
  <2>4. OnlyCall(r, call)
    BY <1>0, <2>1, <2>3, Started
  <2>5. CallsOK'
    BY <1>0, <2>2, <2>3, <2>4, CallsKept DEF CallOK
  <2> QED
    BY <1>0, <1>1, <2>1, <2>5, EngineKeepsTables DEF engineVars
<1>6. ASSUME NEW r \in Requests, MarkOffline(r) PROVE Tables'
  <2>1. r \in Callers
    BY DEF Callers
  <2>2. CallsOK'
    BY <1>0, <1>6, <2>1, FinishKeepsCalls DEF MarkOffline
  <2>3. engine' \in [Engines -> EngineRows] /\ UNCHANGED agent
        /\ \A f \in Engines : engine[f].exists => engine'[f].exists
    BY ZenonT(30), <1>0, <1>6 DEF MarkOffline, EngineRows
  <2> QED
    BY <1>0, <1>1, <2>2, <2>3, EngineKeepsTables
<1>7. ASSUME NEW r \in Requests, SaveEngine(r) PROVE Tables'
  <2>1. /\ r \in Callers
        /\ request[r].at \in Engines /\ request[r].copy \in EngineRows /\ request[r].copy.exists
    BY <1>0, <1>7 DEF SaveEngine, Callers, CallsOK, CallOK
  <2>2. CallsOK' /\ UNCHANGED agent
    BY <1>0, <1>7, <2>1, FinishKeepsCalls DEF SaveEngine
  <2>3. PICK beat \in {request[r].copy.last_heartbeat, "old"} :
          engine' = [engine EXCEPT ![request[r].at] =
                       [request[r].copy EXCEPT !.last_heartbeat = beat]]
    BY <1>7 DEF SaveEngine
  <2>4. /\ [request[r].copy EXCEPT !.last_heartbeat = beat] \in EngineRows
        /\ [request[r].copy EXCEPT !.last_heartbeat = beat].exists
    BY <2>1 DEF EngineRows, Beats
  <2>5. engine' \in [Engines -> EngineRows]
        /\ \A f \in Engines : engine[f].exists => engine'[f].exists
    BY <1>0, <2>3, <2>4
  <2> QED
    BY <1>0, <1>1, <2>2, <2>5, EngineKeepsTables
<1>8. ASSUME NEW e \in Engines, GrowOld(e) PROVE Tables'
  <2>1. engine' \in [Engines -> EngineRows] /\ UNCHANGED <<agent, request>>
        /\ \A f \in Engines : engine[f].exists => engine'[f].exists
    BY <1>0, <1>8 DEF GrowOld, EngineRows, Beats
  <2>2. CallsOK'
    BY <1>0, <2>1 DEF CallsOK
  <2> QED
    BY <1>0, <1>1, <2>1, <2>2, EngineKeepsTables
<1> QED
  BY <1>2, <1>3, <1>4, <1>5, <1>6, <1>7, <1>8 DEF EngineStep

\* authenticate leaves an engine's row where it is.
LEMMA AuthenticateKeeps ==
    ASSUME SpliceTypeOK, NEW e \in Engines, authenticate(e)
    PROVE  /\ engine' \in [Engines -> EngineRows]
           /\ \A f \in Engines : engine'[f].exists = engine[f].exists
<1>1. engine \in [Engines -> EngineRows]
  BY DEF SpliceTypeOK
<1>2. engine' = [engine EXCEPT ![e] = Reported(engine[e])]
  BY DEF authenticate
<1>3. Reported(engine[e]) \in EngineRows /\ Reported(engine[e]).exists = engine[e].exists
  BY <1>1, EngineRowTypes
<1> QED
  BY <1>1, <1>2, <1>3

\* A job's row is written back from a copy, or not at all.
LEMMA SavedType ==
    ASSUME Tables, NEW j \in Jobs, NEW copy \in JobRows, copy.exists,
           copy.local_engine \in Engines, job' = Saved(copy, j)
    PROVE  /\ job' \in [Jobs -> JobRows]
           /\ \A k \in Jobs : k # j => job'[k] = job[k]
           /\ job'[j] = job[j] \/ (job'[j] = copy /\ engine[copy.local_engine].exists)
BY DEF Tables, SpliceTypeOK, Saved

LEMMA SubmitTables ==
    ASSUME Tables, NEW r \in Requests, NEW e \in Engines, create(r, e)
    PROVE  Tables'
<1> DEFINE call == [doing |-> "submitting", at |-> e, copy |-> None]
<1>1. Start(r, "submitting", e, None) /\ UNCHANGED <<engineVars, jobVars, touches>>
  BY DEF create
<1>2. call \in Calls /\ r \in Callers /\ CallOK(call)
  BY DEF Calls, Callers, CallOK
<1>3. CallsOK'
  BY <1>1, <1>2, Started, CallsKept DEF Tables
<1> QED
  BY <1>1, <1>3 DEF engineVars, jobVars, Tables, SpliceTypeOK, KeysOK, WorkOK

\* What the insert of a submission does to the table.
LEMMA Inserted ==
    ASSUME Tables, NEW r \in Requests, NEW j \in Jobs, InsertJob(r, j)
    PROVE  /\ job' \in [Jobs -> JobRows]
           /\ \A k \in Jobs : k # j => job'[k] = job[k]
           /\ job[j] = NoJob
           /\ \/ job'[j] = NoJob
              \/ /\ job'[j].exists /\ job'[j].status = "queued"
                 /\ job'[j].local_engine = request[r].at
                 /\ request[r].at \in Engines /\ engine[request[r].at].exists
<1> DEFINE e == request[r].at
           born == Cardinality({k \in Jobs : job[k] # NoJob}) + 1
<1>1. job[j] = NoJob /\ e \in Engines
  BY DEF InsertJob, Callers, Tables, CallsOK, CallOK
<1>2. born \in 0..Cardinality(Jobs)
  BY <1>1, BornType
<1>3. job' = IF engine[e].exists THEN [job EXCEPT ![j] = NewJob(e, born)] ELSE job
  BY DEF InsertJob, NewJob
<1> HIDE DEF born
<1>4. /\ NewJob(e, born) \in JobRows /\ NewJob(e, born).exists
      /\ NewJob(e, born).local_engine = e /\ NewJob(e, born).status = "queued"
  BY <1>1, <1>2, NewJobType
<1> QED
  BY <1>1, <1>3, <1>4 DEF Tables, SpliceTypeOK

LEMMA InsertTables ==
    ASSUME Tables, NEW r \in Requests, NEW j \in Jobs, InsertJob(r, j)
    PROVE  Tables'
<1>1. CallsOK' /\ UNCHANGED <<engineVars, work, excused, touches>>
  BY FinishKeepsCalls DEF InsertJob, Callers, Tables
<1>2. KeysOK'
  BY <1>1, Inserted, JobRowTypes DEF engineVars, Tables, KeysOK
<1> QED
  BY <1>1, <1>2, Inserted DEF engineVars, Tables, SpliceTypeOK, WorkOK

LEMMA LoadTables ==
    ASSUME Tables, NEW r \in Requests, NEW j \in Jobs,
           confirm(r, j) \/ \E edit \in Edits : LoadJob(r, j, edit)
    PROVE  Tables'
<1>0. touches' \in 0..MaxTouches /\ r \in Callers
  BY TouchType DEF confirm, LoadJob, Tables, Callers
<1>1. ASSUME confirm(r, j) PROVE CallsOK'
  <2> DEFINE call == [doing |-> "confirming", at |-> j, copy |-> None]
  <2>1. call \in Calls /\ CallOK(call)
    BY DEF Calls, CallOK
  <2> QED
    BY <1>0, <1>1, <2>1, Started, CallsKept DEF Tables, confirm
<1>2. ASSUME NEW edit \in Edits, LoadJob(r, j, edit) PROVE CallsOK'
  <2> DEFINE copy == Edited(job[j], edit)
             call == [doing |-> "patching job", at |-> j, copy |-> copy]
  <2>1. copy \in JobRows /\ copy.exists /\ copy.local_engine \in Engines
    BY <1>2, EditedType DEF LoadJob, Tables, SpliceTypeOK, KeysOK
  <2>2. Start(r, "patching job", j, copy)
    BY <1>2 DEF LoadJob
  <2> HIDE DEF copy
  <2>3. call \in Calls /\ CallOK(call)
    BY <2>1 DEF Calls, CallOK
  <2> QED
    BY <1>0, <2>2, <2>3, Started, CallsKept DEF Tables
<1>3. UNCHANGED <<engineVars, jobVars>>
  BY DEF confirm, LoadJob
<1> QED
  BY <1>0, <1>1, <1>2, <1>3 DEF engineVars, jobVars, Tables, SpliceTypeOK, KeysOK, WorkOK

LEMMA SaveJobTables ==
    ASSUME Tables, NEW r \in Requests, SaveJob(r)
    PROVE  Tables'
<1>1. /\ request[r].at \in Jobs
      /\ request[r].copy \in JobRows /\ request[r].copy.exists
      /\ request[r].copy.local_engine \in Engines
  BY DEF SaveJob, Callers, Tables, CallsOK, CallOK
<1>2. CallsOK' /\ UNCHANGED <<engineVars, work, touches>>
  BY FinishKeepsCalls DEF SaveJob, Callers, Tables
<1>3. job' = Saved(request[r].copy, request[r].at)
      /\ excused' = excused \cup {request[r].at}
  BY DEF SaveJob
<1>4. KeysOK' /\ job' \in [Jobs -> JobRows]
  BY <1>1, <1>2, <1>3, SavedType DEF engineVars, Tables, KeysOK
<1> QED
  BY <1>1, <1>2, <1>3, <1>4 DEF engineVars, Tables, SpliceTypeOK, WorkOK

\* A confirmation keeps the identity of a row.
LEMMA ConfirmTables ==
    ASSUME Tables, NEW r \in Requests, SaveConfirmed(r) \/ ReleaseJob(r)
    PROVE  /\ Tables'
           /\ \A j \in Jobs : /\ job'[j].exists = job[j].exists
                              /\ job'[j].local_engine = job[j].local_engine
                              /\ job'[j].created_at = job[j].created_at
                              /\ job'[j] # job[j] => job[j].exists
                              /\ job'[j].status \in {job[j].status, "waiting_for_engine"}
<1>0. /\ request[r].at \in Jobs /\ r \in Callers
      /\ job \in [Jobs -> JobRows]
  BY DEF SaveConfirmed, ReleaseJob, Callers, Tables, SpliceTypeOK, CallsOK, CallOK
<1>1. /\ job' \in [Jobs -> JobRows]
      /\ \A j \in Jobs : /\ job'[j].exists = job[j].exists
                         /\ job'[j].local_engine = job[j].local_engine
                         /\ job'[j].created_at = job[j].created_at
                         /\ job'[j] # job[j] => job[j].exists
                         /\ job'[j].status \in {job[j].status, "waiting_for_engine"}
  <2> DEFINE k == request[r].at
  <2>1. \/ UNCHANGED job
        \/ job[k].exists /\ job' = [job EXCEPT ![k].user_confirmed = TRUE]
        \/ job[k].exists /\ job' = [job EXCEPT ![k].status = "waiting_for_engine"]
    BY DEF SaveConfirmed, ReleaseJob
  <2>2. job[k] \in JobRows
    BY <1>0
  <2>3. CASE job[k].exists /\ job' = [job EXCEPT ![k].user_confirmed = TRUE]
    BY <1>0, <2>2, <2>3 DEF JobRows
  <2>4. CASE job[k].exists /\ job' = [job EXCEPT ![k].status = "waiting_for_engine"]
    BY <1>0, <2>2, <2>4 DEF JobRows, Statuses
  <2> QED
    BY <1>0, <2>1, <2>3, <2>4
<1>2. CallsOK'
  <2>1. CASE Finish(r)
    BY <1>0, <2>1, FinishKeepsCalls DEF Tables
  <2>2. CASE request' = [request EXCEPT ![r].doing = "releasing"]
    <3> DEFINE call == [request[r] EXCEPT !.doing = "releasing"]
    <3>1. call \in Calls /\ CallOK(call)
      BY <1>0 DEF Calls, CallOK, Tables, CallsOK
    <3>2. OnlyCall(r, call)
      BY <1>0, <2>2, <3>1 DEF Tables, CallsOK, OnlyCall
    <3> QED
      BY <1>0, <3>1, <3>2, CallsKept DEF Tables
  <2> QED
    BY <2>1, <2>2 DEF SaveConfirmed, ReleaseJob
<1>3. UNCHANGED <<engineVars, work, excused, touches>>
  BY DEF SaveConfirmed, ReleaseJob
<1> QED
  BY <1>1, <1>2, <1>3 DEF engineVars, Tables, SpliceTypeOK, KeysOK, WorkOK

WorkRows == [job : Jobs \cup {None},
             phase : {"idle", "taken", "starting", "running", "ending"}]

LEMMA NoWorkType == NoWork \in WorkRows /\ NoWork.phase = "idle" /\ NoWork.job \notin Jobs
BY JobsAssumption DEF NoWork, WorkRows

LEMMA DeleteTables ==
    ASSUME Tables,
           (\E j \in Jobs : DeleteJob(j)) \/ (\E e \in Engines : DeleteEngine(e))
    PROVE  /\ Tables'
           /\ \A j \in Jobs : job'[j] = job[j] \/ (job[j] # NoJob /\ job'[j] = GoneJob)
<1>0. job \in [Jobs -> JobRows] /\ engine \in [Engines -> EngineRows]
  BY DEF Tables, SpliceTypeOK
<1>1. ASSUME NEW j \in Jobs, DeleteJob(j)
      PROVE  /\ Tables'
             /\ \A k \in Jobs : job'[k] = job[k] \/ (job[k] # NoJob /\ job'[k] = GoneJob)
  <2>1. job' = [job EXCEPT ![j] = GoneJob] /\ job[j] # NoJob
    BY <1>1, JobRowTypes DEF DeleteJob
  <2>2. UNCHANGED <<engineVars, request, work, excused, touches>>
    BY <1>1 DEF DeleteJob
  <2> QED
    BY <1>0, <2>1, <2>2, JobRowTypes
       DEF engineVars, Tables, SpliceTypeOK, CallsOK, KeysOK, WorkOK
<1>2. ASSUME NEW e \in Engines, DeleteEngine(e)
      PROVE  /\ Tables'
             /\ \A k \in Jobs : job'[k] = job[k] \/ (job[k] # NoJob /\ job'[k] = GoneJob)
  <2>1. /\ engine' = [engine EXCEPT ![e] = Gone]
        /\ job' = [j \in Jobs |-> IF job[j].local_engine = e THEN GoneJob ELSE job[j]]
        /\ UNCHANGED <<agent, request, work, excused, touches>>
    BY <1>2 DEF DeleteEngine, DeleteEngineRow
  <2>2. NoJob.local_engine # e
    BY NoneAssumption DEF NoJob
  <2>3. Gone \in EngineRows /\ ~Gone.exists
    BY EngineRowTypes, NamesAssumption
  <2>4. engine' \in [Engines -> EngineRows]
        /\ \A f \in Engines : f # e => engine'[f] = engine[f]
    BY <1>0, <2>1, <2>3
  <2>5. /\ job' \in [Jobs -> JobRows]
        /\ \A k \in Jobs : job'[k] = job[k] \/ (job[k] # NoJob /\ job'[k] = GoneJob)
        /\ \A k \in Jobs : job'[k].exists => job'[k] = job[k] /\ job[k].local_engine # e
    BY <1>0, <2>1, <2>2, JobRowTypes
  <2>6. KeysOK'
    BY <2>4, <2>5 DEF Tables, KeysOK
  <2> QED
    BY <2>1, <2>4, <2>5, <2>6 DEF Tables, SpliceTypeOK, CallsOK, WorkOK
<1> QED
  BY <1>1, <1>2

LEMMA HeartbeatTables ==
    ASSUME Tables, NEW e \in Engines, heartbeat(e)
    PROVE  /\ Tables'
           /\ UNCHANGED <<request, job, excused>>
           /\ \/ UNCHANGED work
              \/ /\ work[e] = NoWork
                 /\ \E j \in Waiting(e) : work' = [work EXCEPT ![e] = [job |-> j, phase |-> "taken"]]
<1>1. /\ engine' \in [Engines -> EngineRows]
      /\ \A f \in Engines : engine'[f].exists = engine[f].exists
      /\ UNCHANGED <<agent, request, job, excused, touches>>
  BY AuthenticateKeeps DEF heartbeat, Tables
<1>2. \/ UNCHANGED work
      \/ /\ work[e] = NoWork
         /\ \E j \in Waiting(e) : work' = [work EXCEPT ![e] = [job |-> j, phase |-> "taken"]]
  BY DEF heartbeat, jobs_queued
<1>3. Waiting(e) \subseteq Jobs
  BY DEF Waiting
<1>4. /\ work' \in [Engines -> WorkRows]
      /\ WorkOK'
  <2>0. work \in [Engines -> WorkRows] /\ WorkOK
    BY DEF Tables, SpliceTypeOK, WorkRows
  <2>1. CASE UNCHANGED work
    BY <2>0, <2>1 DEF WorkOK
  <2>2. ASSUME NEW j \in Waiting(e), work' = [work EXCEPT ![e] = [job |-> j, phase |-> "taken"]]
        PROVE  work' \in [Engines -> WorkRows] /\ WorkOK'
    BY <1>3, <2>0, <2>2 DEF WorkRows, WorkOK
  <2> QED
    BY <1>2, <2>1, <2>2
<1> QED
  BY <1>1, <1>2, <1>4 DEF Tables, SpliceTypeOK, CallsOK, KeysOK, WorkRows

\* What a report does: it starts a call with the row as the engine saw it, or
\* the engine drops a job that is gone.
ReportMoves(r, e, j) ==
    \/ /\ job[j].exists /\ request[r] = Idle
       /\ \E status \in {"processing", "completed", "failed"} :
            /\ OnlyCall(r, [doing |-> "reporting", at |-> j,
                            copy |-> [job[j] EXCEPT !.status = status]])
            /\ work' = [work EXCEPT ![e] = [job |-> j, phase |-> PhaseOf(status)]]
            /\ work[e].phase = (IF status = "processing" THEN "taken" ELSE "running")
    \/ /\ ~job[j].exists
       /\ work' = [work EXCEPT ![e] = NoWork]
       /\ UNCHANGED request

LEMMA CopyType ==
    ASSUME NEW row \in JobRows, NEW status \in Statuses
    PROVE  /\ [row EXCEPT !.status = status] \in JobRows
           /\ [row EXCEPT !.status = status].exists = row.exists
           /\ [row EXCEPT !.status = status].local_engine = row.local_engine
           /\ [row EXCEPT !.status = status].status = status
BY DEF JobRows

LEMMA ReportTables ==
    ASSUME Tables, NEW r \in Uplinks, NEW e \in Engines, NEW status \in Statuses,
           Report(r, e, status)
    PROVE  /\ Tables'
           /\ UNCHANGED <<job, excused>>
           /\ work[e].job \in Jobs /\ work[e].phase \in {"taken", "running"}
           /\ ReportMoves(r, e, work[e].job)
<1> DEFINE j == work[e].job
           copy == [job[j] EXCEPT !.status = status]
           call == [doing |-> "reporting", at |-> j, copy |-> copy]
<1>0. SpliceTypeOK /\ CallsOK /\ work \in [Engines -> WorkRows] /\ WorkOK
  BY DEF Tables, SpliceTypeOK, WorkRows
<1>1. j \in Jobs /\ work[e].phase \in {"taken", "running"}
  BY <1>0, NoWorkType DEF Report, WorkOK
<1>2. /\ engine' \in [Engines -> EngineRows]
      /\ \A f \in Engines : engine'[f].exists = engine[f].exists
      /\ UNCHANGED <<agent, job, excused, touches>>
  BY <1>0, AuthenticateKeeps DEF Report
<1>3. /\ status \in {"processing", "completed", "failed"}
      /\ work[e].phase = (IF status = "processing" THEN "taken" ELSE "running")
  BY <1>1 DEF Report
<1>4. CASE job[j].exists
  <2>1. /\ Start(r, "reporting", j, copy)
        /\ work' = [work EXCEPT ![e].phase = IF @ = "taken" THEN "starting" ELSE "ending"]
    BY <1>4 DEF Report
  <2>2. copy \in JobRows /\ copy.exists /\ copy.local_engine \in Engines /\ copy.status = status
    BY <1>0, <1>1, <1>4, CopyType DEF SpliceTypeOK, Tables, KeysOK
  <2> HIDE DEF copy
  <2>3. call \in Calls /\ CallOK(call) /\ r \in Callers
    BY <1>1, <1>3, <2>2 DEF Calls, CallOK, Callers
  <2>4. OnlyCall(r, call) /\ request[r] = Idle
    BY <1>0, <2>1, <2>3, Started
  <2>5. CallsOK'
    BY <1>0, <2>3, <2>4, CallsKept
  <2>6. work' = [work EXCEPT ![e] = [job |-> j, phase |-> PhaseOf(status)]]
    <3>1. work[e] = [job |-> j, phase |-> work[e].phase]
      BY <1>0 DEF WorkRows
    <3>2. [work[e] EXCEPT !.phase = PhaseOf(status)] = [job |-> j, phase |-> PhaseOf(status)]
      BY <3>1
    <3> QED
      BY <1>0, <1>3, <2>1, <3>2 DEF PhaseOf
  <2>7. work' \in [Engines -> WorkRows] /\ WorkOK'
    BY <1>0, <1>1, <2>6 DEF WorkRows, WorkOK, PhaseOf
  <2>8. ReportMoves(r, e, j)
    BY <1>3, <1>4, <2>4, <2>6 DEF ReportMoves, copy
  <2> QED
    BY <1>1, <1>2, <2>5, <2>7, <2>8 DEF Tables, SpliceTypeOK, KeysOK, WorkRows
<1>5. CASE ~job[j].exists
  <2>1. work' = [work EXCEPT ![e] = NoWork] /\ UNCHANGED request
    BY <1>5 DEF Report
  <2>2. work' \in [Engines -> WorkRows] /\ WorkOK'
    BY <1>0, <2>1, NoWorkType DEF WorkOK
  <2> QED
    BY <1>1, <1>2, <1>5, <2>1, <2>2
       DEF Tables, SpliceTypeOK, CallsOK, KeysOK, WorkRows, ReportMoves
<1> QED
  BY <1>4, <1>5

LEMMA UpdateTables ==
    ASSUME Tables, NEW r \in Uplinks, partial_update(r)
    PROVE  Tables'
<1>1. /\ request[r].at \in Jobs
      /\ request[r].copy \in JobRows /\ request[r].copy.exists
      /\ request[r].copy.local_engine \in Engines
  BY DEF partial_update, Callers, Tables, CallsOK, CallOK
<1>2. CallsOK' /\ UNCHANGED <<engineVars, excused, touches>>
  BY FinishKeepsCalls DEF partial_update, Callers, Tables
<1>3. job' = Saved(request[r].copy, request[r].at)
  BY DEF partial_update
<1>4. KeysOK' /\ job' \in [Jobs -> JobRows]
  BY <1>1, <1>2, <1>3, SavedType DEF engineVars, Tables, KeysOK
<1>5. \A e \in Engines : \/ work'[e] = work[e]
                         \/ work'[e] = NoWork
                         \/ work[e].phase # "idle" /\ work'[e] = [work[e] EXCEPT !.phase = "running"]
  BY DEF partial_update, Answered
<1>6. work' \in [Engines -> WorkRows] /\ WorkOK'
  <2>0. work \in [Engines -> WorkRows] /\ WorkOK /\ DOMAIN work' = Engines
        /\ work' = [e \in Engines |-> work'[e]]
    BY DEF Tables, SpliceTypeOK, WorkRows, partial_update
  <2>1. \A e \in Engines : work'[e] \in WorkRows
                           /\ (work'[e] = NoWork \/ (work'[e].phase # "idle" /\ work'[e].job \in Jobs))
    BY <1>5, <2>0, NoWorkType DEF WorkRows, WorkOK
  <2> QED
    BY <2>0, <2>1 DEF WorkOK
<1> QED
  BY <1>2, <1>4, <1>6 DEF engineVars, Tables, SpliceTypeOK, WorkRows

LEMMA AgentTables ==
    ASSUME Tables, NEW e \in Engines, EngineStops(e) \/ EngineStarts(e)
    PROVE  Tables'
<1>0. work \in [Engines -> WorkRows] /\ WorkOK /\ agent \in [Engines -> {"up", "down"}]
  BY DEF Tables, SpliceTypeOK, WorkRows
<1>1. UNCHANGED <<engine, request, job, touches>> /\ agent' \in [Engines -> {"up", "down"}]
  BY <1>0 DEF EngineStops, EngineStarts, jobVars
<1>2. work' \in [Engines -> WorkRows] /\ WorkOK'
  BY <1>0, NoWorkType DEF EngineStops, EngineStarts, jobVars, WorkOK
<1>3. excused' \subseteq Jobs
  BY <1>0, NoWorkType DEF EngineStops, EngineStarts, jobVars, WorkOK, Tables, SpliceTypeOK
<1> QED
  BY <1>1, <1>2, <1>3 DEF Tables, SpliceTypeOK, CallsOK, KeysOK, WorkRows

LEMMA TablesInit == Init => Tables
<1> SUFFICES ASSUME Init PROVE Tables
  OBVIOUS
<1>1. /\ engine \in [Engines -> EngineRows] /\ agent \in [Engines -> {"up", "down"}]
      /\ job \in [Jobs -> JobRows] /\ \A j \in Jobs : ~job[j].exists
      /\ work \in [Engines -> WorkRows] /\ \A e \in Engines : work[e] = NoWork
  BY EngineRowTypes, JobRowTypes, NoWorkType DEF Init, EngineInit
<1>2. request \in [Callers -> Calls] /\ \A r \in Callers : request[r].doing = "idle"
  BY IdleCall DEF Init, Callers
<1>3. excused = {} /\ touches \in 0..MaxTouches
  BY TouchesAssumption DEF Init
<1>4. CallsOK
  BY <1>2 DEF CallsOK, CallOK
<1> QED
  BY <1>1, <1>3, <1>4 DEF Tables, SpliceTypeOK, KeysOK, WorkOK, WorkRows

LEMMA TablesStep == Tables /\ [Next]_vars => Tables'
<1> SUFFICES ASSUME Tables, [Next]_vars PROVE Tables'
  OBVIOUS
<1>1. CASE EngineStep /\ UNCHANGED jobVars
  BY <1>1, EngineStepTables
<1>2. ASSUME NEW r \in Requests, NEW e \in Engines, create(r, e) PROVE Tables'
  BY <1>2, SubmitTables
<1>3. ASSUME NEW r \in Uplinks, NEW e \in Engines, NEW status \in Statuses,
             Report(r, e, status)
      PROVE  Tables'
  BY <1>3, ReportTables
<1>4. ASSUME NEW r \in Requests, NEW j \in Jobs, InsertJob(r, j) PROVE Tables'
  BY <1>4, InsertTables
<1>5. ASSUME NEW r \in Requests, NEW j \in Jobs,
             confirm(r, j) \/ \E edit \in Edits : LoadJob(r, j, edit)
      PROVE  Tables'
  BY <1>5, LoadTables
<1>6. ASSUME NEW r \in Requests, SaveJob(r) PROVE Tables'
  BY <1>6, SaveJobTables
<1>7. ASSUME NEW r \in Requests, SaveConfirmed(r) \/ ReleaseJob(r) PROVE Tables'
  BY <1>7, ConfirmTables
<1>8. ASSUME NEW r \in Uplinks, partial_update(r) PROVE Tables'
  BY <1>8, UpdateTables
<1>9. ASSUME (\E j \in Jobs : DeleteJob(j)) \/ (\E e \in Engines : DeleteEngine(e))
      PROVE  Tables'
  BY <1>9, DeleteTables
<1>10. ASSUME NEW e \in Engines, heartbeat(e) PROVE Tables'
  BY <1>10, HeartbeatTables
<1>11. ASSUME NEW e \in Engines, EngineStops(e) \/ EngineStarts(e) PROVE Tables'
  BY <1>11, AgentTables
<1>12. CASE UNCHANGED vars
  BY <1>12 DEF vars, engineVars, jobVars, Tables, SpliceTypeOK, CallsOK, KeysOK, WorkOK
<1> QED
  BY <1>1, <1>2, <1>3, <1>4, <1>5, <1>6, <1>7, <1>8, <1>9, <1>10, <1>11, <1>12 DEF Next

\* The tables hold rows of their types, a job's key to its engine leads to a
\* row, and what requests hold fits what they are doing.
THEOREM SpliceTypeCorrect == Spec => []SpliceTypeOK
BY TablesInit, TablesStep, PTL DEF Spec, Tables

----------------------------------------------------------------------------
(* Part 2.  Only two statements write FALSE to is_online.                  *)

LEMMA OfflineStep ==
    ASSUME Tables, [Next]_vars, NEW e \in Engines,
           engine[e].exists, engine[e].is_online, engine'[e].exists, ~engine'[e].is_online
    PROVE  ReadOldHeartbeat(e) \/ ReadOffline(e)
<1>0. /\ engine \in [Engines -> EngineRows]
      /\ \A r \in Requests : CallOK(request[r])
  BY DEF Tables, SpliceTypeOK, CallsOK, Callers
<1>1. ASSUME NEW r \in Requests, MarkOffline(r) PROVE ReadOldHeartbeat(e)
  <2>1. request[r].at = e
    BY <1>0, <1>1 DEF MarkOffline, EngineRows
  <2> QED
    BY <1>0, <1>1, <2>1 DEF MarkOffline, CallOK, ReadOldHeartbeat
<1>2. ASSUME NEW r \in Requests, SaveEngine(r) PROVE ReadOffline(e)
  <2>1. PICK beat \in {request[r].copy.last_heartbeat, "old"} :
          engine' = [engine EXCEPT ![request[r].at] =
                       [request[r].copy EXCEPT !.last_heartbeat = beat]]
    BY <1>2 DEF SaveEngine
  <2>2. request[r].copy \in EngineRows
    BY <1>0, <1>2 DEF SaveEngine, CallOK
  <2>3. [request[r].copy EXCEPT !.last_heartbeat = beat].is_online = request[r].copy.is_online
    BY <2>2 DEF EngineRows
  <2>4. request[r].at = e /\ ~request[r].copy.is_online
    BY <1>0, <2>1, <2>3
  <2> QED
    BY <1>2, <2>4 DEF SaveEngine, ReadOffline
<1>3. ASSUME NEW r \in Requests, NEW f \in Engines, CreateEngine(r, f) PROVE FALSE
  <2>1. ~NoEngine.exists
    BY DEF NoEngine
  <2> QED
    BY <1>0, <1>3, <2>1 DEF CreateEngine
<1>4. ASSUME NEW f \in Engines, authenticate(f) PROVE FALSE
  BY <1>0, <1>4 DEF authenticate, Reported, EngineRows
<1>5. ASSUME NEW f \in Engines, GrowOld(f) PROVE FALSE
  BY <1>0, <1>5 DEF GrowOld, EngineRows
<1>6. ASSUME NEW f \in Engines, DeleteEngine(f) PROVE FALSE
  BY <1>0, <1>6, EngineRowTypes, NamesAssumption DEF DeleteEngine, DeleteEngineRow
<1>7. ASSUME UNCHANGED engine PROVE FALSE
  BY <1>7
<1>8. CASE EngineStep
  BY <1>1, <1>2, <1>3, <1>5, <1>7, <1>8
     DEF EngineStep, LoadEngine, register_engine, check_engine_offline, engineVars
<1>9. CASE \/ \E r \in Uplinks, f \in Engines, status \in Statuses : Report(r, f, status)
           \/ \E f \in Engines : heartbeat(f)
  BY <1>4, <1>9 DEF Report, heartbeat
<1>10. CASE \/ \E r \in Requests, f \in Engines : create(r, f)
            \/ \E r \in Requests, j \in Jobs :
                 InsertJob(r, j) \/ confirm(r, j) \/ \E edit \in Edits : LoadJob(r, j, edit)
            \/ \E r \in Requests : SaveJob(r) \/ SaveConfirmed(r) \/ ReleaseJob(r)
            \/ \E r \in Uplinks : partial_update(r)
            \/ \E j \in Jobs : DeleteJob(j)
            \/ \E f \in Engines : EngineStops(f) \/ EngineStarts(f)
            \/ UNCHANGED vars
  <2>1. UNCHANGED engine
    BY <1>10 DEF create, InsertJob, confirm, LoadJob, SaveJob, SaveConfirmed, ReleaseJob,
                 partial_update, DeleteJob, EngineStops, EngineStarts, vars, engineVars
  <2> QED
    BY <1>7, <2>1
<1> QED
  BY <1>6, <1>8, <1>9, <1>10 DEF Next

\* An engine goes offline only by a check that read an old heartbeat, or by a
\* PATCH that read it offline.
THEOREM OfflineCaused == Spec => OfflineHasCause
<1>1. Tables /\ [Next]_vars =>
        [\A e \in Engines :
           /\ engine[e].exists
           /\ engine[e].is_online
           /\ engine'[e].exists /\ ~engine'[e].is_online
           => ReadOldHeartbeat(e) \/ ReadOffline(e)]_<<engineVars, request>>
  BY OfflineStep
<1> QED
  BY <1>1, TablesInit, TablesStep, PTL DEF Spec, OfflineHasCause

----------------------------------------------------------------------------
(* Part 3.  One engine per job.                                            *)

\* The step shows nobody else as an owner of a job than the state before it.
NoNewOwner ==
    \A j \in Jobs :
        /\ \A e \in Engines : Owns(e, j)' => Owns(e, j)
        /\ job'[j] = NoJob => job[j] = NoJob

\* The owner that a step leaves a job that was inserted before, if any, is the one it had.
OwnersStay ==
    \A j \in Jobs : job[j] # NoJob =>
        /\ job'[j] # NoJob
        /\ \A e \in Engines : Owns(e, j)' => Owns(e, j)

LEMMA NoNewOwnerKeeps == OneOwner /\ NoNewOwner => OneOwner' /\ OwnersStay
BY DEF OneOwner, NoNewOwner, OwnersStay

\* Rows, engines and copies after the step, by what the state before it shows.
RowsOwned ==
    \A j \in Jobs :
        /\ job'[j].exists => Owns(job'[j].local_engine, j)
        /\ job'[j] = NoJob => job[j] = NoJob

WorkOwned == \A e \in Engines : work'[e].job \in Jobs => Owns(e, work'[e].job)

CopiesOwned ==
    \A r \in Callers : request'[r].doing \in {"patching job", "reporting"} =>
        Owns(request'[r].copy.local_engine, request'[r].at)

LEMMA OwnersAfter ==
    ASSUME NEW e \in Engines, NEW j \in Jobs, Owns(e, j)', WorkOwned, CopiesOwned
    PROVE  Owns(e, j) \/ (job'[j].exists /\ job'[j].local_engine = e)
<1>1. CASE work'[e].job = j
  BY <1>1 DEF WorkOwned
<1>2. ASSUME NEW r \in Callers, request'[r].doing \in {"patching job", "reporting"},
             request'[r].at = j, request'[r].copy.local_engine = e
      PROVE  Owns(e, j)
  <2>1. Owns(request'[r].copy.local_engine, request'[r].at)
    BY <1>2 DEF CopiesOwned
  <2> QED
    BY <1>2, <2>1
<1>3. \/ job'[j].exists /\ job'[j].local_engine = e
      \/ work'[e].job = j
      \/ \E r \in Callers : /\ request'[r].doing \in {"patching job", "reporting"}
                            /\ request'[r].at = j
                            /\ request'[r].copy.local_engine = e
  BY DEF Owns
<1> QED
  BY <1>1, <1>2, <1>3

LEMMA OwnedIsOwner == RowsOwned /\ WorkOwned /\ CopiesOwned => NoNewOwner
<1> SUFFICES ASSUME RowsOwned, WorkOwned, CopiesOwned PROVE NoNewOwner
  OBVIOUS
<1>1. ASSUME NEW e \in Engines, NEW j \in Jobs, Owns(e, j)' PROVE Owns(e, j)
  <2>1. CASE job'[j].exists /\ job'[j].local_engine = e
    <3>1. Owns(job'[j].local_engine, j)
      BY <2>1 DEF RowsOwned
    <3> QED
      BY <2>1, <3>1
  <2> QED
    BY <1>1, <2>1, OwnersAfter
<1> QED
  BY <1>1 DEF NoNewOwner, RowsOwned

LEMMA UnmovedIsOwned ==
    /\ UNCHANGED job => RowsOwned
    /\ UNCHANGED work => WorkOwned
    /\ UNCHANGED request => CopiesOwned
BY DEF RowsOwned, WorkOwned, CopiesOwned, Owns

\* A call that holds no job's row shows no owner.
LEMMA CallOwned ==
    ASSUME CallsOK, NEW r \in Callers
    PROVE  /\ Finish(r) => CopiesOwned
           /\ request' = [request EXCEPT ![r].doing = "releasing"] => CopiesOwned
           /\ \A what, at, copy :
                /\ Start(r, what, at, copy)
                /\ what \in {"patching job", "reporting"} => Owns(copy.local_engine, at)
                => CopiesOwned
<1>1. \A s \in Callers : request[s].doing \in {"patching job", "reporting"} =>
        Owns(request[s].copy.local_engine, request[s].at)
  BY DEF Owns
<1>2. request \in [Callers -> Calls]
  BY DEF CallsOK
<1>3. Finish(r) => CopiesOwned
  BY <1>1, <1>2, IdleCall DEF Finish, CopiesOwned
<1>4. request' = [request EXCEPT ![r].doing = "releasing"] => CopiesOwned
  BY <1>1, <1>2 DEF CopiesOwned, Calls
<1>5. ASSUME NEW what, NEW at, NEW copy, Start(r, what, at, copy),
             what \in {"patching job", "reporting"} => Owns(copy.local_engine, at)
      PROVE  CopiesOwned
  BY <1>1, <1>2, <1>5 DEF Start, CopiesOwned
<1> QED
  BY <1>3, <1>4, <1>5

\* Whatever is written back or copied shows the engine that the job had already; only a
\* submission gives one to a job, which nobody had before.
LEMMA OneOwnerStep ==
    ASSUME Tables, OneOwner, [Next]_vars
    PROVE  OneOwner' /\ OwnersStay
<1>0. /\ job \in [Jobs -> JobRows] /\ work \in [Engines -> WorkRows] /\ WorkOK
      /\ CallsOK /\ KeysOK
      /\ \A r \in Callers : CallOK(request[r])
      /\ Requests \subseteq Callers /\ Uplinks \subseteq Callers
  BY DEF Tables, SpliceTypeOK, CallsOK, WorkRows, Callers
<1>1. \A j \in Jobs : job[j].exists => Owns(job[j].local_engine, j)
  BY DEF Owns
<1>2. CASE EngineStep /\ UNCHANGED jobVars
  <2>1. CopiesOwned
    BY <1>0, <1>2, CallOwned, UnmovedIsOwned
       DEF EngineStep, LoadEngine, register_engine, CreateEngine, check_engine_offline,
           MarkOffline, SaveEngine, GrowOld
  <2> QED
    BY <1>2, <2>1, OwnedIsOwner, UnmovedIsOwned, NoNewOwnerKeeps DEF jobVars
<1>3. ASSUME NEW r \in Requests, NEW e \in Engines, create(r, e) PROVE OneOwner' /\ OwnersStay
  <2>1. CopiesOwned
    BY <1>0, <1>3, CallOwned DEF create
  <2> QED
    BY <1>3, <2>1, OwnedIsOwner, UnmovedIsOwned, NoNewOwnerKeeps DEF jobVars, create
<1>4. ASSUME NEW r \in Uplinks, NEW e \in Engines, NEW status \in Statuses,
             Report(r, e, status)
      PROVE  OneOwner' /\ OwnersStay
  <2> DEFINE j == work[e].job
  <2>0. UNCHANGED job /\ j \in Jobs
    BY <1>4, ReportTables
  <2>1. CopiesOwned
    <3>1. \/ UNCHANGED request
          \/ job[j].exists /\ Start(r, "reporting", j, [job[j] EXCEPT !.status = status])
      BY <1>4 DEF Report
    <3>2. [job[j] EXCEPT !.status = status].local_engine = job[j].local_engine
      BY <1>0, <2>0, CopyType
    <3> QED
      BY <1>0, <1>1, <2>0, <3>1, <3>2, CallOwned, UnmovedIsOwned
  <2>2. WorkOwned
    <3>1. \A f \in Engines : work'[f].job \in {work[f].job, None}
      BY <1>0, <1>4 DEF Report, WorkRows, NoWork
    <3> QED
      BY <3>1, JobsAssumption DEF WorkOwned, Owns
  <2> QED
    BY <2>0, <2>1, <2>2, OwnedIsOwner, UnmovedIsOwned, NoNewOwnerKeeps
<1>5. ASSUME NEW r \in Requests, NEW j \in Jobs, InsertJob(r, j) PROVE OneOwner' /\ OwnersStay
  <2>0. UNCHANGED work /\ CopiesOwned
    BY <1>0, <1>5, CallOwned DEF InsertJob
  <2>1. /\ \A k \in Jobs : k # j => job'[k] = job[k]
        /\ job[j] = NoJob
        /\ job'[j] = NoJob \/ job'[j].exists
    BY <1>5, Inserted
  <2>2. \A e \in Engines : ~Owns(e, j)
    BY <2>1 DEF OneOwner
  <2>3. ~NoJob.exists /\ WorkOwned
    BY <2>0, JobRowTypes, UnmovedIsOwned
  <2>4. ASSUME NEW e \in Engines, NEW k \in Jobs, Owns(e, k)'
        PROVE  Owns(e, k) \/ (k = j /\ job'[j].exists /\ job'[j].local_engine = e)
    <3>1. CASE k = j
      BY <2>0, <2>3, <2>4, <3>1, OwnersAfter
    <3>2. CASE k # j /\ job[k].exists /\ job[k].local_engine = e
      BY <1>1, <3>2
    <3> QED
      BY <2>0, <2>1, <2>3, <2>4, <3>1, <3>2, OwnersAfter
  <2>5. OneOwner'
    BY <2>1, <2>2, <2>3, <2>4 DEF OneOwner
  <2>6. OwnersStay
    BY <2>1, <2>4 DEF OwnersStay
  <2> QED
    BY <2>5, <2>6
<1>6. ASSUME NEW r \in Requests, NEW j \in Jobs, confirm(r, j) PROVE OneOwner' /\ OwnersStay
  <2>1. CopiesOwned
    BY <1>0, <1>6, CallOwned DEF confirm
  <2> QED
    BY <1>6, <2>1, OwnedIsOwner, UnmovedIsOwned, NoNewOwnerKeeps DEF jobVars, confirm
<1>7. ASSUME NEW r \in Requests, NEW j \in Jobs, NEW edit \in Edits, LoadJob(r, j, edit)
      PROVE  OneOwner' /\ OwnersStay
  <2>1. Edited(job[j], edit).local_engine = job[j].local_engine
    BY <1>0, EditedType
  <2>2. CopiesOwned
    BY <1>0, <1>1, <1>7, <2>1, CallOwned DEF LoadJob
  <2> QED
    BY <1>7, <2>2, OwnedIsOwner, UnmovedIsOwned, NoNewOwnerKeeps DEF jobVars, LoadJob
<1>8. ASSUME NEW r \in Callers, Finish(r),
             request[r].doing \in {"patching job", "reporting"},
             job' = Saved(request[r].copy, request[r].at)
      PROVE  RowsOwned /\ CopiesOwned
  <2>1. /\ request[r].at \in Jobs /\ request[r].copy \in JobRows
        /\ request[r].copy.exists /\ request[r].copy.local_engine \in Engines
    BY <1>0, <1>8 DEF CallOK
  <2>2. Owns(request[r].copy.local_engine, request[r].at)
    BY <1>8 DEF Owns
  <2>3. ~NoJob.exists
    BY JobRowTypes
  <2>4. \A k \in Jobs :
          job'[k] = job[k] \/ (k = request[r].at /\ job'[k] = request[r].copy)
    BY ZenonT(30), <1>8, <2>1, SavedType
  <2>5. ASSUME NEW k \in Jobs
        PROVE  /\ job'[k].exists => Owns(job'[k].local_engine, k)
               /\ job'[k] = NoJob => job[k] = NoJob
    <3>1. CASE job'[k] = job[k]
      BY <1>1, <3>1
    <3>2. CASE k = request[r].at /\ job'[k] = request[r].copy
      <4>1. job'[k] # NoJob /\ job'[k].local_engine = request[r].copy.local_engine
        BY <2>1, <2>3, <3>2
      <4> QED
        BY <2>2, <3>2, <4>1
    <3> QED
      BY <2>4, <3>1, <3>2
  <2>6. RowsOwned
    BY <2>5 DEF RowsOwned
  <2> QED
    BY <1>0, <1>8, <2>6, CallOwned
<1>9. ASSUME NEW r \in Requests, SaveJob(r) PROVE OneOwner' /\ OwnersStay
  BY <1>0, <1>8, <1>9, OwnedIsOwner, UnmovedIsOwned, NoNewOwnerKeeps DEF SaveJob
<1>10. ASSUME NEW r \in Requests, SaveConfirmed(r) \/ ReleaseJob(r) PROVE OneOwner' /\ OwnersStay
  <2>1. CopiesOwned /\ UNCHANGED work
    BY <1>0, <1>10, CallOwned DEF SaveConfirmed, ReleaseJob
  <2>2. RowsOwned
    <3>1. \A j \in Jobs : /\ job'[j].exists = job[j].exists
                          /\ job'[j].local_engine = job[j].local_engine
                          /\ job'[j] # job[j] => job[j].exists
      BY <1>10, ConfirmTables
    <3> QED
      BY <1>1, <3>1, JobRowTypes DEF RowsOwned
  <2> QED
    BY <2>1, <2>2, OwnedIsOwner, UnmovedIsOwned, NoNewOwnerKeeps
<1>11. ASSUME NEW r \in Uplinks, partial_update(r) PROVE OneOwner' /\ OwnersStay
  <2>1. \A e \in Engines : work'[e].job \in {work[e].job, None}
    BY <1>0, <1>11 DEF partial_update, Answered, WorkRows, NoWork
  <2>2. WorkOwned
    BY <2>1, JobsAssumption DEF WorkOwned, Owns
  <2> QED
    BY <1>0, <1>8, <1>11, <2>2, OwnedIsOwner, NoNewOwnerKeeps DEF partial_update
<1>12. ASSUME (\E j \in Jobs : DeleteJob(j)) \/ (\E e \in Engines : DeleteEngine(e))
       PROVE  OneOwner' /\ OwnersStay
  <2>1. UNCHANGED <<work, request>>
    BY <1>12 DEF DeleteJob, DeleteEngine, DeleteEngineRow
  <2>2. RowsOwned
    BY <1>1, <1>12, DeleteTables, JobRowTypes DEF RowsOwned
  <2> QED
    BY <2>1, <2>2, OwnedIsOwner, UnmovedIsOwned, NoNewOwnerKeeps
<1>13. ASSUME NEW e \in Engines, heartbeat(e) PROVE OneOwner' /\ OwnersStay
  <2>1. UNCHANGED <<job, request>>
    BY <1>13, HeartbeatTables
  <2>2. \/ UNCHANGED work
        \/ \E j \in Waiting(e) : work' = [work EXCEPT ![e] = [job |-> j, phase |-> "taken"]]
    BY <1>13, HeartbeatTables
  <2>3. WorkOwned
    <3>1. CASE UNCHANGED work
      BY <3>1, UnmovedIsOwned
    <3>2. ASSUME NEW j \in Waiting(e), work' = [work EXCEPT ![e] = [job |-> j, phase |-> "taken"]]
          PROVE  WorkOwned
      BY <1>0, <3>2 DEF WorkOwned, Owns, Waiting
    <3> QED
      BY <2>2, <3>1, <3>2
  <2> QED
    BY <2>1, <2>3, OwnedIsOwner, UnmovedIsOwned, NoNewOwnerKeeps
<1>14. ASSUME NEW e \in Engines, EngineStops(e) \/ EngineStarts(e) PROVE OneOwner' /\ OwnersStay
  <2>1. UNCHANGED <<job, request>>
    BY <1>14 DEF EngineStops, EngineStarts, jobVars
  <2>2. \A f \in Engines : work'[f].job \in {work[f].job, None}
    BY <1>0, <1>14 DEF EngineStops, EngineStarts, jobVars, NoWork
  <2>3. WorkOwned
    BY <2>2, JobsAssumption DEF WorkOwned, Owns
  <2> QED
    BY <2>1, <2>3, OwnedIsOwner, UnmovedIsOwned, NoNewOwnerKeeps
<1>15. CASE UNCHANGED vars
  BY <1>15, OwnedIsOwner, UnmovedIsOwned, NoNewOwnerKeeps DEF vars, jobVars
<1> QED
  BY <1>2, <1>3, <1>4, <1>5, <1>6, <1>7, <1>9, <1>10, <1>11, <1>12, <1>13, <1>14, <1>15
     DEF Next

----------------------------------------------------------------------------
(* Reports and workers.                                                    *)

Worked == ReportsMatch /\ ProcessingHasWorker

\* A step that begins and ends no report, moves no engine's work and shows no job as
\* processing that was not, keeps them together.
LEMMA WorkedKept ==
    ASSUME Worked, UNCHANGED work, excused \subseteq excused',
           \A r \in Callers : request'[r].doing = "reporting" => request'[r] = request[r],
           \A j \in Jobs \ excused' : job'[j].exists /\ job'[j].status = "processing" =>
               job[j].exists /\ job[j].status = "processing"
    PROVE  Worked'
<1>1. ReportsMatch'
  <2>1. ASSUME NEW j \in Jobs, NEW r \in Callers, Reports(r, j)'
        PROVE  Reports(r, j) /\ request'[r] = request[r]
    BY <2>1 DEF Reports
  <2> QED
    BY <2>1 DEF Worked, ReportsMatch
<1>2. ProcessingHasWorker'
  BY DEF Worked, ProcessingHasWorker
<1> QED
  BY <1>1, <1>2 DEF Worked

\* Calls that are no reports.
LEMMA NoReportMoves ==
    ASSUME CallsOK, NEW r \in Callers
    PROVE  /\ Finish(r) =>
                \A s \in Callers : request'[s].doing = "reporting" => request'[s] = request[s]
           /\ request' = [request EXCEPT ![r].doing = "releasing"] =>
                \A s \in Callers : request'[s].doing = "reporting" => request'[s] = request[s]
           /\ \A what, at, copy : Start(r, what, at, copy) /\ what # "reporting" =>
                \A s \in Callers : request'[s].doing = "reporting" => request'[s] = request[s]
<1>1. request \in [Callers -> Calls]
  BY DEF CallsOK
<1>2. Finish(r) => \A s \in Callers : request'[s].doing = "reporting" => request'[s] = request[s]
  BY <1>1, IdleCall DEF Finish
<1>3. request' = [request EXCEPT ![r].doing = "releasing"] =>
        \A s \in Callers : request'[s].doing = "reporting" => request'[s] = request[s]
  BY <1>1 DEF Calls
<1>4. ASSUME NEW what, NEW at, NEW copy, Start(r, what, at, copy), what # "reporting"
      PROVE  \A s \in Callers : request'[s].doing = "reporting" => request'[s] = request[s]
  BY <1>1, <1>4 DEF Start
<1> QED
  BY <1>2, <1>3, <1>4

LEMMA HeartbeatWorked ==
    ASSUME Tables, Worked, NEW e \in Engines, heartbeat(e)
    PROVE  Worked'
<1>0. work \in [Engines -> WorkRows] /\ job \in [Jobs -> JobRows]
      /\ UNCHANGED <<request, job, excused>>
  BY HeartbeatTables DEF Tables, SpliceTypeOK, WorkRows
<1>1. CASE UNCHANGED work
  BY <1>0, <1>1, WorkedKept
<1>2. ASSUME work[e] = NoWork, NEW j \in Waiting(e),
             work' = [work EXCEPT ![e] = [job |-> j, phase |-> "taken"]]
      PROVE  Worked'
  <2>1. \A f \in Engines : work[f].phase # "idle" => work'[f] = work[f]
    BY <1>0, <1>2 DEF NoWork
  <2>2. ReportsMatch'
    BY <1>0, <2>1 DEF Worked, ReportsMatch, Reports, PhaseOf
  <2>3. ProcessingHasWorker'
    BY <1>0, <2>1 DEF Worked, ProcessingHasWorker
  <2> QED
    BY <2>2, <2>3 DEF Worked
<1> QED
  BY <1>1, <1>2, HeartbeatTables

LEMMA StopWorked ==
    ASSUME Tables, Worked, NEW e \in Engines, EngineStops(e)
    PROVE  Worked'
<1>0. /\ work \in [Engines -> WorkRows]
      /\ work' = [work EXCEPT ![e] = NoWork]
      /\ excused' = IF work[e].phase \in {"starting", "running", "ending"}
                    THEN excused \cup {work[e].job} ELSE excused
      /\ UNCHANGED <<request, job>>
  BY DEF Tables, SpliceTypeOK, WorkRows, EngineStops
<1>1. \A j \in Jobs \ excused' : \A f \in Engines :
        work[f].job = j /\ work[f].phase \in {"starting", "running", "ending"} => work'[f] = work[f]
  BY <1>0
<1>2. excused \subseteq excused'
  BY <1>0
<1>3. ReportsMatch'
  BY <1>0, <1>1, <1>2 DEF Worked, ReportsMatch, Reports, PhaseOf
<1>4. ProcessingHasWorker'
  BY <1>0, <1>1, <1>2 DEF Worked, ProcessingHasWorker
<1> QED
  BY <1>3, <1>4 DEF Worked

\* Nobody else reports on the job of an engine that takes it up or works on it.
LEMMA ReportWorked ==
    ASSUME Tables, OneOwner, Worked, NEW r \in Uplinks, NEW e \in Engines,
           NEW status \in Statuses, Report(r, e, status)
    PROVE  Worked'
<1> DEFINE j == work[e].job
<1>0. /\ work \in [Engines -> WorkRows] /\ request \in [Callers -> Calls] /\ r \in Callers
      /\ UNCHANGED <<job, excused>>
      /\ j \in Jobs /\ work[e].phase \in {"taken", "running"}
      /\ ReportMoves(r, e, j)
  BY ReportTables DEF Tables, SpliceTypeOK, CallsOK, WorkRows, Callers
<1>1. \A f \in Engines : work[f].job = j => f = e
  BY <1>0 DEF OneOwner, Owns
<1>2. ASSUME j \notin excused, NEW s \in Callers, Reports(s, j) PROVE FALSE
  <2>1. PICK f \in Engines : work[f] = [job |-> j, phase |-> PhaseOf(request[s].copy.status)]
    BY <1>0, <1>2 DEF Worked, ReportsMatch
  <2>2. work[e].phase = PhaseOf(request[s].copy.status)
    BY <1>1, <2>1
  <2> QED
    BY <1>0, <2>2 DEF PhaseOf
<1>3. \A f \in Engines : f # e => work'[f] = work[f]
  BY <1>0 DEF ReportMoves
<1>4. ASSUME NEW s \in {"processing", "completed", "failed"},
             OnlyCall(r, [doing |-> "reporting", at |-> j, copy |-> [job[j] EXCEPT !.status = s]]),
             work' = [work EXCEPT ![e] = [job |-> j, phase |-> PhaseOf(s)]],
             work[e].phase = (IF s = "processing" THEN "taken" ELSE "running")
      PROVE  Worked'
  <2> DEFINE copy == [job[j] EXCEPT !.status = s]
  <2>1. request'[r].doing = "reporting" /\ request'[r].at = j /\ request'[r].copy.status = s
    <3>1. copy.status = s
      BY <1>0, CopyType DEF Tables, SpliceTypeOK, Statuses
    <3> HIDE DEF copy
    <3>2. request'[r] = [doing |-> "reporting", at |-> j, copy |-> copy]
      BY <1>4 DEF OnlyCall, copy
    <3> QED
      BY <3>1, <3>2
  <2>2. \A t \in Callers : t # r => request'[t] = request[t]
    BY <1>4 DEF OnlyCall
  <2>3. \A k \in Jobs, t \in Callers : Reports(t, k)' => (t = r /\ k = j) \/ (t # r /\ Reports(t, k))
    BY <2>1, <2>2 DEF Reports
  <2>4. work'[e] = [job |-> j, phase |-> PhaseOf(s)]
    BY <1>0, <1>4
  <2>5. ReportsMatch'
    <3> SUFFICES ASSUME NEW k \in Jobs \ excused
                 PROVE  /\ \A t \in Callers : Reports(t, k)' =>
                             \E f \in Engines :
                               work'[f] = [job |-> k, phase |-> PhaseOf(request'[t].copy.status)]
                        /\ \A t, u \in Callers : Reports(t, k)' /\ Reports(u, k)' => t = u
      BY <1>0 DEF ReportsMatch
    <3>1. CASE k = j
      BY <1>2, <2>1, <2>3, <2>4, <3>1
    <3>2. CASE k # j
      <4>1. \A t \in Callers : Reports(t, k)' => Reports(t, k) /\ request'[t] = request[t]
        BY <2>2, <2>3, <3>2
      <4>2. \A f \in Engines : work[f].job = k => work'[f] = work[f]
        BY <1>3, <3>2
      <4>3. ASSUME NEW t \in Callers, Reports(t, k)'
            PROVE  \E f \in Engines :
                     work'[f] = [job |-> k, phase |-> PhaseOf(request'[t].copy.status)]
        <5>1. PICK f \in Engines :
                work[f] = [job |-> k, phase |-> PhaseOf(request[t].copy.status)]
          BY <4>1, <4>3 DEF Worked, ReportsMatch
        <5> QED
          BY <4>1, <4>2, <4>3, <5>1
      <4>4. \A t, u \in Callers : Reports(t, k)' /\ Reports(u, k)' => t = u
        BY <4>1 DEF Worked, ReportsMatch
      <4> QED
        BY <4>3, <4>4
    <3> QED
      BY <3>1, <3>2
  <2>6. ProcessingHasWorker'
    BY <1>0, <1>1, <1>3, <1>4, <2>4 DEF Worked, ProcessingHasWorker, PhaseOf
  <2> QED
    BY <2>5, <2>6 DEF Worked
<1>5. CASE ~job[j].exists /\ work' = [work EXCEPT ![e] = NoWork] /\ UNCHANGED request
  <2>1. ReportsMatch'
    BY <1>0, <1>3, <1>5 DEF Worked, ReportsMatch, Reports, PhaseOf
  <2>2. ProcessingHasWorker'
    BY <1>0, <1>3, <1>5 DEF Worked, ProcessingHasWorker
  <2> QED
    BY <2>1, <2>2 DEF Worked
<1> QED
  BY <1>0, <1>4, <1>5 DEF ReportMoves

\* The report on a job is saved, or there is no job to save it to: an engine that a copy
\* names and that is gone has taken its jobs with it.
LEMMA ReportSaved ==
    ASSUME Tables, OneOwner, NEW r \in Uplinks, partial_update(r)
    PROVE  LET j == request[r].at
           IN  /\ j \in Jobs
               /\ \A k \in Jobs : k # j => job'[k] = job[k]
               /\ job'[j] = request[r].copy \/ ~job'[j].exists
<1> DEFINE j == request[r].at
           f == request[r].copy.local_engine
<1>1. /\ r \in Callers /\ request[r].doing = "reporting"
      /\ job' = Saved(request[r].copy, j)
  BY DEF partial_update, Callers
<1>2. j \in Jobs /\ request[r].copy \in JobRows /\ request[r].copy.exists /\ f \in Engines
  BY <1>1 DEF Tables, CallsOK, CallOK
<1>3. Owns(f, j)
  BY <1>1 DEF Owns
<1>4. CASE engine[f].exists
  BY <1>1, <1>2, <1>4 DEF Saved, Tables, SpliceTypeOK
<1>5. CASE ~engine[f].exists
  <2>1. UNCHANGED job
    BY <1>1, <1>5 DEF Saved
  <2>2. ASSUME job[j].exists PROVE FALSE
    <3>1. Owns(job[j].local_engine, j) /\ job[j].local_engine \in Engines
          /\ engine[job[j].local_engine].exists
      BY <1>2, <2>2 DEF Owns, Tables, KeysOK
    <3> QED
      BY <1>2, <1>3, <1>5, <3>1 DEF OneOwner
  <2> QED
    BY <1>2, <2>1, <2>2
<1> QED
  BY <1>4, <1>5

\* The engine that waits for the answer goes on with the job, or is done with it.
LEMMA UpdateWorked ==
    ASSUME Tables, OneOwner, Worked, NEW r \in Uplinks, partial_update(r)
    PROVE  Worked'
<1> DEFINE j == request[r].at
           status == request[r].copy.status
<1>0. /\ work \in [Engines -> WorkRows] /\ request \in [Callers -> Calls] /\ r \in Callers
      /\ request[r].doing = "reporting" /\ UNCHANGED excused /\ Finish(r)
  BY DEF Tables, SpliceTypeOK, CallsOK, WorkRows, Callers, partial_update
<1>1. /\ j \in Jobs /\ \A k \in Jobs : k # j => job'[k] = job[k]
      /\ job'[j] = request[r].copy \/ ~job'[j].exists
  BY ReportSaved
<1>2. work' = [e \in Engines |-> IF work[e].job = j /\ work[e].phase = PhaseOf(status)
                                 THEN Answered(e, status) ELSE work[e]]
  BY DEF partial_update, PhaseOf
<1>3. \A k \in Jobs, e \in Engines : k # j /\ work[e].job = k => work'[e] = work[e]
  BY <1>2
<1>4. /\ request'[r].doing = "idle"
      /\ \A s \in Callers : s # r => request'[s] = request[s]
  BY <1>0, IdleCall DEF Finish
<1>5. \A k \in Jobs, s \in Callers : Reports(s, k)' =>
        s # r /\ Reports(s, k) /\ request'[s] = request[s]
  BY <1>4 DEF Reports
<1>6. Reports(r, j)
  BY <1>0 DEF Reports
<1>7. ReportsMatch'
  <2> SUFFICES ASSUME NEW k \in Jobs \ excused
               PROVE  /\ \A t \in Callers : Reports(t, k)' =>
                           \E f \in Engines :
                             work'[f] = [job |-> k, phase |-> PhaseOf(request'[t].copy.status)]
                      /\ \A t, u \in Callers : Reports(t, k)' /\ Reports(u, k)' => t = u
    BY <1>0 DEF ReportsMatch
  <2>1. \A t, u \in Callers : Reports(t, k) /\ Reports(u, k) => t = u
    BY DEF Worked, ReportsMatch
  <2>2. ASSUME NEW t \in Callers, Reports(t, k)'
        PROVE  \E f \in Engines :
                 work'[f] = [job |-> k, phase |-> PhaseOf(request'[t].copy.status)]
    <3>1. t # r /\ Reports(t, k) /\ request'[t] = request[t]
      BY <1>5, <2>2
    <3>2. k # j
      BY <1>6, <2>1, <3>1, <1>0
    <3>3. PICK f \in Engines : work[f] = [job |-> k, phase |-> PhaseOf(request[t].copy.status)]
      BY <3>1 DEF Worked, ReportsMatch
    <3> QED
      BY <1>3, <3>1, <3>2, <3>3
  <2> QED
    BY <1>5, <2>1, <2>2
<1>8. ProcessingHasWorker'
  <2> SUFFICES ASSUME NEW k \in Jobs, job'[k].exists, job'[k].status = "processing",
                      k \notin excused
               PROVE  \E e \in Engines : work'[e].job = k /\ work'[e].phase \in {"running", "ending"}
    BY <1>0 DEF ProcessingHasWorker
  <2>1. CASE k = j
    <3>1. status = "processing"
      BY <1>1, <2>1
    <3>2. PICK e \in Engines : work[e] = [job |-> j, phase |-> PhaseOf(status)]
      BY <1>0, <1>6, <2>1 DEF Worked, ReportsMatch
    <3>3. work'[e] = [work[e] EXCEPT !.phase = "running"]
      BY <1>2, <3>1, <3>2 DEF Answered
    <3> QED
      BY <2>1, <3>2, <3>3
  <2>2. CASE k # j
    <3>1. PICK e \in Engines : work[e].job = k /\ work[e].phase \in {"running", "ending"}
      BY <1>1, <2>2 DEF Worked, ProcessingHasWorker
    <3> QED
      BY <1>3, <2>2, <3>1
  <2> QED
    BY <2>1, <2>2
<1> QED
  BY <1>7, <1>8 DEF Worked

\* The other steps.
LEMMA WorkedStep ==
    ASSUME Tables, OneOwner, Worked, [Next]_vars
    PROVE  Worked'
<1>0. CallsOK /\ job \in [Jobs -> JobRows] /\ Requests \subseteq Callers /\ ~GoneJob.exists
  BY JobRowTypes DEF Tables, SpliceTypeOK, Callers
<1>1. CASE EngineStep /\ UNCHANGED jobVars
  <2>1. \A r \in Callers : request'[r].doing = "reporting" => request'[r] = request[r]
    BY <1>0, <1>1, NoReportMoves
       DEF EngineStep, LoadEngine, register_engine, CreateEngine, check_engine_offline,
           MarkOffline, SaveEngine, GrowOld
  <2> QED
    BY <1>1, <2>1, WorkedKept DEF jobVars
<1>2. ASSUME NEW r \in Requests, NEW e \in Engines, create(r, e) PROVE Worked'
  <2>1. \A s \in Callers : request'[s].doing = "reporting" => request'[s] = request[s]
    BY <1>0, <1>2, NoReportMoves DEF create
  <2> QED
    BY <1>2, <2>1, WorkedKept DEF create, jobVars
<1>3. ASSUME NEW r \in Requests, NEW j \in Jobs, InsertJob(r, j) PROVE Worked'
  <2>1. \A s \in Callers : request'[s].doing = "reporting" => request'[s] = request[s]
    BY <1>0, <1>3, NoReportMoves DEF InsertJob
  <2>2. UNCHANGED <<work, excused>>
    BY <1>3 DEF InsertJob
  <2>3. /\ \A k \in Jobs : k # j => job'[k] = job[k]
        /\ job'[j] = NoJob \/ (job'[j].exists /\ job'[j].status = "queued")
    BY <1>3, Inserted
  <2> QED
    BY <2>1, <2>2, <2>3, JobRowTypes, WorkedKept
<1>4. ASSUME NEW r \in Requests, NEW j \in Jobs,
             confirm(r, j) \/ \E edit \in Edits : LoadJob(r, j, edit)
      PROVE  Worked'
  <2>1. \A s \in Callers : request'[s].doing = "reporting" => request'[s] = request[s]
    BY <1>0, <1>4, NoReportMoves DEF confirm, LoadJob
  <2> QED
    BY <1>4, <2>1, WorkedKept DEF confirm, LoadJob, jobVars
<1>5. ASSUME NEW r \in Requests, SaveJob(r) PROVE Worked'
  <2>1. \A s \in Callers : request'[s].doing = "reporting" => request'[s] = request[s]
    BY <1>0, <1>5, NoReportMoves DEF SaveJob
  <2>2. UNCHANGED work /\ excused' = excused \cup {request[r].at}
        /\ job' = Saved(request[r].copy, request[r].at)
    BY <1>5 DEF SaveJob
  <2>3. \A k \in Jobs : k # request[r].at => job'[k] = job[k]
    BY <1>0, <2>2 DEF Saved
  <2> QED
    BY <2>1, <2>2, <2>3, WorkedKept
<1>6. ASSUME NEW r \in Requests, SaveConfirmed(r) \/ ReleaseJob(r) PROVE Worked'
  <2>1. \A s \in Callers : request'[s].doing = "reporting" => request'[s] = request[s]
    BY <1>0, <1>6, NoReportMoves DEF SaveConfirmed, ReleaseJob
  <2>2. UNCHANGED <<work, excused>>
    BY <1>6 DEF SaveConfirmed, ReleaseJob
  <2>3. \A j \in Jobs : /\ job'[j].exists = job[j].exists
                        /\ job'[j].status \in {job[j].status, "waiting_for_engine"}
    BY <1>6, ConfirmTables
  <2> QED
    BY <2>1, <2>2, <2>3, WorkedKept
<1>7. ASSUME (\E j \in Jobs : DeleteJob(j)) \/ (\E e \in Engines : DeleteEngine(e))
      PROVE  Worked'
  <2>1. UNCHANGED <<work, excused, request>>
    BY <1>7 DEF DeleteJob, DeleteEngine, DeleteEngineRow
  <2>2. \A j \in Jobs : job'[j].exists => job'[j] = job[j]
    BY <1>0, <1>7, DeleteTables
  <2> QED
    BY <2>1, <2>2, WorkedKept
<1>8. ASSUME NEW e \in Engines, EngineStarts(e) PROVE Worked'
  BY <1>8, WorkedKept DEF EngineStarts, jobVars
<1>9. CASE UNCHANGED vars
  BY <1>9, WorkedKept DEF vars, jobVars
<1> QED
  BY <1>1, <1>2, <1>3, <1>4, <1>5, <1>6, <1>7, <1>8, <1>9,
     HeartbeatWorked, StopWorked, ReportWorked, UpdateWorked DEF Next

LEMMA SpliceInvariance == Spec => [](Tables /\ OneOwner /\ Worked)
<1>1. Init => OneOwner /\ Worked
  <2> SUFFICES ASSUME Init PROVE OneOwner /\ Worked
    OBVIOUS
  <2>1. /\ \A j \in Jobs : ~job[j].exists
        /\ \A e \in Engines : work[e].job \notin Jobs
        /\ \A r \in Callers : request[r].doing = "idle"
    BY JobRowTypes, NoWorkType, IdleCall DEF Init, Callers
  <2>2. OneOwner
    BY <2>1 DEF OneOwner, Owns
  <2>3. Worked
    BY <2>1 DEF Worked, ReportsMatch, Reports, ProcessingHasWorker
  <2> QED
    BY <2>2, <2>3
<1> QED
  BY <1>1, TablesInit, TablesStep, OneOwnerStep, WorkedStep, PTL DEF Spec

\* A job has one engine for as long as anything remembers it: its row, a copy of the
\* row that a request will write back, or the engine's program.
THEOREM JobHasOneEngine == Spec => []OneOwner
BY SpliceInvariance, PTL

\* That engine stays the job's for good: no heartbeat, report, older copy that is written
\* back, deletion or registration gives a job that was submitted to another engine.
THEOREM JobKeepsItsEngine == Spec => [][OwnersStay]_vars
<1>1. Tables /\ OneOwner /\ [Next]_vars => [OwnersStay]_vars
  BY OneOwnerStep
<1> QED
  BY <1>1, SpliceInvariance, PTL DEF Spec

\* A job is shown as processing only while an engine works on it, unless that engine was
\* stopped over it or a user's PATCH wrote its status.
THEOREM ProcessingWorked == Spec => []ProcessingHasWorker
BY SpliceInvariance, PTL DEF Worked
=============================================================================
