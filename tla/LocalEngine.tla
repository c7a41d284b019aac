---------------------------- MODULE LocalEngine ----------------------------
(***************************************************************************)
(* Local engines of splice: programs on the users' machines that register  *)
(* themselves, report by heartbeats and are marked offline when they no    *)
(* longer do.                                                              *)
(*                                                                         *)
(* The generic PATCH of the API loads a row, validates, and writes all of  *)
(* its columns; heartbeat and check_engine_offline write the columns they  *)
(* name, after a read of their own.                                        *)
(***************************************************************************)
EXTENDS FiniteSets, Naturals

CONSTANTS
    Engines,    \* LocalEngineInstallation rows
    Names,      \* engine_name values
    Requests,   \* requests of users and calls of the service that may overlap
    Uplinks,    \* requests of engines that may overlap with them
    MaxTouches, \* bound on the edits and confirmations of users
    None

ASSUME NamesAssumption == Names # {} /\ None \notin Names
ASSUME NoneAssumption == None \notin Engines
ASSUME TouchesAssumption == MaxTouches \in Nat

VARIABLES
    engine,     \* the LocalEngineInstallation table
    agent,      \* whether the engine's program runs on its machine
    request,    \* what each request is doing
    touches     \* how many edits and confirmations users have begun

engineVars == <<engine, agent>>

----------------------------------------------------------------------------
Beats == {"never", "recent", "old"}   \* old: before the timeout of the check

EngineRows == [exists : BOOLEAN, engine_name : Names \cup {None}, is_online : BOOLEAN,
               last_heartbeat : Beats, auto_process_jobs : BOOLEAN]

NoEngine == [exists |-> FALSE, engine_name |-> None, is_online |-> FALSE,
             last_heartbeat |-> "never", auto_process_jobs |-> FALSE]

\* A deleted row is not used for another engine.
Gone == [NoEngine EXCEPT !.engine_name = CHOOSE n \in Names : TRUE]

\* A request names the row it works on, and may hold a copy of it.
Idle == [doing |-> "idle", at |-> None, copy |-> None]

EngineInit ==
    /\ engine = [e \in Engines |-> NoEngine]
    /\ agent = [e \in Engines |-> "down"]

Start(r, what, at, copy) ==
    /\ request[r] = Idle
    /\ request' = [request EXCEPT ![r] = [doing |-> what, at |-> at, copy |-> copy]]

Touch == touches < MaxTouches /\ touches' = touches + 1

Finish(r) == request' = [request EXCEPT ![r] = Idle]

----------------------------------------------------------------------------
(* Registration, heartbeats and the offline check.                         *)

\* The name is looked up ...
register_engine(r, n) ==
    /\ \A e \in Engines : engine[e].exists => engine[e].engine_name # n
    /\ Start(r, "registering", n, None)
    /\ UNCHANGED engineVars

\* ... and then a row is inserted, which the engine's program takes up.
CreateEngine(r, e) ==
    /\ request[r].doing = "registering"
    /\ engine[e] = NoEngine
    /\ engine' = [engine EXCEPT ![e] = [NoEngine EXCEPT !.exists = TRUE, !.engine_name = request[r].at]]
    /\ agent' = [agent EXCEPT ![e] = "up"]
    /\ Finish(r)

Reported(row) == [row EXCEPT !.last_heartbeat = "recent", !.is_online = TRUE]

\* Every call of an engine is authenticated by its key, which writes the row.
authenticate(e) ==
    /\ agent[e] = "up"
    /\ engine[e].exists
    /\ engine' = [engine EXCEPT ![e] = Reported(engine[e])]

\* What the check reads of a row.
HeartbeatOf(e) == [NoEngine EXCEPT !.last_heartbeat = engine[e].last_heartbeat]

\* Defect: the limit is compared the wrong way round.
check_engine_offline_Inverted(r, e) ==
    /\ engine[e].exists
    /\ engine[e].last_heartbeat = "recent"
    /\ Start(r, "checking", e, HeartbeatOf(e))
    /\ UNCHANGED engineVars

\* An engine that never reported is passed over.
check_engine_offline(r, e) ==
    /\ engine[e].exists
    /\ engine[e].last_heartbeat = "old"
    /\ Start(r, "checking", e, HeartbeatOf(e))
    /\ UNCHANGED engineVars

\* save(update_fields=['is_online']) raises when the row is gone.
MarkOffline(r) ==
    /\ request[r].doing = "checking"
    /\ engine' = IF engine[request[r].at].exists
                 THEN [engine EXCEPT ![request[r].at].is_online = FALSE] ELSE engine
    /\ Finish(r)
    /\ UNCHANGED agent

\* Time passes.
GrowOld(e) ==
    /\ engine[e].last_heartbeat = "recent"
    /\ engine' = [engine EXCEPT ![e].last_heartbeat = "old"]
    /\ UNCHANGED <<agent, request>>

\* PATCH or PUT of an engine: name and auto_process_jobs may change.
LoadEngine(r, e, n, auto) ==
    /\ engine[e].exists
    /\ Touch
    /\ Start(r, "patching engine", e,
             [engine[e] EXCEPT !.engine_name = n, !.auto_process_jobs = auto])
    /\ UNCHANGED engineVars

\* All columns are written, a heartbeat that has grown old since among them; a row
\* deleted meanwhile is inserted again.
SaveEngine(r) ==
    /\ request[r].doing = "patching engine"
    /\ \E beat \in {request[r].copy.last_heartbeat, "old"} :
         /\ beat = "old" => request[r].copy.last_heartbeat # "never"
         /\ engine' = [engine EXCEPT ![request[r].at] = [request[r].copy EXCEPT !.last_heartbeat = beat]]
    /\ Finish(r)
    /\ UNCHANGED agent

\* DELETE cascades to the jobs and the sessions.
DeleteEngineRow(e) ==
    /\ engine[e].exists
    /\ engine' = [engine EXCEPT ![e] = Gone]
    /\ UNCHANGED <<agent, request>>

----------------------------------------------------------------------------
\* The steps that do not concern jobs.
EngineStep ==
    \/ \E r \in Requests, e \in Engines, n \in Names, auto \in BOOLEAN :
         LoadEngine(r, e, n, auto)
    \/ /\ \/ \E r \in Requests, n \in Names : register_engine(r, n)
          \/ \E r \in Requests, e \in Engines : CreateEngine(r, e) \/ check_engine_offline(r, e)
          \/ \E r \in Requests : MarkOffline(r) \/ SaveEngine(r)
          \/ \E e \in Engines : GrowOld(e)
       /\ UNCHANGED touches

----------------------------------------------------------------------------
(* Properties.                                                             *)

ReadOldHeartbeat(e) ==
    \E r \in Requests : /\ request[r].at = e
                        /\ request[r].doing = "checking"
                        /\ request[r].copy.last_heartbeat = "old"

ReadOffline(e) ==
    \E r \in Requests : /\ request[r].at = e
                        /\ request[r].doing = "patching engine"
                        /\ ~request[r].copy.is_online

\* An engine goes offline only by a check that read an old heartbeat of it, or by a
\* PATCH that had read the row while it was offline; whatever order the heartbeats,
\* checks and edits come in, one that reports in time and is not edited stays online.
OfflineHasCause ==
    [][\A e \in Engines :
         /\ engine[e].exists
         /\ engine[e].is_online
         /\ engine'[e].exists /\ ~engine'[e].is_online
         => ReadOldHeartbeat(e) \/ ReadOffline(e)]_<<engineVars, request>>
=============================================================================
