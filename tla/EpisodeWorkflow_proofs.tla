----------------------- MODULE EpisodeWorkflow_proofs -----------------------
(***************************************************************************)
(* Proofs about the episode workflow, for any number of requests in        *)
(* flight, any checklist, any bound on tokens and any patched statuses.    *)
(*                                                                         *)
(* A save is judged by the copy it writes, so the invariants say what is   *)
(* known of the copies: Decision of the transition that was found valid on *)
(* one, Grounded that a copy holds a status the row has had.               *)
(***************************************************************************)
EXTENDS EpisodeWorkflow, TLAPS

\* A transition on its way was in the table for its copy, and a host asked
\* for it if it is an approval.
Decision ==
    \A r \in Requests : request[r].doing \in {"transition", "gated"} =>
        /\ request[r].target \in TRANSITIONS[request[r].copy.status]
        /\ request[r].target \in REQUIRES_CHECKLIST =>
             host_acted \/ request[r].copy.status \in REQUIRES_CHECKLIST

\* The gate lets nothing through before the checklist has been complete.
Gate ==
    /\ done = Items => ever_complete
    /\ \A r \in Requests :
         request[r].doing = "gated" /\ request[r].target \in REQUIRES_CHECKLIST => ever_complete

\* Approval lies behind a host and a complete checklist.
Cleared == \A s \in reached \cap REQUIRES_CHECKLIST : host_acted /\ ever_complete

\* Until a PATCH, the row and every copy of it hold statuses that it has had.
Grounded ==
    ~patched =>
        /\ episode.status \in reached
        /\ \A r \in Requests : request[r].doing # "idle" => request[r].copy.status \in reached

Inv == TypeOK /\ Decision
HistoryInv == Inv /\ Gate /\ Cleared /\ Grounded

----------------------------------------------------------------------------
\* The table's targets are statuses.
LEMMA TransitionsType ==
    ASSUME NEW s \in EpisodeStatus PROVE TRANSITIONS[s] \subseteq EpisodeStatus
BY DEF TRANSITIONS, EpisodeStatus

LEMMA BlankType == Blank \in EpisodeRows
BY MaxTokensAssumption DEF Blank, EpisodeRows, EpisodeStatus

Pending == [doing : Doing, copy : EpisodeRows, target : EpisodeStatus]

LEMMA IdleType == Idle \in Pending
BY BlankType DEF Idle, Pending, Doing, EpisodeStatus

LEMMA InitType == Init => TypeOK
<1> SUFFICES ASSUME Init PROVE TypeOK
  OBVIOUS
<1>1. host_acted \in BOOLEAN /\ ever_complete \in BOOLEAN /\ patched \in BOOLEAN
  BY DEF Init
<1>2. episode \in EpisodeRows /\ issued \in 0..MaxTokens
  BY BlankType, MaxTokensAssumption DEF Init
<1>3. request \in [Requests -> Pending]
  BY IdleType DEF Init
<1>4. done \subseteq Items /\ reached \subseteq EpisodeStatus
  BY DEF Init, EpisodeStatus
<1> QED
  BY <1>1, <1>2, <1>3, <1>4 DEF TypeOK, Pending

\* What a loading request does to the variables.
LEMMA LoadType ==
    ASSUME TypeOK, NEW r \in Requests, NEW what \in Doing, NEW target \in EpisodeStatus,
           Load(r, what, target), host_acted' \in BOOLEAN
    PROVE  TypeOK'
BY DEF Load, TypeOK

LEMMA BeginType ==
    ASSUME TypeOK, NEW r \in Requests, NEW role \in Roles, Begin(r, role)
    PROVE  TypeOK'
<1>1. ASSUME NEW s \in EpisodeStatus, EpisodeStatusView(r, role, s) PROVE TypeOK'
  <2>1. "transition" \in Doing /\ host_acted' \in BOOLEAN
    BY <1>1 DEF EpisodeStatusView, Doing
  <2> QED
    BY <1>1, <2>1, LoadType DEF EpisodeStatusView
<1>2. ASSUME NEW s \in PatchedTo, EpisodeDetailAPI(r, role, s) PROVE TypeOK'
  <2>1. "patch" \in Doing /\ s \in EpisodeStatus /\ host_acted' \in BOOLEAN
    BY <1>2, PatchedToAssumption DEF EpisodeDetailAPI, Doing, TypeOK
  <2> QED
    BY <1>2, <2>1, LoadType DEF EpisodeDetailAPI
<1>3. ASSUME EpisodePublishView(r, role) \/ EpisodeUpdateView(r, role)
             \/ save_notes(r, role) \/ regenerate_overlay_token(r, role)
      PROVE  TypeOK'
  <2>1. /\ {"transition", "edit", "save", "regenerate"} \subseteq Doing
        /\ {"published", "draft"} \subseteq EpisodeStatus
        /\ host_acted' \in BOOLEAN
    BY <1>3 DEF EpisodePublishView, EpisodeUpdateView, save_notes, regenerate_overlay_token,
                Doing, EpisodeStatus, TypeOK
  <2> QED
    BY <1>3, <2>1, LoadType DEF EpisodePublishView, EpisodeUpdateView, save_notes,
                                regenerate_overlay_token
<1> QED
  BY <1>1, <1>2, <1>3 DEF Begin

\* Every step keeps every variable in its type.
LEMMA TypeStep == TypeOK /\ [Next]_vars => TypeOK'
<1> SUFFICES ASSUME TypeOK, [Next]_vars PROVE TypeOK'
  OBVIOUS
<1>1. ASSUME NEW r \in Requests, NEW role \in Roles, Begin(r, role) PROVE TypeOK'
  BY <1>1, BeginType
<1>2. ASSUME NEW r \in Requests, CheckGate(r) PROVE TypeOK'
  BY <1>2, IdleType DEF CheckGate, Finish, TypeOK, Pending, Doing
<1>3. ASSUME NEW r \in Requests, NEW copy \in EpisodeRows,
             FullSave(copy), patched' \in BOOLEAN, request' \in [Requests -> Pending]
      PROVE  TypeOK'
  BY <1>3 DEF FullSave, TypeOK, Pending, EpisodeRows
<1>4. ASSUME NEW r \in Requests, SaveTransition(r) \/ SavePatch(r) PROVE TypeOK'
  <2>1. [request[r].copy EXCEPT !.status = request[r].target] \in EpisodeRows
    BY DEF TypeOK, EpisodeRows
  <2>2. patched' \in BOOLEAN /\ request' \in [Requests -> Pending]
    BY <1>4, IdleType DEF SaveTransition, SavePatch, Finish, TypeOK, Pending
  <2> QED
    BY <1>3, <1>4, <2>1, <2>2 DEF SaveTransition, SavePatch
<1>5. ASSUME NEW r \in Requests, SaveEdit(r) \/ SavePlain(r) PROVE TypeOK'
  <2>1. request[r].copy \in EpisodeRows
    BY DEF TypeOK
  <2>2. patched' \in BOOLEAN /\ request' \in [Requests -> Pending]
    BY <1>5, IdleType DEF SaveEdit, SavePlain, Finish, TypeOK, Pending, Doing
  <2> QED
    BY <1>3, <1>5, <2>1, <2>2 DEF SaveEdit, SavePlain
<1>6. ASSUME NEW r \in Requests, SaveToken(r) PROVE TypeOK'
  BY <1>6, IdleType, MaxTokensAssumption DEF SaveToken, Finish, TypeOK, Pending, EpisodeRows
<1>7. ASSUME NEW i \in Items, ChecklistToggleView(i) PROVE TypeOK'
  BY <1>7 DEF ChecklistToggleView, TypeOK
<1>8. ASSUME UNCHANGED vars PROVE TypeOK'
  BY <1>8 DEF vars, TypeOK
<1> QED
  BY <1>1, <1>2, <1>4, <1>5, <1>6, <1>7, <1>8 DEF Next

\* The row, the copies and the history variables stay within their types.
THEOREM WorkflowTypeCorrect == Spec => []TypeOK
BY InitType, TypeStep, PTL DEF Spec

----------------------------------------------------------------------------
(* Decision: a transition on its way was a valid one for its copy.         *)

\* In a state reached by an action that may be the first of a request.
LEMMA LoadDecision ==
    ASSUME Inv, NEW r \in Requests, NEW what \in Doing, NEW target \in EpisodeStatus,
           Load(r, what, target), host_acted => host_acted',
           what \in {"transition", "gated"} =>
             /\ target \in TRANSITIONS[episode.status]
             /\ target \in REQUIRES_CHECKLIST =>
                  host_acted' \/ episode.status \in REQUIRES_CHECKLIST
    PROVE  Decision'
<1>1. /\ request'[r].doing = what
      /\ request'[r].copy = episode
      /\ request'[r].target = target
      /\ \A q \in Requests \ {r} : request'[q] = request[q]
  BY DEF Load, Inv, TypeOK
<1> QED
  BY <1>1 DEF Inv, Decision

LEMMA BeginDecision ==
    ASSUME Inv, NEW r \in Requests, NEW role \in Roles, Begin(r, role)
    PROVE  Decision'
<1>1. ASSUME NEW s \in EpisodeStatus, EpisodeStatusView(r, role, s) PROVE Decision'
  <2>1. "transition" \in Doing /\ (host_acted => host_acted')
    BY <1>1 DEF EpisodeStatusView, Doing
  <2>2. s \in TRANSITIONS[episode.status]
    BY <1>1 DEF EpisodeStatusView, can_transition_status, can_transition_to
  <2>3. s \in REQUIRES_CHECKLIST => host_acted'
    BY <1>1 DEF EpisodeStatusView, can_transition_status, REQUIRES_CHECKLIST
  <2> QED
    BY <1>1, <2>1, <2>2, <2>3, LoadDecision DEF EpisodeStatusView
<1>2. ASSUME EpisodePublishView(r, role) PROVE Decision'
  <2>1. /\ "published" \in TRANSITIONS["approved"]
        /\ "approved" \in REQUIRES_CHECKLIST
        /\ "published" \in EpisodeStatus
        /\ "transition" \in Doing
    BY DEF TRANSITIONS, REQUIRES_CHECKLIST, EpisodeStatus, Doing
  <2> QED
    BY <1>2, <2>1, LoadDecision DEF EpisodePublishView
<1>3. ASSUME NEW s \in PatchedTo, EpisodeDetailAPI(r, role, s) PROVE Decision'
  <2>1. "patch" \in Doing /\ s \in EpisodeStatus
    BY PatchedToAssumption DEF Doing
  <2> QED
    BY <1>3, <2>1, LoadDecision DEF EpisodeDetailAPI
<1>4. ASSUME EpisodeUpdateView(r, role) \/ save_notes(r, role)
             \/ regenerate_overlay_token(r, role)
      PROVE  Decision'
  <2>1. {"edit", "save", "regenerate"} \subseteq Doing /\ "draft" \in EpisodeStatus
    BY DEF Doing, EpisodeStatus
  <2> QED
    BY <1>4, <2>1, LoadDecision DEF EpisodeUpdateView, save_notes, regenerate_overlay_token
<1> QED
  BY <1>1, <1>2, <1>3, <1>4 DEF Begin

\* The steps after the first leave copy and target of a request alone, or
\* forget them.
Advanced ==
    /\ host_acted' = host_acted
    /\ \A q \in Requests :
         \/ request'[q] = request[q]
         \/ request'[q].doing \notin {"transition", "gated"}
         \/ /\ request[q].doing = "transition"
            /\ request'[q].doing = "gated"
            /\ request'[q].copy = request[q].copy
            /\ request'[q].target = request[q].target
            /\ request[q].target \in REQUIRES_CHECKLIST => is_checklist_complete

LEMMA LaterSteps ==
    ASSUME TypeOK, NEW r \in Requests,
           \/ CheckGate(r) \/ SaveTransition(r) \/ SaveEdit(r)
           \/ SavePlain(r) \/ SavePatch(r) \/ SaveToken(r)
    PROVE  Advanced
<1>0. Idle.doing \notin {"transition", "gated"}
  BY DEF Idle
<1>1. CASE CheckGate(r)
  BY <1>0, <1>1 DEF CheckGate, Finish, Advanced, TypeOK
<1>2. CASE SaveTransition(r) \/ SavePlain(r) \/ SavePatch(r)
  BY <1>0, <1>2 DEF SaveTransition, SavePlain, SavePatch, FullSave, Finish, Advanced, TypeOK
<1>3. CASE SaveEdit(r)
  BY <1>0, <1>3 DEF SaveEdit, FullSave, Advanced, TypeOK
<1>4. CASE SaveToken(r)
  BY <1>0, <1>4 DEF SaveToken, Finish, Advanced, TypeOK
<1> QED
  BY <1>1, <1>2, <1>3, <1>4

LEMMA InvStep == Inv /\ [Next]_vars => Inv'
<1> SUFFICES ASSUME Inv, [Next]_vars PROVE Decision'
  BY TypeStep DEF Inv
<1>1. ASSUME NEW r \in Requests, NEW role \in Roles, Begin(r, role) PROVE Decision'
  BY <1>1, BeginDecision
<1>2. ASSUME Advanced PROVE Decision'
  BY <1>2 DEF Advanced, Inv, Decision
<1>3. ASSUME UNCHANGED vars \/ \E i \in Items : ChecklistToggleView(i) PROVE Decision'
  BY <1>3 DEF vars, ChecklistToggleView, Inv, Decision
<1> QED
  BY <1>1, <1>2, <1>3, LaterSteps DEF Next, Inv

LEMMA InitInv == Init => Inv
<1> SUFFICES ASSUME Init PROVE Decision
  BY InitType DEF Inv
<1>1. \A r \in Requests : request[r].doing = "idle"
  BY DEF Init, Idle
<1> QED
  BY <1>1 DEF Decision

LEMMA Invariance == Spec => []Inv
BY InitInv, InvStep, PTL DEF Spec

----------------------------------------------------------------------------
\* Only a save changes the status, and it writes what its request holds.
LEMMA OnlySavesMove ==
    ASSUME Inv, [Next]_vars, episode'.status # episode.status
    PROVE  \E r \in Requests :
              /\ request'[r] # request[r]
              /\ \/ request[r].doing = "patch"
                 \/ episode'.status \in TRANSITIONS[request[r].copy.status]
                 \/ episode'.status = request[r].copy.status
<1>0. TypeOK /\ Decision /\ Idle.doing = "idle"
  BY DEF Inv, Idle
<1>1. ASSUME NEW r \in Requests, SaveTransition(r)
      PROVE  /\ request'[r] # request[r]
             /\ episode'.status \in TRANSITIONS[request[r].copy.status]
  BY <1>0, <1>1 DEF SaveTransition, FullSave, Finish, TypeOK, Decision, EpisodeRows
<1>2. ASSUME NEW r \in Requests, SaveEdit(r) \/ SavePlain(r)
      PROVE  /\ request'[r] # request[r]
             /\ episode'.status = request[r].copy.status
  BY <1>0, <1>2 DEF SaveEdit, SavePlain, FullSave, Finish, TypeOK
<1>3. ASSUME NEW r \in Requests, SavePatch(r)
      PROVE  request'[r] # request[r] /\ request[r].doing = "patch"
  BY <1>0, <1>3 DEF SavePatch, Finish, TypeOK
<1>4. ASSUME NEW r \in Requests, SaveToken(r) PROVE FALSE
  BY <1>0, <1>4 DEF SaveToken, TypeOK, EpisodeRows
<1>5. ASSUME NEW r \in Requests, CheckGate(r) \/ \E role \in Roles : Begin(r, role)
      PROVE  FALSE
  BY <1>5 DEF CheckGate, Begin, EpisodeStatusView, EpisodeDetailAPI, EpisodePublishView,
              EpisodeUpdateView, save_notes, regenerate_overlay_token, Load
<1>6. ASSUME UNCHANGED vars \/ \E i \in Items : ChecklistToggleView(i) PROVE FALSE
  BY <1>6 DEF vars, ChecklistToggleView
<1> QED
  BY <1>1, <1>2, <1>3, <1>4, <1>5, <1>6 DEF Next

\* Apart from a PATCH, a status leaves the transition table only by the save
\* of a copy that is out of date.
THEOREM JumpsAreLostUpdates == Spec => JumpNeedsStaleCopy
<1>1. Inv /\ [Next]_vars =>
        [episode'.status \notin TRANSITIONS[episode.status] \cup {episode.status} =>
           \E r \in Requests : /\ request'[r] # request[r]
                               /\ \/ request[r].doing = "patch"
                                  \/ request[r].copy.status # episode.status]_vars
  BY OnlySavesMove
<1> QED
  BY <1>1, Invariance, PTL DEF Spec, JumpNeedsStaleCopy

----------------------------------------------------------------------------
(* The history: what a save may write, and what it takes to be approved.   *)

\* The neighbours in the table are the neighbours in the chain.
LEMMA TableFollowsChain ==
    ASSUME NEW s \in EpisodeStatus, NEW n \in TRANSITIONS[s]
    PROVE  n \in DOMAIN History!Rank /\ History!Adjacent(n, s)
<1>1. CASE s = "draft"       BY <1>1 DEF TRANSITIONS, History!Rank, History!Adjacent
<1>2. CASE s = "planned"     BY <1>2 DEF TRANSITIONS, History!Rank, History!Adjacent
<1>3. CASE s = "scheduled"   BY <1>3 DEF TRANSITIONS, History!Rank, History!Adjacent
<1>4. CASE s = "recorded"    BY <1>4 DEF TRANSITIONS, History!Rank, History!Adjacent
<1>5. CASE s = "ingested"    BY <1>5 DEF TRANSITIONS, History!Rank, History!Adjacent
<1>6. CASE s = "transcribed" BY <1>6 DEF TRANSITIONS, History!Rank, History!Adjacent
<1>7. CASE s = "edited"      BY <1>7 DEF TRANSITIONS, History!Rank, History!Adjacent
<1>8. CASE s = "approved"    BY <1>8 DEF TRANSITIONS, History!Rank, History!Adjacent
<1>9. CASE s = "published"   BY <1>9 DEF TRANSITIONS, History!Rank, History!Adjacent
<1> QED
  BY <1>1, <1>2, <1>3, <1>4, <1>5, <1>6, <1>7, <1>8, <1>9 DEF EpisodeStatus

LEMMA RankedStatuses == DOMAIN History!Rank = EpisodeStatus
BY DEF History!Rank, EpisodeStatus

\* What was done once stays done.
LEMMA HistoryGrows ==
    ASSUME TypeOK, [Next]_vars
    PROVE  /\ host_acted => host_acted'
           /\ ever_complete => ever_complete'
           /\ patched => patched'
<1>1. ASSUME NEW r \in Requests, NEW role \in Roles, Begin(r, role)
      PROVE  /\ host_acted => host_acted'
             /\ UNCHANGED <<ever_complete, patched, reached>>
  <2>1. UNCHANGED <<ever_complete, patched, reached>>
    BY <1>1 DEF Begin, EpisodeStatusView, EpisodeDetailAPI, EpisodePublishView,
                EpisodeUpdateView, save_notes, regenerate_overlay_token, Load
  <2>2. CASE \E s \in EpisodeStatus : EpisodeStatusView(r, role, s)
    BY <2>1, <2>2 DEF EpisodeStatusView
  <2>3. CASE UNCHANGED host_acted
    BY <2>1, <2>3
  <2> QED
    BY <1>1, <2>2, <2>3 DEF Begin, EpisodeDetailAPI, EpisodePublishView,
                            EpisodeUpdateView, save_notes, regenerate_overlay_token
<1>2. ASSUME NEW r \in Requests, CheckGate(r) \/ SaveToken(r)
      PROVE  UNCHANGED <<host_acted, ever_complete, patched, reached>>
  BY <1>2 DEF CheckGate, SaveToken
<1>3. ASSUME NEW r \in Requests,
             SaveTransition(r) \/ SaveEdit(r) \/ SavePlain(r) \/ SavePatch(r)
      PROVE  /\ UNCHANGED <<host_acted, ever_complete>>
             /\ patched => patched'
  BY <1>3 DEF SaveTransition, SaveEdit, SavePlain, SavePatch, FullSave
<1>4. ASSUME NEW i \in Items, ChecklistToggleView(i)
      PROVE  /\ UNCHANGED <<host_acted, patched, reached>>
             /\ ever_complete => ever_complete'
  BY <1>4 DEF ChecklistToggleView
<1>5. ASSUME UNCHANGED vars PROVE UNCHANGED <<host_acted, ever_complete, patched, reached>>
  BY <1>5 DEF vars
<1> QED
  BY <1>1, <1>2, <1>3, <1>4, <1>5 DEF Next

\* A save of a request's copy, with the status it writes.
Writes(r, s) ==
    /\ request[r].doing \in {"gated", "edit", "save"}
    /\ IF request[r].doing = "gated" THEN s = request[r].target ELSE s = request[r].copy.status
    /\ episode'.status = s
    /\ patched' = patched
    /\ reached' = IF patched THEN {} ELSE reached \cup {s}
    /\ UNCHANGED <<done, host_acted, ever_complete>>
    /\ request'[r].doing \in {"idle", "save"}
    /\ request'[r].doing = "save" => request'[r].copy = request[r].copy
    /\ \A q \in Requests \ {r} : request'[q] = request[q]

LEMMA SavesWrite ==
    ASSUME TypeOK, NEW r \in Requests, SaveTransition(r) \/ SaveEdit(r) \/ SavePlain(r)
    PROVE  \E s \in EpisodeStatus : Writes(r, s)
<1>0. Idle.doing = "idle"
  BY DEF Idle
<1>1. CASE SaveTransition(r)
  <2>1. request[r].target \in EpisodeStatus
    BY DEF TypeOK
  <2>2. Writes(r, request[r].target)
    BY <1>0, <1>1 DEF SaveTransition, FullSave, Finish, TypeOK, EpisodeRows, Writes
  <2> QED
    BY <2>1, <2>2
<1>2. CASE SaveEdit(r)
  <2>1. request[r].copy.status \in EpisodeStatus
    BY DEF TypeOK, EpisodeRows
  <2>2. Writes(r, request[r].copy.status)
    BY <1>2 DEF SaveEdit, FullSave, TypeOK, Writes
  <2> QED
    BY <2>1, <2>2
<1>3. CASE SavePlain(r)
  <2>1. request[r].copy.status \in EpisodeStatus
    BY DEF TypeOK, EpisodeRows
  <2>2. Writes(r, request[r].copy.status)
    BY <1>0, <1>3 DEF SavePlain, FullSave, Finish, TypeOK, Writes
  <2> QED
    BY <2>1, <2>2
<1> QED
  BY <1>1, <1>2, <1>3

\* Nothing is written before its neighbour, and no approval before a host and
\* a complete checklist.
LEMMA WriteAllowed ==
    ASSUME HistoryInv, ~patched, NEW r \in Requests, NEW s \in EpisodeStatus, Writes(r, s)
    PROVE  /\ s \in reached \/ \E n \in reached : History!Adjacent(s, n)
           /\ s \in REQUIRES_CHECKLIST => host_acted /\ ever_complete
<1>0. /\ TypeOK /\ Decision /\ Gate /\ Cleared
      /\ request[r].copy.status \in reached
      /\ request[r].copy.status \in EpisodeStatus
  BY DEF HistoryInv, Inv, Grounded, Writes, TypeOK, EpisodeRows
<1>1. CASE request[r].doing = "gated"
  <2>1. s = request[r].target /\ s \in TRANSITIONS[request[r].copy.status]
    BY <1>0, <1>1 DEF Writes, Decision
  <2>2. History!Adjacent(s, request[r].copy.status)
    BY <1>0, <2>1, TableFollowsChain
  <2>3. s \in REQUIRES_CHECKLIST => host_acted /\ ever_complete
    BY <1>0, <1>1, <2>1 DEF Decision, Gate, Cleared
  <2> QED
    BY <1>0, <2>2, <2>3
<1>2. CASE request[r].doing # "gated"
  <2>1. s = request[r].copy.status
    BY <1>2 DEF Writes
  <2> QED
    BY <1>0, <2>1 DEF Cleared
<1> QED
  BY <1>1, <1>2

----------------------------------------------------------------------------
LEMMA InitHistory == Init => HistoryInv
<1> SUFFICES ASSUME Init PROVE Gate /\ Cleared /\ Grounded
  BY InitInv DEF HistoryInv
<1>1. \A r \in Requests : request[r].doing = "idle"
  BY DEF Init, Idle
<1>2. Gate
  BY <1>1 DEF Init, Gate
<1>3. Cleared
  BY DEF Init, Cleared, REQUIRES_CHECKLIST
<1>4. Grounded
  BY <1>1 DEF Init, Blank, Grounded
<1> QED
  BY <1>2, <1>3, <1>4

LEMMA BeginHistory ==
    ASSUME HistoryInv, NEW r \in Requests, NEW role \in Roles, Begin(r, role),
           host_acted => host_acted'
    PROVE  Gate' /\ Cleared' /\ Grounded'
<1>0. TypeOK /\ Gate /\ Cleared /\ Grounded
  BY DEF HistoryInv, Inv
<1>1. PICK what, target : Load(r, what, target) /\ what # "gated"
  BY DEF Begin, EpisodeStatusView, EpisodeDetailAPI, EpisodePublishView,
         EpisodeUpdateView, save_notes, regenerate_overlay_token
<1>2. /\ request'[r].doing # "gated"
      /\ request'[r].copy = episode
      /\ \A q \in Requests \ {r} : request'[q] = request[q]
      /\ UNCHANGED <<episode, done, reached, ever_complete, patched>>
  BY <1>0, <1>1 DEF Load, TypeOK
<1>3. Gate'
  BY <1>0, <1>2 DEF Gate
<1>4. Cleared'
  BY <1>0, <1>2 DEF Cleared
<1>5. Grounded'
  BY <1>0, <1>2 DEF Grounded
<1> QED
  BY <1>3, <1>4, <1>5

LEMMA WriteHistory ==
    ASSUME HistoryInv, NEW r \in Requests, NEW s \in EpisodeStatus, Writes(r, s)
    PROVE  Gate' /\ Cleared' /\ Grounded'
<1>0. Gate /\ Cleared /\ Grounded
  BY DEF HistoryInv
<1>1. Gate'
  BY <1>0 DEF Gate, Writes
<1>2. Cleared'
  <2>1. CASE patched
    BY <1>0, <2>1 DEF Cleared, Writes
  <2>2. CASE ~patched
    BY <1>0, <2>2, WriteAllowed DEF Cleared, Writes
  <2> QED
    BY <2>1, <2>2
<1>3. Grounded'
  BY <1>0 DEF Grounded, Writes
<1> QED
  BY <1>1, <1>2, <1>3

LEMMA HistoryStep == HistoryInv /\ [Next]_vars => HistoryInv'
<1> SUFFICES ASSUME HistoryInv, [Next]_vars PROVE Gate' /\ Cleared' /\ Grounded'
  BY InvStep DEF HistoryInv
<1>0. TypeOK /\ Gate /\ Cleared /\ Grounded /\ Idle.doing = "idle"
  BY DEF HistoryInv, Inv, Idle
<1>1. ASSUME NEW r \in Requests, NEW role \in Roles, Begin(r, role)
      PROVE  Gate' /\ Cleared' /\ Grounded'
  BY <1>0, <1>1, HistoryGrows, BeginHistory
<1>2. ASSUME NEW r \in Requests, CheckGate(r) PROVE Gate' /\ Cleared' /\ Grounded'
  <2>1. UNCHANGED <<episode, done, reached, host_acted, ever_complete, patched>>
    BY <1>2 DEF CheckGate
  <2>2. /\ \A q \in Requests \ {r} : request'[q] = request[q]
        /\ request[r].doing = "transition"
        /\ \/ request'[r].doing = "idle"
           \/ /\ request'[r].copy = request[r].copy
              /\ request'[r].target = request[r].target
              /\ request[r].target \in REQUIRES_CHECKLIST => done = Items
    BY <1>0, <1>2 DEF CheckGate, Finish, TypeOK, is_checklist_complete
  <2>3. Gate'
    BY <1>0, <2>1, <2>2 DEF Gate
  <2>4. Cleared' /\ Grounded'
    BY <1>0, <2>1, <2>2 DEF Cleared, Grounded
  <2> QED
    BY <2>3, <2>4
<1>3. ASSUME NEW r \in Requests, SaveTransition(r) \/ SaveEdit(r) \/ SavePlain(r)
      PROVE  Gate' /\ Cleared' /\ Grounded'
  BY <1>0, <1>3, SavesWrite, WriteHistory
<1>4. ASSUME NEW r \in Requests, SavePatch(r) \/ SaveToken(r)
      PROVE  Gate' /\ Cleared' /\ Grounded'
  <2>1. /\ request'[r].doing = "idle"
        /\ \A q \in Requests \ {r} : request'[q] = request[q]
        /\ UNCHANGED <<done, host_acted, ever_complete>>
        /\ reached' \in {reached, {}}
    BY <1>0, <1>4 DEF SavePatch, SaveToken, FullSave, Finish, TypeOK
  <2>2. patched' \/ (UNCHANGED <<episode.status, patched, reached>>)
    BY <1>0, <1>4 DEF SavePatch, SaveToken, TypeOK, EpisodeRows
  <2>3. Gate'
    BY <1>0, <2>1 DEF Gate
  <2>4. Cleared' /\ Grounded'
    BY <1>0, <2>1, <2>2 DEF Cleared, Grounded
  <2> QED
    BY <2>3, <2>4
<1>5. ASSUME NEW i \in Items, ChecklistToggleView(i) PROVE Gate' /\ Cleared' /\ Grounded'
  <2>1. /\ UNCHANGED <<episode, request, reached, host_acted, patched>>
        /\ ever_complete => ever_complete'
        /\ done' = Items => ever_complete'
    BY <1>5 DEF ChecklistToggleView
  <2> QED
    BY <1>0, <2>1 DEF Gate, Cleared, Grounded
<1>6. ASSUME UNCHANGED vars PROVE Gate' /\ Cleared' /\ Grounded'
  BY <1>0, <1>6 DEF vars, Gate, Cleared, Grounded
<1> QED
  BY <1>1, <1>2, <1>3, <1>4, <1>5, <1>6 DEF Next

\* What WorkflowHistory sees of a state.
Seen == <<episode.status, reached, host_acted /\ ever_complete, patched>>

\* Overlapping requests keep the promise of WorkflowHistory: each of their
\* steps is one of its steps or leaves what it sees alone.
THEOREM HistoryImplemented == Spec => ImplementsHistory
<1>1. Init => History!Init
  BY DEF Init, Blank, History!Init
<1>2. HistoryInv /\ [Next]_vars => [History!Next]_Seen
  <2> SUFFICES ASSUME HistoryInv, [Next]_vars PROVE [History!Next]_Seen
    OBVIOUS
  <2>0. TypeOK
    BY DEF HistoryInv, Inv
  <2>1. ASSUME UNCHANGED <<episode.status, reached, patched>> PROVE [History!Next]_Seen
    <3>1. (host_acted /\ ever_complete) => (host_acted' /\ ever_complete')
      BY <2>0, HistoryGrows
    <3>2. CASE (host_acted' /\ ever_complete') /\ ~(host_acted /\ ever_complete)
      <4>1. History!Clear
        BY <2>1, <3>2 DEF History!Clear
      <4> QED
        BY <4>1 DEF History!Next
    <3>3. CASE (host_acted' /\ ever_complete') = (host_acted /\ ever_complete)
      BY <2>1, <3>3 DEF Seen
    <3> QED
      BY <3>1, <3>2, <3>3
  <2>2. ASSUME NEW r \in Requests, NEW s \in EpisodeStatus, Writes(r, s)
        PROVE  History!Next
    <3>1. patched \/ History!Allowed(s)
      BY <2>2, WriteAllowed DEF History!Allowed, REQUIRES_CHECKLIST
    <3>2. History!Move(s)
      BY <2>2, <3>1 DEF Writes, History!Move
    <3> QED
      BY <3>2, RankedStatuses DEF History!Next
  <2>3. ASSUME NEW r \in Requests, SavePatch(r) PROVE History!Next
    <3>1. request[r].target \in EpisodeStatus
      BY <2>0 DEF TypeOK
    <3>2. History!Override(request[r].target)
      BY <2>0, <2>3 DEF SavePatch, FullSave, TypeOK, EpisodeRows, History!Override
    <3> QED
      BY <3>1, <3>2, RankedStatuses DEF History!Next
  <2>4. ASSUME NEW r \in Requests, CheckGate(r) \/ \E role \in Roles : Begin(r, role)
        PROVE  UNCHANGED <<episode.status, reached, patched>>
    BY <2>4 DEF CheckGate, Begin, EpisodeStatusView, EpisodeDetailAPI, EpisodePublishView,
                EpisodeUpdateView, save_notes, regenerate_overlay_token, Load
  <2>5. ASSUME NEW r \in Requests, SaveToken(r)
        PROVE  UNCHANGED <<episode.status, reached, patched>>
    BY <2>0, <2>5 DEF SaveToken, TypeOK, EpisodeRows
  <2>6. ASSUME UNCHANGED vars \/ \E i \in Items : ChecklistToggleView(i)
        PROVE  UNCHANGED <<episode.status, reached, patched>>
    BY <2>6 DEF vars, ChecklistToggleView
  <2>7. ASSUME NEW r \in Requests, SaveTransition(r) \/ SaveEdit(r) \/ SavePlain(r)
        PROVE  History!Next
    BY <2>0, <2>2, <2>7, SavesWrite
  <2> QED
    BY <2>1, <2>3, <2>4, <2>5, <2>6, <2>7 DEF Next
<1>3. Spec => []HistoryInv
  BY InitHistory, HistoryStep, PTL DEF Spec
<1> QED
  BY <1>1, <1>2, <1>3, PTL DEF Spec, ImplementsHistory, History!Spec, Seen
=============================================================================
