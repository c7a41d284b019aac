-------------------------- MODULE EpisodeWorkflow --------------------------
(***************************************************************************)
(* The Episode row and its workflow status, checklist gate and overlay     *)
(* token under overlapping requests.                                       *)
(*                                                                         *)
(* Every handler loads the row into memory, decides on that copy, and      *)
(* saves.  Nothing locks the row or compares versions, each statement is   *)
(* its own transaction, and a save() without update_fields writes every    *)
(* column of the copy back, so an overlapping request can undo a change    *)
(* that it never meant to touch.  Requests run in different threads and    *)
(* processes; the publish tab's one spends an audio upload between load    *)
(* and save.                                                               *)
(***************************************************************************)
EXTENDS Integers

CONSTANTS
    Requests,    \* requests in flight at a time
    Items,       \* the episode's required ChecklistItem rows
    MaxTokens,   \* bound on how often the overlay token is regenerated
    PatchedTo    \* statuses that API clients send in a PATCH

ASSUME MaxTokensAssumption == MaxTokens \in Nat

VARIABLES
    episode,        \* the row: status and overlay_token
    done,           \* required checklist items that are ticked
    request,        \* what each request is doing, with its copy of the row
    issued,         \* the newest overlay token, numbered as issued
    reached,        \* history: every status the row has had; {} after a PATCH
    host_acted,     \* history: an admin or host has asked for a transition
    ever_complete,  \* history: the checklist has been complete
    patched         \* history: an API client has written the status by PATCH

vars == <<episode, done, request, issued, reached, host_acted, ever_complete, patched>>

----------------------------------------------------------------------------
EpisodeStatus == {"draft", "planned", "scheduled", "recorded", "ingested",
                  "transcribed", "edited", "approved", "published"}

TRANSITIONS ==
    [draft       |-> {"planned"},
     planned     |-> {"scheduled", "draft"},
     scheduled   |-> {"recorded", "planned"},
     recorded    |-> {"ingested", "scheduled"},
     ingested    |-> {"transcribed", "recorded"},
     transcribed |-> {"edited", "ingested"},
     edited      |-> {"approved", "transcribed"},
     approved    |-> {"published", "edited"},
     published   |-> {"approved"}]

ASSUME PatchedToAssumption == PatchedTo \subseteq EpisodeStatus

REQUIRES_CHECKLIST == {"approved", "published"}

Roles == {"admin", "host", "producer", "editor", "guest"}

\* required_roles of the edit form, the Control Room and the API's PATCH; also
\* has_minimum_role(PRODUCER) of the publish tab.
Producers == {"admin", "host", "producer"}

EpisodeRows == [status : EpisodeStatus, overlay_token : 0..MaxTokens]

\* "save": one plain save() of the copy is left to do; the edit form does two.
Doing == {"idle", "transition", "gated", "edit", "save", "patch", "regenerate"}

TypeOK ==
    /\ episode \in EpisodeRows
    /\ done \subseteq Items
    /\ request \in [Requests -> [doing : Doing, copy : EpisodeRows, target : EpisodeStatus]]
    /\ issued \in 0..MaxTokens
    /\ reached \subseteq EpisodeStatus
    /\ host_acted \in BOOLEAN
    /\ ever_complete \in BOOLEAN
    /\ patched \in BOOLEAN

Blank == [status |-> "draft", overlay_token |-> 0]
Idle == [doing |-> "idle", copy |-> Blank, target |-> "draft"]

Init ==
    /\ episode = Blank
    /\ done = {}
    /\ request = [r \in Requests |-> Idle]
    /\ issued = 0
    /\ reached = {"draft"}
    /\ host_acted = FALSE
    /\ ever_complete = (Items = {})
    /\ patched = FALSE

----------------------------------------------------------------------------
(* The first step of a request: get_object_or_404 and the role check.      *)

Load(r, what, target) ==
    /\ request[r].doing = "idle"
    /\ request' = [request EXCEPT ![r] = [doing |-> what, copy |-> episode, target |-> target]]
    /\ UNCHANGED <<episode, done, issued, reached, ever_complete, patched>>

can_transition_to(copy, new_status) == new_status \in TRANSITIONS[copy.status]

can_transition_status(role, copy, new_status) ==
    /\ can_transition_to(copy, new_status)
    /\ \/ role \in {"admin", "host"}
       \/ role = "producer" /\ new_status \notin {"approved", "published"}
       \/ role = "editor" /\ new_status \in {"ingested", "transcribed"}

\* Defect: the role is checked, the transition is not.
EpisodeStatusView_AnyTarget(r, role, new_status) ==
    /\ role \in {"admin", "host"} \/ can_transition_status(role, episode, new_status)
    /\ Load(r, "transition", new_status)
    /\ host_acted' = (host_acted \/ role \in {"admin", "host"})

\* The status page and POST /api/episodes/<pk>/status/.  The page also checks
\* the target against an earlier copy, which only refuses more.
EpisodeStatusView(r, role, new_status) ==
    /\ can_transition_status(role, episode, new_status)
    /\ Load(r, "transition", new_status)
    /\ host_acted' = (host_acted \/ role \in {"admin", "host"})

\* The publish tab loads the episode, then uploads and publishes the audio.
\* With any other status in its copy it leaves the episode alone.
EpisodePublishView(r, role) ==
    /\ role \in Producers
    /\ episode.status = "approved"
    /\ Load(r, "transition", "published")
    /\ UNCHANGED host_acted

EpisodeUpdateView(r, role) ==
    /\ role \in Producers
    /\ Load(r, "edit", "draft")
    /\ UNCHANGED host_acted

save_notes(r, role) ==
    /\ role \in Producers
    /\ Load(r, "save", "draft")
    /\ UNCHANGED host_acted

regenerate_overlay_token(r, role) ==
    /\ role \in Producers
    /\ Load(r, "regenerate", "draft")
    /\ UNCHANGED host_acted

\* EpisodeSerializer does not list status as read-only: PATCH and PUT check
\* that it is one of the choices, and nothing else.
EpisodeDetailAPI(r, role, new_status) ==
    /\ role \in Producers
    /\ Load(r, "patch", new_status)
    /\ UNCHANGED host_acted

----------------------------------------------------------------------------
(* transition_to: the transition was found valid on the copy; the gate is  *)
(* a query of its own, and the save writes the whole copy.                 *)

is_checklist_complete == done = Items

Finish(r) == request' = [request EXCEPT ![r] = Idle]

\* Defect: the gate guards PUBLISHED only.
CheckGate_PublishedOnly(r) ==
    /\ request[r].doing = "transition"
    /\ IF request[r].target = "published" => is_checklist_complete
       THEN request' = [request EXCEPT ![r].doing = "gated"]
       ELSE Finish(r)
    /\ UNCHANGED <<episode, done, issued, reached, host_acted, ever_complete, patched>>

\* The publish tab asks twice in a row; the second answer decides.
CheckGate(r) ==
    /\ request[r].doing = "transition"
    /\ IF request[r].target \in REQUIRES_CHECKLIST => is_checklist_complete
       THEN request' = [request EXCEPT ![r].doing = "gated"]
       ELSE Finish(r)
    /\ UNCHANGED <<episode, done, issued, reached, host_acted, ever_complete, patched>>

\* save() without update_fields.
FullSave(copy) ==
    /\ episode' = copy
    /\ reached' = IF patched' THEN {} ELSE reached \cup {copy.status}
    /\ UNCHANGED <<done, issued, host_acted, ever_complete>>

SaveTransition(r) ==
    /\ request[r].doing = "gated"
    /\ UNCHANGED patched
    /\ FullSave([request[r].copy EXCEPT !.status = request[r].target])
    /\ Finish(r)

----------------------------------------------------------------------------
(* The other saves.                                                        *)

\* AuditMixin.form_valid saves the object, then UpdateView saves it again.
SaveEdit(r) ==
    /\ request[r].doing = "edit"
    /\ UNCHANGED patched
    /\ FullSave(request[r].copy)
    /\ request' = [request EXCEPT ![r].doing = "save"]

SavePlain(r) ==
    /\ request[r].doing = "save"
    /\ UNCHANGED patched
    /\ FullSave(request[r].copy)
    /\ Finish(r)

\* Defect: any string is taken for a status.
SavePatch_AnyString(r) ==
    /\ request[r].doing = "patch"
    /\ patched' = TRUE
    /\ FullSave([request[r].copy EXCEPT !.status = "live"])
    /\ Finish(r)

SavePatch(r) ==
    /\ request[r].doing = "patch"
    /\ patched' = TRUE
    /\ FullSave([request[r].copy EXCEPT !.status = request[r].target])
    /\ Finish(r)

\* save(update_fields=['overlay_token', 'updated_at']) of a token that was
\* never issued before.
SaveToken(r) ==
    /\ request[r].doing = "regenerate"
    /\ issued < MaxTokens
    /\ issued' = issued + 1
    /\ episode' = [episode EXCEPT !.overlay_token = issued']
    /\ Finish(r)
    /\ UNCHANGED <<done, reached, host_acted, ever_complete, patched>>

\* Toggling reads the item and then saves it; a toggle that read an old value
\* writes the value the item has by now, so it is no step of its own.
ChecklistToggleView(i) ==
    /\ done' = IF i \in done THEN done \ {i} ELSE done \cup {i}
    /\ ever_complete' = (ever_complete \/ done' = Items)
    /\ UNCHANGED <<episode, request, issued, reached, host_acted, patched>>

----------------------------------------------------------------------------
Begin(r, role) ==
    \/ \E s \in EpisodeStatus : EpisodeStatusView(r, role, s)
    \/ \E s \in PatchedTo : EpisodeDetailAPI(r, role, s)
    \/ EpisodePublishView(r, role) \/ EpisodeUpdateView(r, role)
    \/ save_notes(r, role) \/ regenerate_overlay_token(r, role)

Next ==
    \/ \E r \in Requests, role \in Roles : Begin(r, role)
    \/ \E r \in Requests : \/ CheckGate(r) \/ SaveTransition(r) \/ SaveEdit(r)
                           \/ SavePlain(r) \/ SavePatch(r) \/ SaveToken(r)
    \/ \E i \in Items : ChecklistToggleView(i)

Spec == Init /\ [][Next]_vars

----------------------------------------------------------------------------
(* Properties.                                                             *)

\* Whatever requests overlap, the status keeps the promise of
\* WorkflowHistory: until somebody overrides it by PATCH, an episode is
\* approved or published only after a host acted and its checklist was
\* complete, and no status comes before its neighbour in the chain.
History == INSTANCE WorkflowHistory WITH
             status <- episode.status,
             cleared <- host_acted /\ ever_complete,
             overridden <- patched
ImplementsHistory == History!Spec

\* Apart from a PATCH, the status leaves the TRANSITIONS table only when a
\* request saves a copy whose status is no longer the row's: a lost update,
\* never a wrong decision.
JumpNeedsStaleCopy ==
    [][episode'.status \notin TRANSITIONS[episode.status] \cup {episode.status} =>
         \E r \in Requests : /\ request'[r] # request[r]
                             /\ \/ request[r].doing = "patch"
                                \/ request[r].copy.status # episode.status]_vars

\* The README's pre-publish checklist: "Required gate items before episodes go
\* live".
PublishedWasGated == episode.status = "published" => ever_complete

\* Regenerating the overlay token revokes the old URL: once it is saved, only
\* the newest token opens the overlay.
OnlyNewestToken == episode.overlay_token = issued

=============================================================================
