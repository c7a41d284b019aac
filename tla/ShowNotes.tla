----------------------------- MODULE ShowNotes ------------------------------
(***************************************************************************)
(* The AI artifacts of an episode and the drafts of its show notes.        *)
(*                                                                         *)
(* Every decision and edit loads a row and later writes all of its         *)
(* columns. Generating and using an artifact read first and insert later.  *)
(* An artifact stands for its output_text as well: what the mock provider  *)
(* says to the prompt, the one provider there is, whatever AI_PROVIDER is.  *)
(* Both ways to finalize show notes raise an error past the checklist, so  *)
(* there is no final row.                                                  *)
(***************************************************************************)
EXTENDS Sequences, Integers

CONSTANTS
    Artifacts,  \* AIArtifact rows
    NoteDrafts, \* ShowNoteDraft rows
    NoteCalls,  \* requests that may overlap
    Asked,      \* the types of artifact that are asked for
    Subject,    \* the words the provider looks for that the episode brings into each prompt
    Typed,      \* a text that a user typed
    NoSource    \* a draft of no artifact

VARIABLES
    artifact,  \* the AIArtifact table
    draft,     \* the ShowNoteDraft table
    noteCall,  \* what each request is doing
    ruling,    \* history: what was last decided on each artifact
    disputed   \* history: artifacts of which another request held a copy at that time

notesVars == <<artifact, draft, noteCall, ruling, disputed>>

----------------------------------------------------------------------------
ArtifactType ==
    {"questions", "show_notes", "segment_suggestions", "social_posts", "titles", "chapters",
     "shorts"}

\* To ask for shorts here is an error.
ASSUME AskedTypes == Asked \subseteq ArtifactType \ {"shorts"}

ApprovalStatus == {"pending", "approved", "rejected"}

NoArtifact == [type |-> "questions", status |-> "none"]

\* based_on is history: the ruling on the artifact that a draft was made of.
ADraft(source, text, ruled) ==
    [row |-> "there", source |-> source, markdown |-> text, based_on |-> ruled]

NoDraft == [ADraft(NoSource, Typed, "none") EXCEPT !.row = "none"]

Quiet == [doing |-> "idle"]

NotesInit ==
    /\ artifact = [a \in Artifacts |-> NoArtifact]
    /\ draft = [d \in NoteDrafts |-> NoDraft]
    /\ noteCall = [r \in NoteCalls |-> Quiet]
    /\ ruling = [a \in Artifacts |-> "none"]
    /\ disputed = {}

Known(a) == artifact[a].status # "none"

Begun(r, call) ==
    /\ noteCall[r] = Quiet
    /\ noteCall' = [noteCall EXCEPT ![r] = call]
    /\ UNCHANGED <<artifact, draft, ruling, disputed>>

Ended(r) == noteCall' = [noteCall EXCEPT ![r] = Quiet]

InsertDraft(new) ==
    \E d \in {k \in NoteDrafts : draft[k] = NoDraft} : draft' = [draft EXCEPT ![d] = new]

----------------------------------------------------------------------------
(* Artifacts.                                                              *)

\* Of the words that the provider looks for, those of each prompt.
generate_questions == {"question"}
generate_show_notes == {"show note", "summary"}
generate_social_posts == {"social", "post"}
generate_segment_suggestions == {"title", "question"}
generate_titles == {"title"}
generate_chapters == {"chapter", "title"}

Prompt(type) ==
    CASE type = "questions" -> generate_questions
      [] type = "show_notes" -> generate_show_notes
      [] type = "social_posts" -> generate_social_posts
      [] type = "segment_suggestions" -> generate_segment_suggestions
      [] type = "titles" -> generate_titles
      [] type = "chapters" -> generate_chapters

\* The provider looks for these, in this order, and says what belongs to the first it finds.
KeyWords ==
    << {"question"}, {"show note", "summary"}, {"social", "post"}, {"title"}, {"chapter"} >>

Sayings == <<"questions", "show_notes", "social_posts", "titles", "chapters", "the prompt">>

MockAIProvider(words) ==
    LET found == {i \in DOMAIN KeyWords : KeyWords[i] \cap words # {}} \cup {Len(Sayings)}
    IN  Sayings[CHOOSE i \in found : \A j \in found : i <= j]

output_text(a) == MockAIProvider(Subject \cup Prompt(artifact[a].type))

\* The episode, its guests, segments, clips, transcript or latest draft are read; the
\* provider takes its time.
AIArtifactGenerateAPI(r, type) == Begun(r, [doing |-> "generating", type |-> type])

\* The tab asks in the same words.
EpisodeAIDraftsView(r, type) == AIArtifactGenerateAPI(r, type)

\* The row is inserted as pending, or something has failed.
create_ai_artifact(r) ==
    /\ noteCall[r].doing = "generating"
    /\ \/ \E a \in {b \in Artifacts : ~Known(b)} :
            /\ artifact' = [artifact EXCEPT ![a] = [type |-> noteCall[r].type, status |-> "pending"]]
            /\ ruling' = [ruling EXCEPT ![a] = "pending"]
       \/ UNCHANGED <<artifact, ruling>>
    /\ Ended(r)
    /\ UNCHANGED <<draft, disputed>>

\* Approve or reject, whatever the status is.
AIArtifactApproveView(r, a, status) ==
    Known(a) /\ Begun(r, [doing |-> "deciding", on |-> a, status |-> status])

Deciding(a) == {r \in NoteCalls : noteCall[r].doing = "deciding" /\ noteCall[r].on = a}

\* approve() and reject() write their copy of the row.
SaveDecision(r) ==
    /\ noteCall[r].doing = "deciding"
    /\ LET a == noteCall[r].on
       IN  /\ artifact' = [artifact EXCEPT ![a].status = noteCall[r].status]
           /\ ruling' = [ruling EXCEPT ![a] = noteCall[r].status]
           /\ disputed' = IF Deciding(a) = {r} THEN disputed \ {a} ELSE disputed \cup {a}
    /\ Ended(r)
    /\ UNCHANGED draft

Ruled(a) == IF a \in disputed THEN "disputed" ELSE ruling[a]

\* Defect: only rejected artifacts are refused.
AIArtifactUseView_NotRejected(r, a) ==
    /\ Known(a) /\ artifact[a].status # "rejected"
    /\ artifact[a].type = "show_notes"
    /\ Begun(r, [doing |-> "using", on |-> a, based_on |-> Ruled(a)])

\* An approved artifact is used: the status is looked at first ...
AIArtifactUseView(r, a) ==
    /\ artifact[a].status = "approved"
    /\ artifact[a].type = "show_notes"
    /\ Begun(r, [doing |-> "using", on |-> a, based_on |-> Ruled(a)])

\* ... and the draft inserted, although the artifact may have been rejected meanwhile.
CreateFromArtifact(r) ==
    /\ noteCall[r].doing = "using"
    /\ InsertDraft(ADraft(noteCall[r].on, noteCall[r].on, noteCall[r].based_on))
    /\ Ended(r)
    /\ UNCHANGED <<artifact, ruling, disputed>>

----------------------------------------------------------------------------
(* Drafts.                                                                 *)

\* A draft is typed in.
EpisodeShowNotesView ==
    /\ InsertDraft(ADraft(NoSource, Typed, "none"))
    /\ UNCHANGED <<artifact, noteCall, ruling, disputed>>

\* The API names any artifact as the source.
ShowNoteDraftListCreateAPI(a) ==
    /\ Known(a)
    /\ InsertDraft(ADraft(a, Typed, "none"))
    /\ UNCHANGED <<artifact, noteCall, ruling, disputed>>

ShowNoteDraftEditView(r, d) ==
    /\ draft[d].row = "there"
    /\ Begun(r, [doing |-> "editing", on |-> d, copy |-> [draft[d] EXCEPT !.markdown = Typed]])

\* A PATCH may name another source and leave the text.
ShowNoteDraftDetailAPI(r, d, a) ==
    /\ draft[d].row = "there"
    /\ Begun(r, [doing |-> "editing", on |-> d, copy |-> [draft[d] EXCEPT !.source = a]])

\* A draft that was deleted meanwhile is inserted again.
SaveDraft(r) ==
    /\ noteCall[r].doing = "editing"
    /\ draft' = [draft EXCEPT ![noteCall[r].on] = noteCall[r].copy]
    /\ Ended(r)
    /\ UNCHANGED <<artifact, ruling, disputed>>

DeleteDraft(d) ==
    /\ draft[d].row = "there"
    /\ draft' = [draft EXCEPT ![d] = [NoDraft EXCEPT !.row = "deleted"]]
    /\ UNCHANGED <<artifact, noteCall, ruling, disputed>>

----------------------------------------------------------------------------
NotesNext ==
    \/ \E r \in NoteCalls :
         \/ \E type \in Asked : AIArtifactGenerateAPI(r, type) \/ EpisodeAIDraftsView(r, type)
         \/ create_ai_artifact(r) \/ SaveDecision(r) \/ CreateFromArtifact(r) \/ SaveDraft(r)
         \/ \E a \in Artifacts :
              \/ \E status \in {"approved", "rejected"} : AIArtifactApproveView(r, a, status)
              \/ AIArtifactUseView(r, a)
         \/ \E d \in NoteDrafts :
              \/ ShowNoteDraftEditView(r, d)
              \/ \E a \in {b \in Artifacts : Known(b)} : ShowNoteDraftDetailAPI(r, d, a)
    \/ EpisodeShowNotesView
    \/ \E a \in Artifacts : ShowNoteDraftListCreateAPI(a)
    \/ \E d \in NoteDrafts : DeleteDraft(d)

NotesSpec == NotesInit /\ [][NotesNext]_notesVars

----------------------------------------------------------------------------
NotesTypeOK ==
    /\ artifact \in [Artifacts -> [type : ArtifactType, status : ApprovalStatus \cup {"none"}]]
    /\ draft \in [NoteDrafts ->
                    [row : {"none", "there", "deleted"}, source : Artifacts \cup {NoSource},
                     markdown : Artifacts \cup {Typed},
                     based_on : ApprovalStatus \cup {"none", "disputed"}]]
    /\ disputed \subseteq Artifacts

\* The output of an artifact gets into a draft only when the last decision on it, before
\* the request that uses it looked, was to approve it; unless two decisions overlapped. And
\* it reads as show notes, unless the episode itself speaks of questions.
UsedWasApproved ==
    \A d \in NoteDrafts :
        draft[d].markdown # Typed =>
            /\ draft[d].based_on \in {"approved", "disputed"}
            /\ "question" \notin Subject => output_text(draft[d].markdown) = "show_notes"
=============================================================================
