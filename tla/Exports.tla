------------------------------ MODULE Exports -------------------------------
(***************************************************************************)
(* The export package of an episode: episode.json, show-notes.md,          *)
(* clips.csv, segments.csv and a brief for a guest. A package is built of  *)
(* one query after another, outside of a transaction, while others write   *)
(* what it shows.                                                          *)
(***************************************************************************)
EXTENDS Integers, FiniteSets, SequencesExt

CONSTANTS
    Editions,    \* what a table may hold, as far as an export tells it apart
    Texts,       \* the markdown of drafts
    MostDrafts,  \* bound on the drafts of an episode
    MostWritten  \* bound on the tables written between two requests

ASSUME ExportConstants == "empty" \in Editions /\ MostDrafts \in Nat

VARIABLES
    content,  \* what the tables hold: segments, guests, clips, checklist
    drafts,   \* the ShowNoteDraft rows in the order of their created_at
    typed,    \* whether the episode has an episode_type
    queries,  \* the queries of the package that are left
    answers,  \* what those made so far have found
    written   \* history: what somebody wrote since the first query

exportVars == <<content, drafts, typed, queries, answers, written>>

----------------------------------------------------------------------------
Tables == {"segments", "guests", "clips", "checklist"}

ExportInit ==
    /\ content = [t \in Tables |-> "empty"]
    /\ drafts = <<>>
    /\ typed = FALSE
    /\ queries = <<>>
    /\ answers = {}
    /\ written = {}

\* No handler stores final notes, so both files fall back to the latest draft.
JsonNotes == IF drafts = <<>> THEN "none" ELSE drafts[Len(drafts)]

\* Defect: the first draft instead of the latest.
MarkdownNotes_First == IF drafts = <<>> THEN "none" ELSE drafts[1]

MarkdownNotes == IF drafts = <<>> THEN "none" ELSE drafts[Len(drafts)]

\* What the queries of each export are about, in their order.
export_episode_package_json ==
    <<"segments", "guests", "clips", "json notes", "checklist", "json complete">>
export_show_notes_markdown == <<"guests", "markdown notes">>
export_clips_csv == <<"clips">>
export_segments_csv == <<"segments">>
export_guest_brief_html == <<"guests", "segments">>

generate_full_export_package ==
    export_episode_package_json \o export_show_notes_markdown \o export_clips_csv
        \o export_segments_csv \o <<"guests">> \o export_guest_brief_html

About(query) ==
    CASE query \in {"json notes", "markdown notes"} -> "notes"
      [] query \in {"checklist", "json complete"} -> "checklist"
      [] OTHER -> query

Answer(query) ==
    CASE query = "json notes" -> JsonNotes
      [] query = "markdown notes" -> MarkdownNotes
      [] OTHER -> content[About(query)]

----------------------------------------------------------------------------
\* A request for one file or for all of them.
Request(file) ==
    /\ queries = <<>>
    /\ queries' = file
    /\ answers' = {}
    /\ written' = {}
    /\ UNCHANGED <<content, drafts, typed>>

\* The JSON of an episode with a type is none: a row cannot be encoded. The last query
\* of that file is also the last of the request.
Query ==
    /\ queries # <<>>
    /\ LET query == Head(queries)
       IN  IF query = "json complete" /\ typed
           THEN queries' = <<>> /\ answers' = {}
           ELSE /\ queries' = Tail(queries)
                /\ answers' = answers \cup {<<query, Answer(query)>>}
    /\ UNCHANGED <<content, drafts, typed, written>>

Writing(t) ==
    /\ written' = written \cup {t}
    /\ Cardinality(written') <= MostWritten

\* Somebody edits a table.
WriteTable(t, edition) ==
    /\ content[t] # edition
    /\ content' = [content EXCEPT ![t] = edition]
    /\ Writing(t)
    /\ UNCHANGED <<drafts, typed, queries, answers>>

WriteDrafts(new) ==
    /\ drafts' = new
    /\ Writing("notes")
    /\ UNCHANGED <<content, typed, queries, answers>>

AddDraft(text) == Len(drafts) < MostDrafts /\ WriteDrafts(Append(drafts, text))
EditDraft(d, text) == drafts[d] # text /\ WriteDrafts([drafts EXCEPT ![d] = text])
DropDraft(d) == WriteDrafts(RemoveAt(drafts, d))

SetEpisodeType ==
    /\ typed' = ~typed
    /\ UNCHANGED <<content, drafts, queries, answers, written>>

ExportNext ==
    \/ \E file \in {export_episode_package_json, export_show_notes_markdown, export_clips_csv,
                    export_guest_brief_html, generate_full_export_package} : Request(file)
    \/ Query
    \/ \E t \in Tables, edition \in Editions : WriteTable(t, edition)
    \/ \E text \in Texts : AddDraft(text) \/ \E d \in DOMAIN drafts : EditDraft(d, text)
    \/ \E d \in DOMAIN drafts : DropDraft(d)
    \/ SetEpisodeType

ExportSpec == ExportInit /\ [][ExportNext]_exportVars

----------------------------------------------------------------------------
ExportTypeOK ==
    /\ content \in [Tables -> Editions]
    /\ Len(drafts) <= MostDrafts /\ Range(drafts) \subseteq Texts
    /\ typed \in BOOLEAN
    /\ \A pair \in answers : pair[2] \in Editions \cup Texts \cup {"none"}

\* What two files of a package, or two parts of one, show of the same table is the same,
\* unless somebody wrote that table between the first query and the last.
PackageAgrees ==
    \A x, y \in answers :
        About(x[1]) = About(y[1]) /\ About(x[1]) \notin written => x[2] = y[2]
=============================================================================
