----------------------------- MODULE RunOfShow ------------------------------
(***************************************************************************)
(* The run of show: segments of episodes, the templates they are copied    *)
(* from, and the segment that is live.                                     *)
(*                                                                         *)
(* The segments tab computes the next order under a lock on the episode;   *)
(* the API inserts whatever order it is given. Every other edit loads a    *)
(* row and later writes all of its columns. A foreign key to a row that is *)
(* gone makes the statement fail; a deletion nulls the keys that point at  *)
(* its row.                                                                *)
(***************************************************************************)
EXTENDS Integers, FiniteSets

CONSTANTS
    ShowEpisodes,  \* episodes
    Segments,      \* Segment rows
    Templates,     \* SegmentTemplate rows
    ShowCalls,     \* requests that may overlap
    GivenOrders,   \* orders that users type into forms and the API
    LastOrder,     \* bound on the orders
    Removed,       \* a Segment row that was deleted
    Nil

ASSUME OrdersAssumption == LastOrder \in Nat /\ GivenOrders \subseteq 0..LastOrder

VARIABLES
    segment,   \* the Segment table
    template,  \* the SegmentTemplate rows that exist
    active,    \* Episode.active_segment
    showCall,  \* what each request is doing
    placed,    \* history: segments that the tab placed and no edit has written since
    moved      \* history: segments that the API moved to another episode

showVars == <<segment, template, active, showCall, placed, moved>>

----------------------------------------------------------------------------
SegmentRow == [episode : ShowEpisodes, order : 0..LastOrder, source_template : Templates \cup {Nil}]

\* Nil and Removed stand for no row.
ASSUME RowsAssumption ==
    Nil \notin SegmentRow /\ Removed \notin SegmentRow /\ Nil # Removed /\ Nil \notin Segments

Row(e, o, t) == [episode |-> e, order |-> o, source_template |-> t]

Free == [doing |-> "idle", at |-> Nil, copy |-> Nil]

ShowInit ==
    /\ segment = [s \in Segments |-> Nil]
    /\ template = {}
    /\ active = [e \in ShowEpisodes |-> Nil]
    /\ showCall = [r \in ShowCalls |-> Free]
    /\ placed = {}
    /\ moved = {}

\* The id of a deleted row is not used for another segment.
Present == {s \in Segments : segment[s] \notin {Nil, Removed}}

Begin(r, what, at, copy) ==
    /\ showCall[r] = Free
    /\ showCall' = [showCall EXCEPT ![r] = [doing |-> what, at |-> at, copy |-> copy]]

End(r) == showCall' = [showCall EXCEPT ![r] = Free]

----------------------------------------------------------------------------
(* Segments.                                                               *)

\* The requests that hold the lock on an episode.
Locks(e) == {r \in ShowCalls : showCall[r].doing = "adding" /\ showCall[r].at = e}

Orders(e) == {segment[s].order : s \in {k \in Present : segment[k].episode = e}}

next_order(e) == IF Orders(e) = {} THEN 1
                 ELSE (CHOOSE o \in Orders(e) : \A k \in Orders(e) : k <= o) + 1

\* Defect: the order is computed without the lock.
AddSegment_NoLock(r, e, t) ==
    /\ next_order(e) <= LastOrder
    /\ Begin(r, "adding", e, Row(e, next_order(e), t))
    /\ UNCHANGED <<segment, template, active, placed, moved>>

\* The transaction of the segments tab begins: the episode is locked.
AddSegment(r, e, t) ==
    /\ Locks(e) = {}
    /\ next_order(e) <= LastOrder
    /\ Begin(r, "adding", e, Row(e, next_order(e), t))
    /\ UNCHANGED <<segment, template, active, placed, moved>>

\* A segment from the form, or the copy of a template.
EpisodeSegmentsView(r, e) == \E t \in template \cup {Nil} : AddSegment(r, e, t)

\* The key to the template, if any, has to lead to a row.
Insertable(row) == row.source_template \in template \cup {Nil}

\* It ends with the insert, or with nothing when the template was deleted meanwhile.
InsertSegment(r) ==
    LET row == showCall[r].copy
    IN  /\ showCall[r].doing = "adding"
        /\ \/ /\ Insertable(row)
              /\ \E s \in {k \in Segments : segment[k] = Nil} :
                   /\ segment' = [segment EXCEPT ![s] = row]
                   /\ placed' = placed \cup {s}
           \/ /\ ~Insertable(row)
              /\ UNCHANGED <<segment, placed>>
        /\ End(r)
        /\ UNCHANGED <<template, active, moved>>

\* The API takes any order.
SegmentListCreateAPI(s, e, o) ==
    /\ segment[s] = Nil
    /\ segment' = [segment EXCEPT ![s] = Row(e, o, Nil)]
    /\ UNCHANGED <<template, active, showCall, placed, moved>>

\* The form of a segment edits its order ...
SegmentUpdateView(r, s, o) ==
    /\ s \in Present
    /\ Begin(r, "editing", s, [segment[s] EXCEPT !.order = o])
    /\ UNCHANGED <<segment, template, active, placed, moved>>

\* ... the API its order and its episode.
SegmentDetailAPI(r, s, o, e) ==
    /\ s \in Present
    /\ Begin(r, "editing", s, [segment[s] EXCEPT !.order = o, !.episode = e])
    /\ UNCHANGED <<segment, template, active, placed, moved>>

\* A segment that was deleted meanwhile is inserted again.
SaveSegment(r) ==
    LET s == showCall[r].at
        row == showCall[r].copy
    IN  /\ showCall[r].doing = "editing"
        /\ IF Insertable(row)
           THEN /\ segment' = [segment EXCEPT ![s] = row]
                /\ placed' = placed \ {s}
                /\ moved' = IF s \notin Present \/ segment[s].episode # row.episode
                            THEN moved \cup {s} ELSE moved
           ELSE UNCHANGED <<segment, placed, moved>>
        /\ End(r)
        /\ UNCHANGED <<template, active>>

SegmentDeleteView(s) ==
    /\ s \in Present
    /\ segment' = [segment EXCEPT ![s] = Removed]
    /\ active' = [e \in ShowEpisodes |-> IF active[e] = s THEN Nil ELSE active[e]]
    /\ placed' = placed \ {s}
    /\ UNCHANGED <<template, showCall, moved>>

----------------------------------------------------------------------------
(* Templates.                                                              *)

\* An edit of a template changes nothing here: segments copied from it keep what they have.
SegmentTemplateListView(t) ==
    /\ t \notin template
    /\ template' = template \cup {t}
    /\ UNCHANGED <<segment, active, showCall, placed, moved>>

SegmentTemplateDeleteView(t) ==
    /\ t \in template
    /\ template' = template \ {t}
    /\ segment' = [s \in Segments |->
                     IF s \in Present /\ segment[s].source_template = t
                     THEN [segment[s] EXCEPT !.source_template = Nil] ELSE segment[s]]
    /\ UNCHANGED <<active, showCall, placed, moved>>

----------------------------------------------------------------------------
(* The live segment.                                                       *)

\* Defect: the segment is not looked up among those of the episode.
CheckLive_AnySegment(r, e, s) ==
    /\ s \in Present
    /\ Begin(r, "going live", e, s)
    /\ UNCHANGED <<segment, template, active, placed, moved>>

\* Control Room: the segment is looked up ...
CheckLive(r, e, s) ==
    /\ s \in Present
    /\ segment[s].episode = e
    /\ Begin(r, "going live", e, s)
    /\ UNCHANGED <<segment, template, active, placed, moved>>

\* ... and the column saved; the key fails when the segment is gone.
SaveLive(r) ==
    /\ showCall[r].doing \in {"going live", "saving episode"}
    /\ active' = IF showCall[r].copy \in Present \cup {Nil}
                 THEN [active EXCEPT ![showCall[r].at] = showCall[r].copy] ELSE active
    /\ End(r)
    /\ UNCHANGED <<segment, template, placed, moved>>

ClearLive(e) ==
    /\ active[e] # Nil
    /\ active' = [active EXCEPT ![e] = Nil]
    /\ UNCHANGED <<segment, template, showCall, placed, moved>>

\* Forms validate the episode they have loaded.
clean(e) == \A s \in Present : active[e] = s => segment[s].episode = e

\* Every full save of an episode writes the live segment of its copy (SaveLive): the
\* forms' after clean, those of the API and of transitions without it.
LoadEpisode(r, e, isForm) ==
    /\ isForm => clean(e)
    /\ Begin(r, "saving episode", e, active[e])
    /\ UNCHANGED <<segment, template, active, placed, moved>>

----------------------------------------------------------------------------
ShowNext ==
    \/ \E r \in ShowCalls :
         \/ \E e \in ShowEpisodes : \/ EpisodeSegmentsView(r, e)
                                    \/ \E isForm \in BOOLEAN : LoadEpisode(r, e, isForm)
                                    \/ \E s \in Segments : CheckLive(r, e, s)
         \/ \E s \in Segments, o \in GivenOrders :
              \/ SegmentUpdateView(r, s, o)
              \/ \E e \in ShowEpisodes : SegmentDetailAPI(r, s, o, e)
         \/ InsertSegment(r) \/ SaveSegment(r) \/ SaveLive(r)
    \/ \E s \in Segments, e \in ShowEpisodes, o \in GivenOrders : SegmentListCreateAPI(s, e, o)
    \/ \E s \in Segments : SegmentDeleteView(s)
    \/ \E t \in Templates : SegmentTemplateListView(t) \/ SegmentTemplateDeleteView(t)
    \/ \E e \in ShowEpisodes : ClearLive(e)

ShowSpec == ShowInit /\ [][ShowNext]_showVars

----------------------------------------------------------------------------
(* Properties.                                                             *)

ShowTypeOK ==
    /\ segment \in [Segments -> SegmentRow \cup {Nil, Removed}]
    /\ template \subseteq Templates
    /\ active \in [ShowEpisodes -> Segments \cup {Nil}]
    /\ placed \subseteq Present
    /\ moved \subseteq Segments

\* Segments that the tab has added to an episode never share an order, however the tab's
\* requests overlap with each other, with deletions and with the API; until one is edited.
PlacedOrdersDiffer ==
    \A s, t \in placed :
        segment[s].episode = segment[t].episode /\ segment[s].order = segment[t].order => s = t

\* The live segment of an episode exists and is one of its own, also when full saves of
\* the episode put an older one back; the exception is a segment that the API moved.
ActiveIsOwn ==
    \A e \in ShowEpisodes : active[e] # Nil =>
        /\ active[e] \in Present
        /\ segment[active[e]].episode = e \/ active[e] \in moved
=============================================================================
