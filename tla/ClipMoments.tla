---------------------------- MODULE ClipMoments -----------------------------
(***************************************************************************)
(* The clip markers of an episode: where each begins and ends, in          *)
(* milliseconds, and the form that also takes these times as text.         *)
(*                                                                         *)
(* A text is the sequence of the numbers between its colons; one of        *)
(* another length stands for every text that does not parse.               *)
(***************************************************************************)
EXTENDS Sequences, Integers

CONSTANTS
    Clips,      \* ClipMoment rows
    ClipCalls,  \* requests that may overlap
    Millis,     \* the milliseconds that clients post
    TypedTimes, \* the texts that they post
    Missing     \* a field that is not posted

ASSUME ClipConstants == Millis \subseteq Nat /\ TypedTimes \subseteq Seq(Nat)

VARIABLES
    clip,     \* the ClipMoment table
    clipCall  \* what each request is doing

clipVars == <<clip, clipCall>>

----------------------------------------------------------------------------
\* writers is history: who has written the times of the row.
NoClip == [row |-> "none", start_ms |-> 0, end_ms |-> 0, writers |-> {}]

NoCall == [doing |-> "nothing"]

ClipInit ==
    /\ clip = [c \in Clips |-> NoClip]
    /\ clipCall = [r \in ClipCalls |-> NoCall]

----------------------------------------------------------------------------
(* The form.                                                               *)

_ms_to_time(ms) ==
    LET seconds == ms \div 1000
        hours   == seconds \div 3600
        minutes == (seconds % 3600) \div 60
    IN  IF hours # 0 THEN <<hours, minutes, seconds % 60>> ELSE <<minutes, seconds % 60>>

Parses(time) == Len(time) \in {2, 3}

_time_to_ms(time) ==
    LET hms == IF Len(time) = 3 THEN time ELSE <<0>> \o time
    IN  (hms[1] * 3600 + hms[2] * 60 + hms[3]) * 1000

\* A typed time counts only when the milliseconds are zero.
TextCounts(ms, time) == ms = 0 /\ time # <<>>

TimeOf(ms, time) == IF TextCounts(ms, time) THEN _time_to_ms(time) ELSE ms

\* Both hidden fields are required, and what counts as typed must parse.
FieldsValid(post) ==
    /\ Missing \notin {post.start_ms, post.end_ms}
    /\ TextCounts(post.start_ms, post.start_time) => Parses(post.start_time)
    /\ TextCounts(post.end_ms, post.end_time) => Parses(post.end_time)

\* Defect: the order is checked before the typed times are taken over.
ValidClip_PostedOrder(post) == FieldsValid(post) /\ post.end_ms >= post.start_ms

ValidClip(post) ==
    /\ FieldsValid(post)
    /\ TimeOf(post.end_ms, post.end_time) > TimeOf(post.start_ms, post.start_time)

Posts ==
    [start_ms : Millis \cup {Missing}, start_time : TypedTimes,
     end_ms : Millis \cup {Missing}, end_time : TypedTimes]

\* Every other post is answered with an error.
ValidPosts == {post \in Posts : ValidClip(post)}

\* The times of the form replace those of the row that was loaded.
Filled(row, post) ==
    [row EXCEPT !.row = "there",
                !.start_ms = TimeOf(post.start_ms, post.start_time),
                !.end_ms = TimeOf(post.end_ms, post.end_time),
                !.writers = @ \cup {"form"}]

----------------------------------------------------------------------------
(* The requests.                                                           *)

Fresh(c) == clip[c] = NoClip

EpisodeClipsView(c, post) ==
    /\ Fresh(c)
    /\ clip' = [clip EXCEPT ![c] = Filled(NoClip, post)]
    /\ UNCHANGED clipCall

\* Neither the API nor the identified clips are checked for the order of their times.
ClipMomentListCreateAPI(c, start, end) ==
    /\ Fresh(c)
    /\ clip' = [clip EXCEPT ![c] = [row |-> "there", start_ms |-> start, end_ms |-> end,
                                    writers |-> {"api"}]]
    /\ UNCHANGED clipCall

LoadClip(r, c, copy) ==
    /\ clip[c].row = "there" /\ clipCall[r] = NoCall
    /\ clipCall' = [clipCall EXCEPT ![r] = [doing |-> "saving", on |-> c, copy |-> copy]]
    /\ UNCHANGED clip

ClipMomentUpdateView(r, c, post) == LoadClip(r, c, Filled(clip[c], post))

\* A PATCH of one time keeps the other as it was loaded.
ClipMomentDetailAPI(r, c, time, ms) ==
    LoadClip(r, c, [clip[c] EXCEPT ![time] = ms, !.writers = @ \cup {"api"}])

\* Every column of the copy is written; a row that was deleted meanwhile is inserted again.
SaveClip(r) ==
    /\ clipCall[r].doing = "saving"
    /\ clip' = [clip EXCEPT ![clipCall[r].on] = clipCall[r].copy]
    /\ clipCall' = [clipCall EXCEPT ![r] = NoCall]

ClipMomentDeleteView(c) ==
    /\ clip[c].row = "there"
    /\ clip' = [clip EXCEPT ![c] = [NoClip EXCEPT !.row = "deleted"]]
    /\ UNCHANGED clipCall

----------------------------------------------------------------------------
ClipNext ==
    \/ \E c \in Clips :
         \/ \E post \in ValidPosts :
              \/ EpisodeClipsView(c, post)
              \/ \E r \in ClipCalls : ClipMomentUpdateView(r, c, post)
         \/ \E start, end \in Millis : ClipMomentListCreateAPI(c, start, end)
         \/ \E r \in ClipCalls, time \in {"start_ms", "end_ms"}, ms \in Millis :
              ClipMomentDetailAPI(r, c, time, ms)
         \/ ClipMomentDeleteView(c)
    \/ \E r \in ClipCalls : SaveClip(r)

ClipSpec == ClipInit /\ [][ClipNext]_clipVars

----------------------------------------------------------------------------
ClipTypeOK ==
    clip \in [Clips -> [row : {"none", "there", "deleted"}, start_ms : Nat, end_ms : Nat,
                        writers : SUBSET {"form", "api"}]]

\* A clip that only forms have written ends after it starts, whichever of the two ways its
\* times were given and whatever overlapped; and the form shows the times of any clip as
\* texts that it would read as the same times but for a part of a second.
ClipsRun ==
    \A c \in Clips :
        clip[c].row = "there" =>
            /\ "api" \notin clip[c].writers => clip[c].start_ms < clip[c].end_ms
            /\ \A ms \in {clip[c].start_ms, clip[c].end_ms} :
                 ms - _time_to_ms(_ms_to_time(ms)) \in 0 .. 999
=============================================================================
