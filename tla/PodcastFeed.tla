---------------------------- MODULE PodcastFeed -----------------------------
(***************************************************************************)
(* Podcast distribution: the audio of an episode is uploaded to Spaces, a  *)
(* PodcastDistribution row per platform says so, and the RSS file in       *)
(* Spaces lists the episodes that have such rows. What a rebuild does to   *)
(* the settings of the feed is in FeedSettings.                            *)
(***************************************************************************)
EXTENDS Naturals, Sequences, SequencesExt

CONSTANTS
    FeedEpisodes,  \* episodes of the show
    Platforms,     \* PodcastPlatform.CHOICES, in their order
    Audios,        \* audio files, each of one episode's upload or asset
    FeedCalls,     \* requests, background threads and commands that may overlap
    Nothing

ASSUME FeedConstants ==
    Platforms \in Seq(STRING) /\ Len(Platforms) > 0 /\ Nothing \notin Audios

VARIABLES
    dist,        \* the PodcastDistribution table
    listed,      \* the uploaded feed: the audio of each episode that it lists
    feedCall,    \* what each call is doing
    ahead,       \* history: pairs of calls that have listed, in that order, and not uploaded
    settled      \* history: episodes whose last publication was whole and undisturbed

feedVars == <<dist, listed, feedCall, ahead, settled>>

----------------------------------------------------------------------------
NoDist == [status |-> "none", audio_public_url |-> Nothing]

PodcastDistribution == [status : {"none", "submitted", "live"}, audio_public_url : Audios \cup {Nothing}]

FeedIdle == [doing |-> "idle", episode |-> Nothing, audio |-> Nothing, todo |-> <<>>,
             list |-> Nothing, overtaken |-> FALSE, clean |-> FALSE]

FeedInit ==
    /\ dist = [e \in FeedEpisodes |-> [p \in Range(Platforms) |-> NoDist]]
    /\ listed = [e \in {} |-> Nothing]
    /\ feedCall = [r \in FeedCalls |-> FeedIdle]
    /\ ahead = {}
    /\ settled = {}

----------------------------------------------------------------------------
(* Publishing audio.                                                       *)

Publishing(e) == {r \in FeedCalls : feedCall[r].doing = "publishing" /\ feedCall[r].episode = e}

\* The rows come after the audio is in Spaces; overlapping publications disturb each other.
Publish(r, e, a, platforms) ==
    /\ feedCall[r] = FeedIdle
    /\ feedCall' = [q \in FeedCalls |->
         IF q = r
         THEN [FeedIdle EXCEPT !.doing = "publishing", !.episode = e, !.audio = a, !.todo = platforms,
                               !.clean = platforms = Platforms /\ Publishing(e) = {}]
         ELSE IF q \in Publishing(e) THEN [feedCall[q] EXCEPT !.clean = FALSE] ELSE feedCall[q]]
    /\ settled' = settled \ {e}
    /\ UNCHANGED <<dist, listed, ahead>>

\* Publish tab and API: a new file, for all platforms.
publish_episode_audio(r, e, a) == Publish(r, e, a, Platforms)

\* Publish tab: an audio asset, for the platforms that are ticked, or all.
publish_audio_from_asset(r, e, a, ticked) ==
    Publish(r, e, a, IF ticked = {} THEN Platforms ELSE SelectSeq(Platforms, LAMBDA p : p \in ticked))

\* The rows that put an episode into the feed.
InFeed(e) == {p \in Range(Platforms) : /\ dist[e][p].status \in {"submitted", "live"}
                                       /\ dist[e][p].audio_public_url # Nothing}

\* The fix_feed command, for one episode after another: those not in the feed.
fix_feed(r, e, a) == InFeed(e) = {} /\ Publish(r, e, a, Platforms)

\* Defect: a row that exists is left as it is.
update_or_create_GetOrCreate(row, a) ==
    IF row = NoDist THEN [status |-> "submitted", audio_public_url |-> a] ELSE row

\* Defect: an updated row starts over as pending, which is in no feed.
update_or_create_Pending(row, a) ==
    [status |-> IF row = NoDist THEN "submitted" ELSE "none", audio_public_url |-> a]

\* Also of a row that was live.
update_or_create(row, a) == [status |-> "submitted", audio_public_url |-> a]

\* One platform after another; after the last one the feed may be rebuilt in the background.
UpsertPlatform(r) ==
    LET e == feedCall[r].episode
        p == Head(feedCall[r].todo)
        rest == Tail(feedCall[r].todo)
    IN  /\ feedCall[r].doing = "publishing"
        /\ dist' = [dist EXCEPT ![e][p] = update_or_create(dist[e][p], feedCall[r].audio)]
        /\ IF rest # <<>>
           THEN /\ feedCall' = [feedCall EXCEPT ![r].todo = rest]
                /\ UNCHANGED settled
           ELSE /\ \E next \in {"idle", "rebuilding"} :
                     feedCall' = [feedCall EXCEPT ![r] = [FeedIdle EXCEPT !.doing = next]]
                /\ settled' = IF feedCall[r].clean THEN settled \cup {e} ELSE settled
        /\ UNCHANGED <<listed, ahead>>

----------------------------------------------------------------------------
(* Rebuilding the feed.                                                    *)

RebuildPodcastFeedAPI(r) ==
    /\ feedCall[r] = FeedIdle
    /\ feedCall' = [feedCall EXCEPT ![r].doing = "rebuilding"]
    /\ UNCHANGED <<dist, listed, ahead, settled>>

\* One entry per episode, with the audio of any of its platforms.
FeedEntries ==
    LET published == {e \in FeedEpisodes : InFeed(e) # {}}
    IN  {[e \in published |-> dist[e][from[e]].audio_public_url] :
           from \in {f \in [published -> Range(Platforms)] : \A e \in published : f[e] \in InFeed(e)}}

_build_rss_feed(r) ==
    /\ feedCall[r].doing = "rebuilding"
    /\ \E list \in FeedEntries :
         feedCall' = [feedCall EXCEPT ![r].doing = "uploading", ![r].list = list]
    /\ ahead' = ahead \cup {<<q, r>> : q \in {k \in FeedCalls : feedCall[k].doing = "uploading"}}
    /\ UNCHANGED <<dist, listed, settled>>

AheadWithout(r) == {pair \in ahead : r \notin {pair[1], pair[2]}}

\* The file has one key. Those that listed earlier and upload later are overtaken.
UploadFeed(r) ==
    LET behind == {q \in FeedCalls : <<q, r>> \in ahead}
    IN  /\ feedCall[r].doing = "uploading"
        /\ listed' = feedCall[r].list
        /\ feedCall' = [q \in FeedCalls |->
             IF q = r THEN FeedIdle
             ELSE IF q \in behind THEN [feedCall[q] EXCEPT !.overtaken = TRUE] ELSE feedCall[q]]
        /\ ahead' = AheadWithout(r)
        /\ UNCHANGED <<dist, settled>>

\* A process ends, or a call raises: Spaces, Google or the database do not answer.
CallEnds(r) ==
    /\ feedCall[r] # FeedIdle
    /\ feedCall' = [feedCall EXCEPT ![r] = FeedIdle]
    /\ ahead' = AheadWithout(r)
    /\ UNCHANGED <<dist, listed, settled>>

----------------------------------------------------------------------------
FeedNext ==
    \/ \E r \in FeedCalls, e \in FeedEpisodes, a \in Audios :
         \/ publish_episode_audio(r, e, a)
         \/ \E ticked \in SUBSET Range(Platforms) : publish_audio_from_asset(r, e, a, ticked)
         \/ fix_feed(r, e, a)
    \/ \E r \in FeedCalls :
           UpsertPlatform(r) \/ RebuildPodcastFeedAPI(r) \/ _build_rss_feed(r) \/ UploadFeed(r)
           \/ CallEnds(r)

FeedSpec == FeedInit /\ [][FeedNext]_feedVars

----------------------------------------------------------------------------
(* Properties.                                                             *)

FeedTypeOK ==
    /\ dist \in [FeedEpisodes -> [Range(Platforms) -> PodcastDistribution]]
    /\ settled \subseteq FeedEpisodes

\* An episode leaves the uploaded feed only when a rebuild that listed before another one
\* uploads after it: publishing again, fixing the feed, editing the settings and failures
\* in any order never take one out.
EpisodesStay ==
    [][\A e \in DOMAIN listed :
         \/ e \in DOMAIN listed'
         \/ \E r \in FeedCalls : feedCall[r].doing = "uploading" /\ feedCall[r].overtaken
                                 /\ feedCall'[r] = FeedIdle]_feedVars

\* After a publication for all platforms that none of the same episode overlapped, all
\* platforms have its audio, whatever half-done publications came before it.
PlatformsAgree ==
    \A e \in settled : \E a \in Audios : \A p \in Range(Platforms) :
        p \in InFeed(e) /\ dist[e][p].audio_public_url = a
=============================================================================
