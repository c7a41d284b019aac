---------------------------- MODULE FeedSettings ----------------------------
(***************************************************************************)
(* The settings of a show's feed and its YouTube connection, two uses of   *)
(* one PodcastFeedConfig row.                                              *)
(*                                                                         *)
(* Forms, the API's PUT and rebuilds of the feed load the row and later    *)
(* write all of its columns; between the two a rebuild uploads the feed    *)
(* and a form may upload cover art. The others save columns by name.       *)
(***************************************************************************)
EXTENDS Naturals

CONSTANTS
    SettingsCalls, \* requests and background threads that may overlap
    Titles,        \* what the settings form may hold
    Tokens,        \* refresh tokens that Google hands out
    MaxVideos,     \* bound on the videos uploaded to YouTube
    Unset

ASSUME VideosAssumption == MaxVideos \in Nat

VARIABLES
    feedConfig,    \* the PodcastFeedConfig row
    settingsCall,  \* what each call is doing
    connection,    \* history: the token that the last connect or disconnect left
    raced,         \* history: whether a call held the row across that one
    videos         \* videos uploaded to YouTube

settingsVars == <<feedConfig, settingsCall, connection, raced, videos>>

----------------------------------------------------------------------------
\* feed_public_url: empty, the view that builds the feed on request, or the file in Spaces.
PodcastFeedConfig == [feed_title : Titles \cup {Unset}, cover_art_url : {"", "uploaded"},
                      feed_public_url : {"", "app", "cdn"},
                      youtube_refresh_token : Tokens \cup {Unset},
                      youtube_channel : Tokens \cup {Unset}]

Resting == [doing |-> "idle", with |-> Unset]

SettingsInit ==
    /\ feedConfig = [feed_title |-> Unset, cover_art_url |-> "", feed_public_url |-> "",
                     youtube_refresh_token |-> Unset, youtube_channel |-> Unset]
    /\ settingsCall = [r \in SettingsCalls |-> Resting]
    /\ connection = Unset
    /\ raced = FALSE
    /\ videos = 0

----------------------------------------------------------------------------
(* Settings.                                                               *)

\* The row as a call will write it.
Load(r, row) ==
    /\ settingsCall[r] = Resting
    /\ settingsCall' = [settingsCall EXCEPT ![r] = [doing |-> "saving", with |-> row]]
    /\ UNCHANGED <<feedConfig, connection, raced, videos>>

build_and_publish_feed(r) == Load(r, [feedConfig EXCEPT !.feed_public_url = "cdn"])

PodcastFeedConfigAPI(r, title) == Load(r, [feedConfig EXCEPT !.feed_title = title])

\* The form points the feed's address at the view, and keeps the old art if Spaces fails.
ShowUpdateView(r, title) ==
    \E cover \in {feedConfig.cover_art_url, "uploaded"} :
        Load(r, [feedConfig EXCEPT !.feed_title = title, !.feed_public_url = "app",
                                   !.cover_art_url = cover])

\* All columns of the copy are written, the YouTube token of then among them.
SaveConfig(r) ==
    /\ settingsCall[r].doing = "saving"
    /\ feedConfig' = settingsCall[r].with
    /\ settingsCall' = [settingsCall EXCEPT ![r] = Resting]
    /\ UNCHANGED <<connection, raced, videos>>

SaveColumn(row) ==
    /\ feedConfig' = row
    /\ UNCHANGED <<settingsCall, connection, raced, videos>>

UploadCoverArtAPI == SaveColumn([feedConfig EXCEPT !.cover_art_url = "uploaded"])

\* The feed view points the address at itself, as often as a rebuild points it away.
ShowPodcastFeedView == SaveColumn([feedConfig EXCEPT !.feed_public_url = "app"])

----------------------------------------------------------------------------
(* YouTube.                                                                *)

\* A new connection, and whether a call goes on with an older copy of the row.
Connect(token) ==
    /\ connection' = token
    /\ raced' = (\E r \in SettingsCalls : settingsCall'[r].doing \in {"saving", "fetching"})
    /\ UNCHANGED videos

\* Google comes back with a code. The row is loaded, of which the token is used later ...
YoutubeOAuthCallbackView(r) ==
    /\ settingsCall[r] = Resting
    /\ settingsCall' = [settingsCall EXCEPT ![r] = [doing |-> "fetching",
                                                   with |-> feedConfig.youtube_refresh_token]]
    /\ UNCHANGED <<feedConfig, connection, raced, videos>>

\* ... the code is exchanged, and the token saved by itself: the one that Google gives,
\* or the one of the copy when Google, who gave one before, gives none ...
SaveToken(r, given) ==
    LET token == IF given # Unset THEN given ELSE settingsCall[r].with
    IN  /\ settingsCall[r].doing = "fetching"
        /\ feedConfig' = [feedConfig EXCEPT !.youtube_refresh_token = token]
        /\ settingsCall' = [settingsCall EXCEPT ![r] =
                             IF token = Unset THEN Resting ELSE [doing |-> "asking", with |-> token]]
        /\ \/ given # Unset /\ Connect(given)
           \/ given = Unset /\ UNCHANGED <<connection, raced, videos>>

\* ... and then the channel that belongs to it, or none, if Google tells.
fetch_channel_info(r) ==
    /\ settingsCall[r].doing = "asking"
    /\ \E channel \in {settingsCall[r].with, Unset} :
         feedConfig' = [feedConfig EXCEPT !.youtube_channel = channel]
    /\ settingsCall' = [settingsCall EXCEPT ![r] = Resting]
    /\ UNCHANGED <<connection, raced, videos>>

\* Defect: the token stays.
YoutubeDisconnectView_Channel ==
    /\ feedConfig' = [feedConfig EXCEPT !.youtube_channel = Unset]
    /\ UNCHANGED settingsCall
    /\ Connect(Unset)

YoutubeDisconnectView ==
    /\ feedConfig' = [feedConfig EXCEPT !.youtube_refresh_token = Unset, !.youtube_channel = Unset]
    /\ UNCHANGED settingsCall
    /\ Connect(Unset)

\* The video is uploaded; then the publish tab names a platform that the constants do not
\* have and raises, so no row tells of it and a retry uploads it again.
upload_episode_to_youtube ==
    /\ feedConfig.youtube_refresh_token # Unset
    /\ videos < MaxVideos
    /\ videos' = videos + 1
    /\ UNCHANGED <<feedConfig, settingsCall, connection, raced>>

\* A process ends, or Spaces or Google do not answer.
CallFails(r) ==
    /\ settingsCall[r] # Resting
    /\ settingsCall' = [settingsCall EXCEPT ![r] = Resting]
    /\ UNCHANGED <<feedConfig, connection, raced, videos>>

----------------------------------------------------------------------------
SettingsNext ==
    \/ \E r \in SettingsCalls :
         \/ build_and_publish_feed(r) \/ SaveConfig(r) \/ fetch_channel_info(r) \/ CallFails(r)
         \/ \E title \in Titles : PodcastFeedConfigAPI(r, title) \/ ShowUpdateView(r, title)
         \/ YoutubeOAuthCallbackView(r)
         \/ \E given \in Tokens \cup {Unset} : SaveToken(r, given)
    \/ UploadCoverArtAPI \/ ShowPodcastFeedView \/ YoutubeDisconnectView
    \/ upload_episode_to_youtube

SettingsSpec == SettingsInit /\ [][SettingsNext]_settingsVars

----------------------------------------------------------------------------
(* Properties.                                                             *)

SettingsTypeOK ==
    /\ feedConfig \in PodcastFeedConfig
    /\ \A r \in SettingsCalls : settingsCall[r].with \in PodcastFeedConfig \cup Tokens \cup {Unset}
    /\ connection \in Tokens \cup {Unset}
    /\ videos \in 0..MaxVideos

\* The YouTube token is what the last connect or disconnect left, unless a rebuild of the
\* feed, an edit of the settings or a callback of another connect held an older copy of
\* the row at the time.
TokenIsLast == feedConfig.youtube_refresh_token = connection \/ raced
=============================================================================
