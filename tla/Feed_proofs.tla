----------------------------- MODULE Feed_proofs -----------------------------
(***************************************************************************)
(* Proofs about the podcast feed and its settings, for any number of       *)
(* episodes, platforms and overlapping calls.                              *)
(*                                                                         *)
(* Part 1: after a publication that none overlapped, the platforms agree,  *)
(* because such a publication is alone with its episode from its first row *)
(* to its last (Alone).  Part 2: an episode leaves the uploaded feed only  *)
(* with a list that was overtaken, because the rows only ever put episodes *)
(* into the feed: whoever lists later lists at least as much (Later).      *)
(* Part 3: the YouTube token is the last one, unless a copy of the row was *)
(* out when it changed.                                                    *)
(***************************************************************************)
EXTENDS PodcastFeed, FeedSettings, TLAPS

----------------------------------------------------------------------------
(* Part 1.  Publications.                                                  *)

\* The fields of a call; which platforms are left, and the list, may be anything.
CallType(call) ==
    call \in [doing : {"idle", "publishing", "rebuilding", "uploading"},
              episode : FeedEpisodes \cup {Nothing}, audio : Audios \cup {Nothing},
              todo : {call.todo}, list : {call.list}, overtaken : BOOLEAN, clean : BOOLEAN]

CallsTyped ==
    /\ feedCall = [r \in FeedCalls |-> feedCall[r]]
    /\ \A r \in FeedCalls :
         /\ CallType(feedCall[r])
         /\ feedCall[r].doing = "publishing" =>
              feedCall[r].episode \in FeedEpisodes /\ feedCall[r].audio \in Audios

\* The row that a publication writes.
Written(a) == [status |-> "submitted", audio_public_url |-> a]

\* A publication has written the rows of all platforms that it has not yet to write.
Wrote(call, rows) ==
    /\ call.todo \in Seq(STRING) /\ call.todo # <<>>
    /\ \A p \in Range(Platforms) :
         p \in Range(call.todo) \/ rows[call.episode][p] = Written(call.audio)

\* One that has been alone since its start is alone; and no episode is settled while
\* somebody publishes it.
Alone ==
    \A e \in FeedEpisodes : \A r \in Publishing(e) :
        /\ e \notin settled
        /\ feedCall[r].clean => Publishing(e) = {r} /\ Wrote(feedCall[r], dist)

PublishInv == FeedTypeOK /\ CallsTyped /\ Alone /\ PlatformsAgree

LEMMA HeadAndTail ==
    ASSUME NEW s \in Seq(STRING), s # <<>>
    PROVE  /\ Tail(s) \in Seq(STRING)
           /\ \A p \in Range(s) : p = Head(s) \/ p \in Range(Tail(s))
<1>1. Tail(s) \in Seq(STRING)
  OBVIOUS
<1>2. ASSUME NEW i \in DOMAIN s PROVE s[i] = Head(s) \/ s[i] \in Range(Tail(s))
  <2>1. CASE i = 1
    BY <2>1
  <2>2. CASE i # 1
    <3>1. i - 1 \in DOMAIN Tail(s) /\ Tail(s)[i - 1] = s[i]
      BY <2>2
    <3> QED
      BY <3>1 DEF Range
  <2> QED
    BY <2>1, <2>2
<1> QED
  BY <1>1, <1>2 DEF Range

LEMMA WrittenType ==
    ASSUME NEW a \in Audios
    PROVE  /\ Written(a) \in PodcastDistribution
           /\ Written(a).status = "submitted" /\ Written(a).audio_public_url = a
           /\ a # Nothing
BY FeedConstants DEF Written, PodcastDistribution

LEMMA IdleType == CallType(FeedIdle) /\ FeedIdle.doing = "idle"
BY DEF CallType, FeedIdle

LEMMA RangeOfPlatforms == Platforms \in Seq(STRING) /\ Platforms # <<>>
BY FeedConstants

\* A step that begins no publication and writes no row keeps them alone.
LEMMA PublishKept ==
    ASSUME PublishInv, UNCHANGED <<dist, settled>>, CallsTyped',
           \A q \in FeedCalls : feedCall'[q].doing = "publishing" =>
               /\ feedCall[q].doing = "publishing"
               /\ feedCall'[q].episode = feedCall[q].episode
               /\ feedCall'[q].audio = feedCall[q].audio
               /\ feedCall'[q].todo = feedCall[q].todo
               /\ feedCall'[q].clean = feedCall[q].clean
    PROVE  PublishInv'
<1>1. FeedTypeOK'
  BY DEF PublishInv, FeedTypeOK
<1>2. PlatformsAgree'
  BY DEF PublishInv, PlatformsAgree, InFeed
<1>3. Alone'
  <2>1. \A e \in FeedEpisodes : Publishing(e)' \subseteq Publishing(e)
    BY DEF Publishing
  <2> SUFFICES ASSUME NEW e \in FeedEpisodes, NEW r \in Publishing(e)'
               PROVE  /\ e \notin settled'
                      /\ feedCall'[r].clean => Publishing(e)' = {r} /\ Wrote(feedCall'[r], dist')
    BY DEF Alone
  <2>2. /\ r \in Publishing(e) /\ r \in FeedCalls
        /\ feedCall'[r].doing = "publishing"
    BY <2>1 DEF Publishing
  <2>3. /\ e \notin settled
        /\ feedCall[r].clean => Publishing(e) = {r} /\ Wrote(feedCall[r], dist)
    BY <2>2 DEF PublishInv, Alone
  <2>4. Wrote(feedCall[r], dist) => Wrote(feedCall'[r], dist')
    BY <2>2 DEF Wrote
  <2> QED
    BY <2>1, <2>2, <2>3, <2>4
<1> QED
  BY <1>1, <1>2, <1>3 DEF PublishInv

LEMMA PublishStep ==
    ASSUME PublishInv, NEW r \in FeedCalls, NEW e \in FeedEpisodes, NEW a \in Audios,
           NEW platforms, Publish(r, e, a, platforms)
    PROVE  PublishInv'
<1> DEFINE call == [FeedIdle EXCEPT !.doing = "publishing", !.episode = e, !.audio = a,
                                    !.todo = platforms,
                                    !.clean = platforms = Platforms /\ Publishing(e) = {}]
<1>0. FeedTypeOK /\ CallsTyped /\ Alone /\ PlatformsAgree
  BY DEF PublishInv
<1>1. /\ feedCall[r].doing = "idle"
      /\ feedCall' = [q \in FeedCalls |->
           IF q = r THEN call
           ELSE IF q \in Publishing(e) THEN [feedCall[q] EXCEPT !.clean = FALSE] ELSE feedCall[q]]
      /\ settled' = settled \ {e} /\ UNCHANGED dist
  BY IdleType DEF Publish
<1>2. /\ CallType(call) /\ call.doing = "publishing" /\ call.episode = e /\ call.audio = a
      /\ call.todo = platforms /\ call.clean = (platforms = Platforms /\ Publishing(e) = {})
  BY DEF CallType, FeedIdle
<1> HIDE DEF call
<1>3. \A q \in FeedCalls : q \in Publishing(e) =>
        LET new == [feedCall[q] EXCEPT !.clean = FALSE]
        IN  /\ CallType(new) /\ ~new.clean /\ new.doing = "publishing" /\ new.episode = e
            /\ new.audio = feedCall[q].audio
  BY <1>0 DEF CallsTyped, CallType, Publishing
<1>4. \A q \in FeedCalls :
        \/ q = r /\ feedCall'[q] = call
        \/ /\ q # r /\ q \in Publishing(e) /\ CallType(feedCall'[q]) /\ ~feedCall'[q].clean
           /\ feedCall'[q].doing = "publishing" /\ feedCall'[q].episode = e
           /\ feedCall'[q].audio = feedCall[q].audio
        \/ q # r /\ q \notin Publishing(e) /\ feedCall'[q] = feedCall[q]
  BY <1>1, <1>3
<1>5. CallsTyped'
  BY <1>0, <1>1, <1>2, <1>4 DEF CallsTyped, Publishing
<1>6. Alone'
  <2> SUFFICES ASSUME NEW d \in FeedEpisodes, NEW q \in Publishing(d)'
               PROVE  /\ d \notin settled'
                      /\ feedCall'[q].clean => Publishing(d)' = {q} /\ Wrote(feedCall'[q], dist')
    BY DEF Alone
  <2>0. q \in FeedCalls /\ feedCall'[q].doing = "publishing" /\ feedCall'[q].episode = d
    BY DEF Publishing
  <2>1. CASE q = r
    <3>1. ASSUME call.clean PROVE Publishing(e)' = {r}
      BY <1>1, <1>2, <1>4, <3>1 DEF Publishing
    <3>2. ASSUME call.clean PROVE Wrote(call, dist)
      BY <1>2, <3>2, RangeOfPlatforms DEF Wrote
    <3> QED
      BY <1>1, <1>2, <1>4, <2>0, <2>1, <3>1, <3>2
  <2>2. CASE q # r /\ q \in Publishing(e)
    <3>1. ~feedCall'[q].clean /\ feedCall'[q].episode = e
      BY <1>4, <2>0, <2>2
    <3> QED
      BY <1>1, <2>0, <3>1
  <2>3. CASE q # r /\ q \notin Publishing(e)
    <3>1. feedCall'[q] = feedCall[q] /\ d # e /\ q \in Publishing(d)
      BY <1>4, <2>0, <2>3 DEF Publishing
    <3>2. Publishing(d)' = Publishing(d)
      BY <1>1, <1>2, <1>4, <3>1 DEF Publishing
    <3> QED
      BY <1>0, <1>1, <3>1, <3>2 DEF Alone
  <2> QED
    BY <2>1, <2>2, <2>3
<1>7. FeedTypeOK' /\ PlatformsAgree'
  BY <1>0, <1>1 DEF FeedTypeOK, PlatformsAgree, InFeed
<1> QED
  BY <1>5, <1>6, <1>7 DEF PublishInv

\* What the write of a platform's row does to the table.
LEMMA RowWritten ==
    ASSUME FeedTypeOK, NEW e \in FeedEpisodes, NEW p, NEW a \in Audios,
           dist' = [dist EXCEPT ![e][p] = update_or_create(dist[e][p], a)]
    PROVE  /\ dist' \in [FeedEpisodes -> [Range(Platforms) -> PodcastDistribution]]
           /\ \A d \in FeedEpisodes : d # e => dist'[d] = dist[d]
           /\ \A q \in Range(Platforms) :
                dist'[e][q] = IF q = p THEN Written(a) ELSE dist[e][q]
<1>1. dist' = [dist EXCEPT ![e] = [dist[e] EXCEPT ![p] = Written(a)]]
  BY DEF update_or_create, Written
<1>2. Written(a) \in PodcastDistribution
  BY WrittenType
<1>3. [dist[e] EXCEPT ![p] = Written(a)] \in [Range(Platforms) -> PodcastDistribution]
  BY <1>2 DEF FeedTypeOK
<1> QED
  BY <1>1, <1>3 DEF FeedTypeOK

LEMMA UpsertStep ==
    ASSUME PublishInv, NEW r \in FeedCalls, UpsertPlatform(r)
    PROVE  PublishInv'
<1>0. FeedTypeOK /\ CallsTyped /\ Alone /\ PlatformsAgree
  BY DEF PublishInv
<1>a. PICK e \in FeedEpisodes, a \in Audios : feedCall[r].episode = e /\ feedCall[r].audio = a
  BY <1>0 DEF UpsertPlatform, CallsTyped
<1> DEFINE p == Head(feedCall[r].todo)
           rest == Tail(feedCall[r].todo)
<1>1. /\ feedCall[r].doing = "publishing"
      /\ e \notin settled /\ r \in Publishing(e)
      /\ dist' = [dist EXCEPT ![e][p] = update_or_create(dist[e][p], a)]
  BY <1>0, <1>a DEF UpsertPlatform, Alone, Publishing
<1>2. /\ dist' \in [FeedEpisodes -> [Range(Platforms) -> PodcastDistribution]]
      /\ \A d \in FeedEpisodes : d # e => dist'[d] = dist[d]
      /\ \A q \in Range(Platforms) : dist'[e][q] = IF q = p THEN Written(a) ELSE dist[e][q]
  BY <1>0, <1>1, RowWritten
<1>3. ASSUME feedCall[r].clean
      PROVE  /\ rest \in Seq(STRING) /\ Publishing(e) = {r}
             /\ \A q \in Range(Platforms) : q \in Range(rest) \/ dist'[e][q] = Written(a)
  <2>1. Publishing(e) = {r} /\ Wrote(feedCall[r], dist)
    BY <1>0, <1>1, <1>3 DEF Alone
  <2> QED
    BY <1>a, <1>2, <2>1, HeadAndTail DEF Wrote
<1>4. ASSUME NEW d \in FeedEpisodes, NEW q \in Publishing(d), q # r, feedCall[q].clean
      PROVE  d # e /\ Publishing(d) = {q} /\ Wrote(feedCall[q], dist')
  <2>1. Publishing(d) = {q} /\ Wrote(feedCall[q], dist) /\ feedCall[q].episode = d
    BY <1>0, <1>4 DEF Alone, Publishing
  <2>2. d # e
    BY <1>1, <1>4, <2>1
  <2> QED
    BY <1>2, <2>1, <2>2 DEF Wrote
<1>5. \A d \in settled : /\ d \in FeedEpisodes /\ dist'[d] = dist[d]
                         /\ \E b \in Audios : \A q \in Range(Platforms) :
                              q \in InFeed(d)' /\ dist'[d][q].audio_public_url = b
  <2> SUFFICES ASSUME NEW d \in settled
               PROVE  /\ d \in FeedEpisodes /\ dist'[d] = dist[d]
                      /\ \E b \in Audios : \A q \in Range(Platforms) :
                           q \in InFeed(d)' /\ dist'[d][q].audio_public_url = b
    OBVIOUS
  <2>1. d \in FeedEpisodes /\ d # e
    BY <1>0, <1>1 DEF FeedTypeOK
  <2>2. dist'[d] = dist[d]
    BY <1>2, <2>1
  <2>3. \E b \in Audios : \A q \in Range(Platforms) :
           q \in InFeed(d) /\ dist[d][q].audio_public_url = b
    BY <1>0 DEF PlatformsAgree
  <2>4. InFeed(d)' = InFeed(d)
    BY <2>2 DEF InFeed
  <2> QED
    BY <2>1, <2>2, <2>3, <2>4
<1>6. CASE rest # <<>>
  <2> DEFINE call == [feedCall[r] EXCEPT !.todo = rest]
  <2>1. feedCall' = [feedCall EXCEPT ![r] = call] /\ UNCHANGED settled
    BY <1>6 DEF UpsertPlatform
  <2>2. /\ CallType(call) /\ call.doing = "publishing" /\ call.episode = e /\ call.audio = a
        /\ call.todo = rest /\ call.clean = feedCall[r].clean
    BY <1>0, <1>a, <1>1 DEF CallsTyped, CallType
  <2> HIDE DEF call
  <2>3. feedCall'[r] = call /\ \A q \in FeedCalls : q # r => feedCall'[q] = feedCall[q]
    BY <1>0, <2>1 DEF CallsTyped
  <2>4. CallsTyped'
    BY <1>0, <1>1, <2>1, <2>2, <2>3 DEF CallsTyped
  <2>5. \A d \in FeedEpisodes : Publishing(d)' = Publishing(d)
    BY <1>a, <1>1, <2>2, <2>3 DEF Publishing
  <2>6. Alone'
    <3> SUFFICES ASSUME NEW d \in FeedEpisodes, NEW q \in Publishing(d)
                 PROVE  /\ d \notin settled
                        /\ feedCall'[q].clean => Publishing(d) = {q} /\ Wrote(feedCall'[q], dist')
      BY <2>1, <2>5 DEF Alone
    <3>1. d \notin settled
      BY <1>0 DEF Alone
    <3>2. CASE q = r
      <4>1. d = e
        BY <1>a, <3>2 DEF Publishing
      <4>2. call.clean => Wrote(call, dist')
        BY <1>3, <1>6, <2>2 DEF Wrote
      <4> QED
        BY <1>3, <2>2, <2>3, <3>1, <3>2, <4>1, <4>2
    <3>3. CASE q # r
      <4>1. feedCall'[q] = feedCall[q]
        BY <2>3, <3>3 DEF Publishing
      <4> QED
        BY <1>4, <3>1, <3>3, <4>1
    <3> QED
      BY <3>2, <3>3
  <2>7. FeedTypeOK' /\ PlatformsAgree'
    BY <1>0, <1>2, <1>5, <2>1 DEF FeedTypeOK, PlatformsAgree
  <2> QED
    BY <2>4, <2>6, <2>7 DEF PublishInv
<1>7. CASE rest = <<>>
  <2>1. PICK next \in {"idle", "rebuilding"} :
          feedCall' = [feedCall EXCEPT ![r] = [FeedIdle EXCEPT !.doing = next]]
    BY <1>7 DEF UpsertPlatform
  <2>2. settled' = IF feedCall[r].clean THEN settled \cup {e} ELSE settled
    BY <1>a, <1>7 DEF UpsertPlatform
  <2> DEFINE call == [FeedIdle EXCEPT !.doing = next]
  <2>3. CallType(call) /\ call.doing # "publishing"
    BY DEF CallType, FeedIdle
  <2> HIDE DEF call
  <2>4. feedCall'[r] = call /\ \A q \in FeedCalls : q # r => feedCall'[q] = feedCall[q]
    BY <1>0, <2>1 DEF CallsTyped, call
  <2>5. CallsTyped'
    BY <1>0, <2>1, <2>3, <2>4 DEF CallsTyped, call
  <2>6. \A d \in FeedEpisodes : Publishing(d)' = Publishing(d) \ {r}
    BY <2>3, <2>4 DEF Publishing
  <2>7. Alone'
    <3> SUFFICES ASSUME NEW d \in FeedEpisodes, NEW q \in Publishing(d), q # r
                 PROVE  /\ d \notin settled'
                        /\ feedCall'[q].clean =>
                             Publishing(d) \ {r} = {q} /\ Wrote(feedCall'[q], dist')
      BY <2>6 DEF Alone
    <3>1. feedCall'[q] = feedCall[q]
      BY <2>4 DEF Publishing
    <3>2. feedCall[r].clean => d # e
      BY <1>3
    <3>3. d \notin settled
      BY <1>0 DEF Alone
    <3> QED
      BY <1>4, <2>2, <3>1, <3>2, <3>3
  <2>8. FeedTypeOK'
    BY <1>0, <1>2, <2>2 DEF FeedTypeOK
  <2>9. PlatformsAgree'
    <3>1. ASSUME feedCall[r].clean, NEW q \in Range(Platforms)
          PROVE  q \in InFeed(e)' /\ dist'[e][q].audio_public_url = a
      <4>1. q \notin Range(rest)
        BY <1>7 DEF Range
      <4>2. dist'[e][q] = Written(a)
        BY <1>3, <3>1, <4>1
      <4> QED
        BY <4>2, WrittenType DEF InFeed
    <3> QED
      BY <1>5, <2>2, <3>1 DEF PlatformsAgree
  <2> QED
    BY <2>5, <2>7, <2>8, <2>9 DEF PublishInv
<1> QED
  BY <1>6, <1>7

LEMMA RebuildKeeps ==
    ASSUME PublishInv, NEW r \in FeedCalls,
           RebuildPodcastFeedAPI(r) \/ _build_rss_feed(r) \/ UploadFeed(r) \/ CallEnds(r)
    PROVE  PublishInv'
<1>0. CallsTyped
  BY DEF PublishInv
<1>1. ASSUME NEW call, CallType(call), call.doing # "publishing",
             feedCall' = [feedCall EXCEPT ![r] = call], UNCHANGED <<dist, settled>>
      PROVE  PublishInv'
  <2>1. feedCall'[r] = call /\ \A q \in FeedCalls : q # r => feedCall'[q] = feedCall[q]
    BY <1>0, <1>1 DEF CallsTyped
  <2>2. CallsTyped'
    BY <1>0, <1>1, <2>1 DEF CallsTyped
  <2> QED
    BY <1>1, <2>1, <2>2, PublishKept
<1>2. CASE RebuildPodcastFeedAPI(r)
  <2> DEFINE call == [feedCall[r] EXCEPT !.doing = "rebuilding"]
  <2>1. CallType(call) /\ call.doing # "publishing"
    BY <1>0 DEF CallsTyped, CallType
  <2>2. feedCall' = [feedCall EXCEPT ![r] = call] /\ UNCHANGED <<dist, settled>>
    BY <1>2 DEF RebuildPodcastFeedAPI
  <2> QED
    BY <1>1, <2>1, <2>2
<1>3. CASE _build_rss_feed(r)
  <2>1. PICK list \in FeedEntries :
          feedCall' = [feedCall EXCEPT ![r].doing = "uploading", ![r].list = list]
    BY <1>3 DEF _build_rss_feed
  <2> DEFINE call == [feedCall[r] EXCEPT !.doing = "uploading", !.list = list]
  <2>2. CallType(call) /\ call.doing # "publishing"
    BY <1>0 DEF CallsTyped, CallType
  <2>3. feedCall' = [feedCall EXCEPT ![r] = call] /\ UNCHANGED <<dist, settled>>
    BY <1>0, <1>3, <2>1 DEF _build_rss_feed, CallsTyped
  <2> QED
    BY <1>1, <2>2, <2>3
<1>4. CASE UploadFeed(r)
  <2>1. \A q \in FeedCalls : \/ feedCall'[q] = FeedIdle
                             \/ feedCall'[q] = feedCall[q]
                             \/ feedCall'[q] = [feedCall[q] EXCEPT !.overtaken = TRUE]
    BY <1>4 DEF UploadFeed
  <2>2. feedCall' = [q \in FeedCalls |-> feedCall'[q]] /\ UNCHANGED <<dist, settled>>
    BY <1>4 DEF UploadFeed
  <2>3. \A q \in FeedCalls :
          LET new == [feedCall[q] EXCEPT !.overtaken = TRUE]
          IN  /\ CallType(new) /\ new.doing = feedCall[q].doing /\ new.episode = feedCall[q].episode
              /\ new.audio = feedCall[q].audio /\ new.todo = feedCall[q].todo
              /\ new.clean = feedCall[q].clean
    BY <1>0 DEF CallsTyped, CallType
  <2>4. \A q \in FeedCalls :
          /\ CallType(feedCall'[q])
          /\ feedCall'[q].doing = "publishing" =>
               /\ feedCall[q].doing = "publishing"
               /\ feedCall'[q].episode = feedCall[q].episode
               /\ feedCall'[q].audio = feedCall[q].audio
               /\ feedCall'[q].todo = feedCall[q].todo
               /\ feedCall'[q].clean = feedCall[q].clean
    BY ZenonT(30), <1>0, <2>1, <2>3, IdleType DEF CallsTyped
  <2>5. CallsTyped'
    BY <1>0, <2>2, <2>4 DEF CallsTyped
  <2> QED
    BY <2>2, <2>4, <2>5, PublishKept
<1>5. CASE CallEnds(r)
  BY <1>1, <1>5, IdleType DEF CallEnds
<1> QED
  BY <1>2, <1>3, <1>4, <1>5

LEMMA PublishInvariance ==
    /\ FeedInit => PublishInv
    /\ PublishInv /\ [FeedNext]_feedVars => PublishInv'
<1>1. FeedInit => PublishInv
  <2> SUFFICES ASSUME FeedInit PROVE PublishInv
    OBVIOUS
  <2>1. CallsTyped /\ \A r \in FeedCalls : feedCall[r].doing = "idle"
    BY IdleType DEF FeedInit, CallsTyped
  <2>2. NoDist \in PodcastDistribution
    BY DEF NoDist, PodcastDistribution
  <2>3. FeedTypeOK
    BY <2>2 DEF FeedInit, FeedTypeOK
  <2> QED
    BY <2>1, <2>3 DEF FeedInit, PublishInv, Alone, Publishing, PlatformsAgree
<1>2. ASSUME PublishInv, [FeedNext]_feedVars PROVE PublishInv'
  <2>1. ASSUME NEW r \in FeedCalls, NEW e \in FeedEpisodes, NEW a \in Audios,
               \/ publish_episode_audio(r, e, a)
               \/ \E ticked \in SUBSET Range(Platforms) : publish_audio_from_asset(r, e, a, ticked)
               \/ fix_feed(r, e, a)
        PROVE  PublishInv'
    <3>1. \E platforms : Publish(r, e, a, platforms)
      BY <2>1 DEF publish_episode_audio, publish_audio_from_asset, fix_feed
    <3> QED
      BY <1>2, <3>1, PublishStep
  <2>2. CASE UNCHANGED feedVars
    <3>1. CallsTyped' /\ UNCHANGED <<dist, settled, feedCall>>
      BY <1>2, <2>2 DEF feedVars, PublishInv, CallsTyped
    <3> QED
      BY <1>2, <3>1, PublishKept
  <2> QED
    BY <1>2, <2>1, <2>2, UpsertStep, RebuildKeeps DEF FeedNext
<1> QED
  BY <1>1, <1>2

\* After a publication for all platforms that none of the same episode overlapped, all
\* platforms have its audio.
THEOREM PlatformsAlike == FeedSpec => []PlatformsAgree
<1>1. PublishInv => PlatformsAgree
  BY DEF PublishInv
<1> QED
  BY <1>1, PublishInvariance, PTL DEF FeedSpec

----------------------------------------------------------------------------
(* Part 2.  Lists.                                                         *)

Published == {e \in FeedEpisodes : InFeed(e) # {}}

Uploading(r) == feedCall[r].doing = "uploading"

Lists(r) == DOMAIN feedCall[r].list

\* Nothing is listed that is not published; whoever did not list before another one lists
\* what that one does; and whoever is not overtaken lists what the uploaded feed does.
Later ==
    /\ DOMAIN listed \subseteq Published
    /\ \A r \in FeedCalls : Uploading(r) =>
         /\ Lists(r) \subseteq Published
         /\ feedCall[r].overtaken \/ DOMAIN listed \subseteq Lists(r)
         /\ \A q \in FeedCalls : Uploading(q) /\ <<r, q>> \notin ahead => Lists(q) \subseteq Lists(r)

\* Only the uploads and the new lists matter.
LEMMA LaterKept ==
    ASSUME Later, Published \subseteq Published', UNCHANGED listed,
           \A r \in FeedCalls : Uploading(r)' => feedCall'[r] = feedCall[r],
           \A q, r \in FeedCalls : Uploading(q)' /\ Uploading(r)' /\ <<r, q>> \in ahead =>
               <<r, q>> \in ahead'
    PROVE  Later'
<1>1. \A r \in FeedCalls : Uploading(r)' => Uploading(r) /\ Lists(r)' = Lists(r)
  BY DEF Uploading, Lists
<1>2. DOMAIN listed' \subseteq Published'
  BY DEF Later
<1>3. ASSUME NEW r \in FeedCalls, Uploading(r)'
      PROVE  /\ Lists(r)' \subseteq Published'
             /\ feedCall'[r].overtaken \/ DOMAIN listed' \subseteq Lists(r)'
             /\ \A q \in FeedCalls : Uploading(q)' /\ <<r, q>> \notin ahead' =>
                  Lists(q)' \subseteq Lists(r)'
  <2>1. /\ Lists(r) \subseteq Published
        /\ feedCall[r].overtaken \/ DOMAIN listed \subseteq Lists(r)
        /\ \A q \in FeedCalls : Uploading(q) /\ <<r, q>> \notin ahead => Lists(q) \subseteq Lists(r)
    BY <1>1, <1>3 DEF Later
  <2>2. feedCall'[r] = feedCall[r] /\ Lists(r)' = Lists(r)
    BY <1>1, <1>3
  <2> QED
    BY <1>1, <1>3, <2>1, <2>2
<1> QED
  BY <1>2, <1>3 DEF Later

\* The rows only ever put episodes into the feed.
LEMMA PublishedGrows ==
    ASSUME PublishInv, NEW r \in FeedCalls, UpsertPlatform(r)
    PROVE  Published \subseteq Published'
<1>0. FeedTypeOK /\ CallsTyped
  BY DEF PublishInv
<1>1. PICK e \in FeedEpisodes, a \in Audios : feedCall[r].episode = e /\ feedCall[r].audio = a
  BY <1>0 DEF UpsertPlatform, CallsTyped
<1>2. dist' = [dist EXCEPT ![e][Head(feedCall[r].todo)] =
                 update_or_create(dist[e][Head(feedCall[r].todo)], a)]
  BY <1>1 DEF UpsertPlatform
<1> DEFINE p == Head(feedCall[r].todo)
<1>3. /\ \A d \in FeedEpisodes : d # e => dist'[d] = dist[d]
      /\ \A q \in Range(Platforms) : dist'[e][q] = IF q = p THEN Written(a) ELSE dist[e][q]
  BY <1>0, <1>2, RowWritten
<1> HIDE DEF p
<1>4. \A d \in FeedEpisodes : InFeed(d) \subseteq InFeed(d)'
  <2>1. ASSUME NEW d \in FeedEpisodes, NEW q \in Range(Platforms)
        PROVE  dist'[d][q] = dist[d][q] \/ dist'[d][q] = Written(a)
    BY <1>3
  <2> QED
    BY <2>1, WrittenType DEF InFeed
<1> QED
  BY <1>4 DEF Published

LEMMA LaterStep ==
    ASSUME PublishInv, Later, [FeedNext]_feedVars
    PROVE  Later'
<1>0. CallsTyped
  BY DEF PublishInv
<1>1. ASSUME NEW r \in FeedCalls, NEW e \in FeedEpisodes, NEW a \in Audios, NEW platforms,
             Publish(r, e, a, platforms)
      PROVE  Later'
  <2>1. UNCHANGED <<dist, listed, ahead>>
    BY <1>1 DEF Publish
  <2>2. \A q \in FeedCalls : Uploading(q)' => feedCall'[q] = feedCall[q]
    <3>1. \A q \in FeedCalls : q \in Publishing(e) =>
            [feedCall[q] EXCEPT !.clean = FALSE].doing = "publishing"
      BY <1>0 DEF CallsTyped, CallType, Publishing
    <3> QED
      BY <1>1, <3>1 DEF Publish, Uploading, FeedIdle
  <2>3. Published' = Published
    BY <2>1 DEF Published, InFeed
  <2> QED
    BY <2>1, <2>2, <2>3, LaterKept
<1>2. ASSUME NEW r \in FeedCalls, UpsertPlatform(r) PROVE Later'
  <2>1. UNCHANGED <<listed, ahead>>
    BY <1>2 DEF UpsertPlatform
  <2>2. \A q \in FeedCalls : Uploading(q)' => feedCall'[q] = feedCall[q]
    <3>1. \A q \in FeedCalls : q # r => feedCall'[q] = feedCall[q]
      BY <1>0, <1>2 DEF UpsertPlatform, CallsTyped
    <3>2. ~Uploading(r)'
      <4>1. \/ feedCall' = [feedCall EXCEPT ![r].todo = Tail(feedCall[r].todo)]
            \/ \E next \in {"idle", "rebuilding"} :
                 feedCall' = [feedCall EXCEPT ![r] = [FeedIdle EXCEPT !.doing = next]]
        BY <1>2 DEF UpsertPlatform
      <4>2. feedCall[r].doing = "publishing" /\ CallType(feedCall[r])
        BY <1>0, <1>2 DEF UpsertPlatform, CallsTyped
      <4>3. CASE feedCall' = [feedCall EXCEPT ![r].todo = Tail(feedCall[r].todo)]
        BY <1>0, <4>2, <4>3 DEF CallsTyped, CallType, Uploading
      <4>4. ASSUME NEW next \in {"idle", "rebuilding"},
                   feedCall' = [feedCall EXCEPT ![r] = [FeedIdle EXCEPT !.doing = next]]
            PROVE  ~Uploading(r)'
        <5>1. feedCall'[r] = [FeedIdle EXCEPT !.doing = next]
          BY <1>0, <4>4 DEF CallsTyped
        <5> QED
          BY <5>1 DEF Uploading, FeedIdle
      <4> QED
        BY <4>1, <4>3, <4>4
    <3> QED
      BY <3>1, <3>2
  <2> QED
    BY <1>2, <2>1, <2>2, LaterKept, PublishedGrows
<1>3. ASSUME NEW r \in FeedCalls, RebuildPodcastFeedAPI(r) PROVE Later'
  <2>1. UNCHANGED <<dist, listed, ahead>>
        /\ feedCall' = [feedCall EXCEPT ![r].doing = "rebuilding"]
    BY <1>3 DEF RebuildPodcastFeedAPI
  <2>2. \A q \in FeedCalls : Uploading(q)' => feedCall'[q] = feedCall[q]
    BY <1>0, <2>1 DEF CallsTyped, CallType, Uploading
  <2>3. Published' = Published
    BY <2>1 DEF Published, InFeed
  <2> QED
    BY <2>1, <2>2, <2>3, LaterKept
<1>4. ASSUME NEW r \in FeedCalls, _build_rss_feed(r) PROVE Later'
  <2>1. PICK list \in FeedEntries :
          feedCall' = [feedCall EXCEPT ![r].doing = "uploading", ![r].list = list]
    BY <1>4 DEF _build_rss_feed
  <2>2. DOMAIN list = Published
    BY DEF FeedEntries, Published
  <2>3. /\ UNCHANGED <<dist, listed>> /\ ~Uploading(r)
        /\ ahead' = ahead \cup {<<q, r>> : q \in {k \in FeedCalls : feedCall[k].doing = "uploading"}}
    BY <1>4 DEF _build_rss_feed, Uploading
  <2>4. Published' = Published
    BY <2>3 DEF Published, InFeed
  <2>5. Lists(r)' = Published /\ \A q \in FeedCalls : q # r => feedCall'[q] = feedCall[q]
    BY <1>0, <2>1, <2>2 DEF CallsTyped, CallType, Lists
  <2>6. \A q \in FeedCalls : q # r /\ Uploading(q)' =>
          Uploading(q) /\ Lists(q)' = Lists(q) /\ <<q, r>> \in ahead'
    BY <2>3, <2>5 DEF Uploading, Lists
  <2>7. DOMAIN listed' \subseteq Published'
    BY <2>3, <2>4 DEF Later
  <2>8. ASSUME NEW q \in FeedCalls, Uploading(q)'
        PROVE  /\ Lists(q)' \subseteq Published'
               /\ feedCall'[q].overtaken \/ DOMAIN listed' \subseteq Lists(q)'
               /\ \A k \in FeedCalls : Uploading(k)' /\ <<q, k>> \notin ahead' =>
                    Lists(k)' \subseteq Lists(q)'
    <3>1. \A k \in FeedCalls : Uploading(k)' => Lists(k)' \subseteq Published
      BY ZenonT(30), <2>5, <2>6 DEF Later
    <3>2. CASE q = r
      BY <2>4, <2>5, <2>7, <3>1, <3>2
    <3>3. CASE q # r
      <4>1. /\ Uploading(q) /\ Lists(q)' = Lists(q) /\ <<q, r>> \in ahead'
            /\ feedCall'[q] = feedCall[q]
        BY <2>5, <2>6, <2>8, <3>3
      <4>2. feedCall[q].overtaken \/ DOMAIN listed \subseteq Lists(q)
        BY <4>1 DEF Later
      <4>3. ASSUME NEW k \in FeedCalls, Uploading(k)', <<q, k>> \notin ahead'
            PROVE  Lists(k)' \subseteq Lists(q)
        <5>1. k # r
          BY <4>1, <4>3
        <5>2. Uploading(k) /\ Lists(k)' = Lists(k)
          BY <2>6, <4>3, <5>1
        <5>3. <<q, k>> \notin ahead
          BY <2>3, <4>3
        <5> QED
          BY <4>1, <5>2, <5>3 DEF Later
      <4> QED
        BY <2>3, <2>4, <2>8, <3>1, <4>1, <4>2, <4>3
    <3> QED
      BY <3>2, <3>3
  <2> QED
    BY <2>7, <2>8 DEF Later
<1>5. ASSUME NEW r \in FeedCalls, UploadFeed(r) PROVE Later'
  <2>1. /\ UNCHANGED dist /\ listed' = feedCall[r].list /\ ahead' = AheadWithout(r)
        /\ Uploading(r)
        /\ feedCall' = [q \in FeedCalls |->
             IF q = r THEN FeedIdle
             ELSE IF <<q, r>> \in ahead THEN [feedCall[q] EXCEPT !.overtaken = TRUE]
             ELSE feedCall[q]]
    BY <1>5 DEF UploadFeed, Uploading
  <2>2. Published' = Published
    BY <2>1 DEF Published, InFeed
  <2>3. \A q \in FeedCalls :
          LET new == [feedCall[q] EXCEPT !.overtaken = TRUE]
          IN  new.doing = feedCall[q].doing /\ new.list = feedCall[q].list /\ new.overtaken
    BY <1>0 DEF CallsTyped, CallType
  <2>4. \A q \in FeedCalls : Uploading(q)' =>
          /\ q # r /\ Uploading(q) /\ Lists(q)' = Lists(q)
          /\ <<q, r>> \in ahead => feedCall'[q].overtaken
    BY <2>1, <2>3, IdleType DEF Uploading, Lists
  <2>5. DOMAIN listed' = Lists(r)
    BY <2>1 DEF Lists
  <2>6. \A q, k \in FeedCalls : q # r /\ k # r /\ <<q, k>> \in ahead => <<q, k>> \in ahead'
    BY <2>1 DEF AheadWithout
  <2>7. DOMAIN listed' \subseteq Published'
    BY <2>1, <2>2, <2>5 DEF Later
  <2>8. ASSUME NEW q \in FeedCalls, Uploading(q)'
        PROVE  /\ Lists(q)' \subseteq Published'
               /\ feedCall'[q].overtaken \/ DOMAIN listed' \subseteq Lists(q)'
               /\ \A k \in FeedCalls : Uploading(k)' /\ <<q, k>> \notin ahead' =>
                    Lists(k)' \subseteq Lists(q)'
    <3>1. q # r /\ Uploading(q) /\ Lists(q)' = Lists(q)
      BY <2>4, <2>8
    <3>2. /\ Lists(q) \subseteq Published
          /\ \A k \in FeedCalls : Uploading(k) /\ <<q, k>> \notin ahead => Lists(k) \subseteq Lists(q)
      BY <3>1 DEF Later
    <3>3. feedCall'[q].overtaken \/ DOMAIN listed' \subseteq Lists(q)
      <4>1. CASE <<q, r>> \in ahead
        BY <2>4, <2>8, <4>1
      <4>2. CASE <<q, r>> \notin ahead
        BY <2>1, <2>5, <3>2, <4>2
      <4> QED
        BY <4>1, <4>2
    <3>4. \A k \in FeedCalls : Uploading(k)' /\ <<q, k>> \notin ahead' =>
            Lists(k)' \subseteq Lists(q)'
      BY <2>4, <2>6, <3>1, <3>2
    <3> QED
      BY <2>2, <3>1, <3>2, <3>3, <3>4
  <2> QED
    BY <2>7, <2>8 DEF Later
<1>6. ASSUME NEW r \in FeedCalls, CallEnds(r) PROVE Later'
  <2>1. UNCHANGED <<dist, listed>> /\ ahead' = AheadWithout(r)
        /\ feedCall' = [feedCall EXCEPT ![r] = FeedIdle]
    BY <1>6 DEF CallEnds
  <2>2. \A q \in FeedCalls : Uploading(q)' => q # r /\ feedCall'[q] = feedCall[q]
    BY <1>0, <2>1, IdleType DEF CallsTyped, Uploading
  <2>3. \A q, k \in FeedCalls : q # r /\ k # r /\ <<q, k>> \in ahead => <<q, k>> \in ahead'
    BY <2>1 DEF AheadWithout
  <2>4. Published' = Published
    BY <2>1 DEF Published, InFeed
  <2> QED
    BY <2>1, <2>2, <2>3, <2>4, LaterKept
<1>7. CASE UNCHANGED feedVars
  <2>1. UNCHANGED <<dist, listed, ahead, feedCall>>
    BY <1>7 DEF feedVars
  <2>2. Published' = Published
    BY <2>1 DEF Published, InFeed
  <2> QED
    BY <2>1, <2>2, LaterKept
<1>8. ASSUME NEW r \in FeedCalls, NEW e \in FeedEpisodes, NEW a \in Audios,
             \/ publish_episode_audio(r, e, a)
             \/ \E ticked \in SUBSET Range(Platforms) : publish_audio_from_asset(r, e, a, ticked)
             \/ fix_feed(r, e, a)
      PROVE  Later'
  <2>1. \E platforms : Publish(r, e, a, platforms)
    BY <1>8 DEF publish_episode_audio, publish_audio_from_asset, fix_feed
  <2> QED
    BY <1>1, <2>1
<1> QED
  BY <1>2, <1>3, <1>4, <1>5, <1>6, <1>7, <1>8 DEF FeedNext

LEMMA LaterInit == FeedInit => Later
<1>1. FeedInit => DOMAIN listed = {}
  BY DEF FeedInit
<1>2. FeedInit => \A r \in FeedCalls : ~Uploading(r)
  BY DEF FeedInit, Uploading, FeedIdle
<1> QED
  BY <1>1, <1>2 DEF Later

\* An episode leaves the uploaded feed only when a rebuild that listed before another one
\* uploads after it.
THEOREM EpisodesRemain == FeedSpec => EpisodesStay
<1>1. Later /\ [FeedNext]_feedVars =>
        [\A e \in DOMAIN listed :
           \/ e \in DOMAIN listed'
           \/ \E r \in FeedCalls : feedCall[r].doing = "uploading" /\ feedCall[r].overtaken
                                   /\ feedCall'[r] = FeedIdle]_feedVars
  <2> SUFFICES ASSUME Later, FeedNext, NEW e \in DOMAIN listed, e \notin DOMAIN listed'
               PROVE  \E r \in FeedCalls : feedCall[r].doing = "uploading" /\ feedCall[r].overtaken
                                           /\ feedCall'[r] = FeedIdle
    OBVIOUS
  <2>1. PICK r \in FeedCalls : UploadFeed(r)
    BY DEF FeedNext, publish_episode_audio, publish_audio_from_asset, fix_feed, Publish,
           UpsertPlatform, RebuildPodcastFeedAPI, _build_rss_feed, CallEnds
  <2>2. Uploading(r) /\ listed' = feedCall[r].list /\ feedCall'[r] = FeedIdle
    BY <2>1 DEF UploadFeed, Uploading
  <2>3. feedCall[r].overtaken
    BY <2>2 DEF Later, Lists
  <2> QED
    BY <2>2, <2>3 DEF Uploading
<1> QED
  BY <1>1, LaterInit, LaterStep, PublishInvariance, PTL DEF FeedSpec, EpisodesStay

----------------------------------------------------------------------------
(* Part 3.  The YouTube connection.                                        *)

\* A call that will write the row holds the last token, unless it held it across a change.
CopiesHoldToken ==
    \A r \in SettingsCalls : ~raced =>
        /\ settingsCall[r].doing = "saving" =>
             settingsCall[r].with.youtube_refresh_token = connection
        /\ settingsCall[r].doing = "fetching" => settingsCall[r].with = connection

SettingsInv ==
    /\ feedConfig \in PodcastFeedConfig
    /\ settingsCall = [r \in SettingsCalls |-> settingsCall[r]]
    /\ \A r \in SettingsCalls :
         /\ settingsCall[r].doing = "saving" => settingsCall[r].with \in PodcastFeedConfig
         /\ settingsCall[r].doing = "asking" => settingsCall[r].with \in Tokens
         /\ settingsCall[r].doing = "fetching" => settingsCall[r].with \in Tokens \cup {Unset}
         /\ settingsCall[r].doing = "idle" => settingsCall[r].with = Unset
         /\ settingsCall[r].doing \in {"saving", "fetching", "asking", "idle"}
    /\ connection \in Tokens \cup {Unset}
    /\ videos \in 0..MaxVideos
    /\ TokenIsLast /\ CopiesHoldToken

LEMMA LoadKeeps ==
    ASSUME SettingsInv, NEW r \in SettingsCalls, NEW row \in PodcastFeedConfig, Load(r, row),
           row.youtube_refresh_token = feedConfig.youtube_refresh_token
    PROVE  SettingsInv'
<1> DEFINE call == [doing |-> "saving", with |-> row]
<1>1. settingsCall' = [settingsCall EXCEPT ![r] = call]
      /\ UNCHANGED <<feedConfig, connection, raced, videos>>
  BY DEF Load
<1>2. settingsCall'[r] = call
      /\ \A q \in SettingsCalls : q # r => settingsCall'[q] = settingsCall[q]
  BY <1>1 DEF SettingsInv
<1> QED
  BY <1>1, <1>2 DEF SettingsInv, TokenIsLast, CopiesHoldToken

LEMMA CallDone ==
    ASSUME SettingsInv, NEW r \in SettingsCalls,
           settingsCall' = [settingsCall EXCEPT ![r] = Resting]
    PROVE  /\ settingsCall' = [q \in SettingsCalls |-> settingsCall'[q]]
           /\ \A q \in SettingsCalls : settingsCall'[q] \in {settingsCall[q], Resting}
           /\ Resting.doing = "idle" /\ Resting.with = Unset
BY DEF SettingsInv, Resting

LEMMA SettingsStart == SettingsInit => SettingsInv
<1> SUFFICES ASSUME SettingsInit PROVE SettingsInv
  OBVIOUS
<1>1. feedConfig \in PodcastFeedConfig /\ feedConfig.youtube_refresh_token = Unset
  BY DEF SettingsInit, PodcastFeedConfig
<1>2. \A r \in SettingsCalls : settingsCall[r] = Resting
  BY DEF SettingsInit
<1>3. Resting.doing = "idle" /\ Resting.with = Unset
  BY DEF Resting
<1>4. settingsCall = [r \in SettingsCalls |-> settingsCall[r]]
  BY DEF SettingsInit
<1>5. connection = Unset /\ videos = 0
  BY DEF SettingsInit
<1>6. videos \in 0..MaxVideos
  BY <1>5, VideosAssumption
<1> QED
  BY <1>1, <1>2, <1>3, <1>4, <1>5, <1>6 DEF SettingsInv, TokenIsLast, CopiesHoldToken

\* The writes of the row that no copy is needed for, and those of a call that then rests.
LEMMA ColumnsKept ==
    ASSUME SettingsInv, NEW row \in PodcastFeedConfig, feedConfig' = row,
           row.youtube_refresh_token = feedConfig.youtube_refresh_token,
           UNCHANGED <<connection, raced, videos>>,
           \/ UNCHANGED settingsCall
           \/ \E r \in SettingsCalls : settingsCall' = [settingsCall EXCEPT ![r] = Resting]
    PROVE  SettingsInv'
<1>1. /\ settingsCall' = [q \in SettingsCalls |-> settingsCall'[q]]
      /\ \A q \in SettingsCalls : settingsCall'[q] \in {settingsCall[q], Resting}
  <2>1. CASE UNCHANGED settingsCall
    BY <2>1 DEF SettingsInv
  <2> QED
    BY <2>1, CallDone
<1>2. Resting.doing = "idle" /\ Resting.with = Unset
  BY DEF Resting
<1> QED
  BY <1>1, <1>2 DEF SettingsInv, TokenIsLast, CopiesHoldToken

\* Nobody holds a copy of the row where a connect or a disconnect is not raced.
LEMMA ConnectKeeps ==
    ASSUME SettingsInv, NEW token \in Tokens \cup {Unset}, Connect(token),
           feedConfig' \in PodcastFeedConfig, feedConfig'.youtube_refresh_token = token,
           \/ UNCHANGED settingsCall
           \/ /\ token \in Tokens
              /\ \E r \in SettingsCalls :
                   settingsCall' = [settingsCall EXCEPT ![r] = [doing |-> "asking", with |-> token]]
    PROVE  SettingsInv'
<1> DEFINE asking == [doing |-> "asking", with |-> token]
<1>1. asking.doing = "asking" /\ asking.with = token
  OBVIOUS
<1>2. \/ UNCHANGED settingsCall
      \/ /\ token \in Tokens
         /\ \E r \in SettingsCalls : settingsCall' = [settingsCall EXCEPT ![r] = asking]
  OBVIOUS
<1> HIDE DEF asking
<1>3. /\ settingsCall' = [q \in SettingsCalls |-> settingsCall'[q]]
      /\ \A q \in SettingsCalls : settingsCall'[q] # settingsCall[q] =>
           token \in Tokens /\ settingsCall'[q] = asking
  <2>1. settingsCall = [q \in SettingsCalls |-> settingsCall[q]]
    BY DEF SettingsInv
  <2>2. CASE UNCHANGED settingsCall
    BY <2>1, <2>2
  <2>3. ASSUME NEW r \in SettingsCalls, settingsCall' = [settingsCall EXCEPT ![r] = asking]
        PROVE  /\ settingsCall' = [q \in SettingsCalls |-> settingsCall'[q]]
               /\ \A q \in SettingsCalls : q # r => settingsCall'[q] = settingsCall[q]
               /\ settingsCall'[r] = asking
    BY <2>1, <2>3
  <2> QED
    BY <1>2, <2>2, <2>3
<1>4. connection' = token /\ UNCHANGED videos
      /\ (~raced' => \A q \in SettingsCalls : settingsCall'[q].doing \notin {"saving", "fetching"})
  BY DEF Connect
<1>5. TokenIsLast' /\ CopiesHoldToken'
  BY <1>4 DEF TokenIsLast, CopiesHoldToken
<1> QED
  BY <1>1, <1>3, <1>4, <1>5 DEF SettingsInv

\* The code is exchanged for a token, or the token of the copy is saved again.
LEMMA SaveTokenKeeps ==
    ASSUME SettingsInv, NEW r \in SettingsCalls, NEW given \in Tokens \cup {Unset},
           SaveToken(r, given)
    PROVE  SettingsInv'
<1> DEFINE token == IF given # Unset THEN given ELSE settingsCall[r].with
           after == IF token = Unset THEN Resting ELSE [doing |-> "asking", with |-> token]
<1>1. /\ settingsCall[r].doing = "fetching"
      /\ feedConfig' = [feedConfig EXCEPT !.youtube_refresh_token = token]
      /\ settingsCall' = [settingsCall EXCEPT ![r] = after]
      /\ \/ given # Unset /\ Connect(given)
         \/ given = Unset /\ UNCHANGED <<connection, raced, videos>>
  BY DEF SaveToken
<1>2. token \in Tokens \cup {Unset} /\ (given # Unset => token = given)
  BY <1>1 DEF SettingsInv
<1>3. given = Unset /\ ~raced => token = connection
  BY <1>1 DEF SettingsInv, CopiesHoldToken
<1>4. /\ after.doing = "asking" => after.with \in Tokens /\ after.with = token
      /\ after.doing = "idle" => after.with = Unset
      /\ after.doing \in {"asking", "idle"}
      /\ token # Unset => after = [doing |-> "asking", with |-> token]
  BY <1>2 DEF Resting
<1>5. feedConfig' \in PodcastFeedConfig /\ feedConfig'.youtube_refresh_token = token
  BY <1>1, <1>2 DEF SettingsInv, PodcastFeedConfig
<1> HIDE DEF after, token
<1>6. /\ settingsCall' = [q \in SettingsCalls |-> settingsCall'[q]]
      /\ settingsCall'[r] = after
      /\ \A q \in SettingsCalls : q # r => settingsCall'[q] = settingsCall[q]
  BY <1>1 DEF SettingsInv
<1>7. CASE given # Unset /\ Connect(given)
  BY <1>1, <1>2, <1>4, <1>5, <1>7, ConnectKeeps
<1>8. CASE given = Unset /\ UNCHANGED <<connection, raced, videos>>
  BY <1>3, <1>4, <1>5, <1>6, <1>8 DEF SettingsInv, TokenIsLast, CopiesHoldToken
<1> QED
  BY <1>1, <1>7, <1>8

LEMMA SettingsStep ==
    ASSUME SettingsInv, [SettingsNext]_settingsVars
    PROVE  SettingsInv'
<1>0. feedConfig \in PodcastFeedConfig
  BY DEF SettingsInv
<1>1. ASSUME NEW r \in SettingsCalls, build_and_publish_feed(r) PROVE SettingsInv'
  <2> DEFINE row == [feedConfig EXCEPT !.feed_public_url = "cdn"]
  <2>1. row \in PodcastFeedConfig /\ row.youtube_refresh_token = feedConfig.youtube_refresh_token
    BY <1>0 DEF PodcastFeedConfig
  <2>2. Load(r, row)
    BY <1>1 DEF build_and_publish_feed
  <2> QED
    BY <2>1, <2>2, LoadKeeps
<1>2. ASSUME NEW r \in SettingsCalls, NEW title \in Titles, PodcastFeedConfigAPI(r, title)
      PROVE  SettingsInv'
  <2> DEFINE row == [feedConfig EXCEPT !.feed_title = title]
  <2>1. row \in PodcastFeedConfig /\ row.youtube_refresh_token = feedConfig.youtube_refresh_token
    BY <1>0 DEF PodcastFeedConfig
  <2>2. Load(r, row)
    BY <1>2 DEF PodcastFeedConfigAPI
  <2> QED
    BY <2>1, <2>2, LoadKeeps
<1>3. ASSUME NEW r \in SettingsCalls, NEW title \in Titles, ShowUpdateView(r, title)
      PROVE  SettingsInv'
  <2>1. PICK cover \in {feedConfig.cover_art_url, "uploaded"} :
          Load(r, [feedConfig EXCEPT !.feed_title = title, !.feed_public_url = "app",
                                     !.cover_art_url = cover])
    BY <1>3 DEF ShowUpdateView
  <2> DEFINE row == [feedConfig EXCEPT !.feed_title = title, !.feed_public_url = "app",
                                       !.cover_art_url = cover]
  <2>2. row \in PodcastFeedConfig /\ row.youtube_refresh_token = feedConfig.youtube_refresh_token
    BY <1>0 DEF PodcastFeedConfig
  <2> QED
    BY <2>1, <2>2, LoadKeeps
<1>4. ASSUME NEW r \in SettingsCalls, SaveConfig(r) PROVE SettingsInv'
  <2>1. /\ settingsCall[r].doing = "saving" /\ feedConfig' = settingsCall[r].with
        /\ settingsCall' = [settingsCall EXCEPT ![r] = Resting]
        /\ UNCHANGED <<connection, raced, videos>>
    BY <1>4 DEF SaveConfig
  <2>2. feedConfig' \in PodcastFeedConfig
        /\ (~raced => feedConfig'.youtube_refresh_token = connection)
    BY <2>1 DEF SettingsInv, CopiesHoldToken
  <2> QED
    BY <2>1, <2>2, CallDone DEF SettingsInv, TokenIsLast, CopiesHoldToken
<1>5. ASSUME NEW r \in SettingsCalls, fetch_channel_info(r) PROVE SettingsInv'
  <2>1. PICK channel \in {settingsCall[r].with, Unset} :
          feedConfig' = [feedConfig EXCEPT !.youtube_channel = channel]
    BY <1>5 DEF fetch_channel_info
  <2> DEFINE row == [feedConfig EXCEPT !.youtube_channel = channel]
  <2>2. channel \in Tokens \cup {Unset}
    BY <1>5 DEF fetch_channel_info, SettingsInv
  <2>3. row \in PodcastFeedConfig /\ row.youtube_refresh_token = feedConfig.youtube_refresh_token
    BY <1>0, <2>2 DEF PodcastFeedConfig
  <2>4. feedConfig' = row /\ UNCHANGED <<connection, raced, videos>>
        /\ settingsCall' = [settingsCall EXCEPT ![r] = Resting]
    BY <1>5, <2>1 DEF fetch_channel_info
  <2> QED
    BY <2>3, <2>4, ColumnsKept
<1>6. ASSUME NEW r \in SettingsCalls, CallFails(r) PROVE SettingsInv'
  BY <1>0, <1>6, ColumnsKept DEF CallFails
<1>7. ASSUME NEW r \in SettingsCalls, YoutubeOAuthCallbackView(r) PROVE SettingsInv'
  <2> DEFINE call == [doing |-> "fetching", with |-> feedConfig.youtube_refresh_token]
  <2>1. settingsCall' = [settingsCall EXCEPT ![r] = call]
        /\ UNCHANGED <<feedConfig, connection, raced, videos>>
    BY <1>7 DEF YoutubeOAuthCallbackView
  <2>2. /\ settingsCall' = [q \in SettingsCalls |-> settingsCall'[q]]
        /\ settingsCall'[r] = call
        /\ \A q \in SettingsCalls : q # r => settingsCall'[q] = settingsCall[q]
    BY <2>1 DEF SettingsInv
  <2>3. feedConfig.youtube_refresh_token \in Tokens \cup {Unset}
    BY <1>0 DEF PodcastFeedConfig
  <2> QED
    BY <2>1, <2>2, <2>3 DEF SettingsInv, TokenIsLast, CopiesHoldToken
<1>8. CASE YoutubeDisconnectView
  <2>1. feedConfig' = [feedConfig EXCEPT !.youtube_refresh_token = Unset, !.youtube_channel = Unset]
        /\ UNCHANGED settingsCall /\ Connect(Unset)
    BY <1>8 DEF YoutubeDisconnectView
  <2>2. feedConfig' \in PodcastFeedConfig /\ feedConfig'.youtube_refresh_token = Unset
    BY <1>0, <2>1 DEF PodcastFeedConfig
  <2> QED
    BY <2>1, <2>2, ConnectKeeps
<1>9. CASE UploadCoverArtAPI
  <2> DEFINE row == [feedConfig EXCEPT !.cover_art_url = "uploaded"]
  <2>1. row \in PodcastFeedConfig /\ row.youtube_refresh_token = feedConfig.youtube_refresh_token
    BY <1>0 DEF PodcastFeedConfig
  <2>2. feedConfig' = row /\ UNCHANGED <<settingsCall, connection, raced, videos>>
    BY <1>9 DEF UploadCoverArtAPI, SaveColumn
  <2> QED
    BY <2>1, <2>2, ColumnsKept
<1>10. CASE ShowPodcastFeedView
  <2> DEFINE row == [feedConfig EXCEPT !.feed_public_url = "app"]
  <2>1. row \in PodcastFeedConfig /\ row.youtube_refresh_token = feedConfig.youtube_refresh_token
    BY <1>0 DEF PodcastFeedConfig
  <2>2. feedConfig' = row /\ UNCHANGED <<settingsCall, connection, raced, videos>>
    BY <1>10 DEF ShowPodcastFeedView, SaveColumn
  <2> QED
    BY <2>1, <2>2, ColumnsKept
<1>11. CASE upload_episode_to_youtube
  <2>1. videos' \in 0..MaxVideos /\ UNCHANGED <<feedConfig, settingsCall, connection, raced>>
    BY <1>11, VideosAssumption DEF upload_episode_to_youtube, SettingsInv
  <2> QED
    BY <2>1 DEF SettingsInv, TokenIsLast, CopiesHoldToken
<1>12. CASE UNCHANGED settingsVars
  BY <1>12 DEF settingsVars, SettingsInv, TokenIsLast, CopiesHoldToken
<1>13. ASSUME NEW r \in SettingsCalls, NEW given \in Tokens \cup {Unset}, SaveToken(r, given)
       PROVE  SettingsInv'
  BY <1>13, SaveTokenKeeps
<1> QED
  BY <1>1, <1>2, <1>3, <1>4, <1>5, <1>6, <1>7, <1>8, <1>9, <1>10, <1>11, <1>12, <1>13
     DEF SettingsNext

\* The YouTube token is what the last connect or disconnect left, unless a call held an
\* older copy of the row at the time.
THEOREM TokenLast == SettingsSpec => []TokenIsLast
<1>1. SettingsInv => TokenIsLast
  BY DEF SettingsInv
<1> QED
  BY <1>1, SettingsStart, SettingsStep, PTL DEF SettingsSpec
=============================================================================
