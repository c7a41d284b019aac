----------------------------- MODULE Studio_proofs -----------------------------
(***************************************************************************)
(* Proofs about the parts of the application that share no state, for any  *)
(* number of rows and of overlapping requests: one section for each part,  *)
(* with its inductive invariant, the steps that keep it, and its theorem.  *)
(* The last section puts the parts together.                               *)
(*                                                                         *)
(* The pattern is the same in most: a request holds a copy of a row for a  *)
(* while, so the invariant says of every copy what the theorem says of the *)
(* rows, for all but those that a history variable has noted as raced.     *)
(***************************************************************************)
EXTENDS MCStudio, Feed_proofs, RunOfShow_proofs, FiniteSetTheorems, TLAPS

----------------------------------------------------------------------------
(* Guests.                                                                 *)

\* A request that will only edit a row holds the decision that stands, unless it held the
\* row across that one; a request that decides may hold any status.
CopiesStand ==
    \A r \in GuestCalls :
        /\ guestCall[r] # AtEase
        /\ guestCall[r].doing = "editing"
        /\ guestCall[r].row \notin contested
        => guestCall[r].status = decision[guestCall[r].row]

GuestInv ==
    /\ GuestTypeOK
    /\ decision = [g \in Appearances |-> decision[g]]
    /\ guestCall = [r \in GuestCalls |-> guestCall[r]]
    /\ \A r \in GuestCalls : guestCall[r] # AtEase =>
         /\ guestCall[r].doing \in {"editing", "deciding"}
         /\ guestCall[r].row \in Appearances /\ guestCall[r].status \in QuoteApproval
    /\ DecisionStands
    /\ CopiesStand

LEMMA GuestStart == GuestInit => GuestInv
BY DEF GuestInit, GuestInv, GuestTypeOK, DecisionStands, CopiesStand

\* A decision stands at once: whoever else holds the row makes it contested.
LEMMA DecidedStands ==
    ASSUME GuestInv, NEW g \in Appearances, NEW status \in QuoteApproval \cup {"none", "removed"},
           quotes' = [quotes EXCEPT ![g] = status],
           NEW holders, Decided(g, status, holders),
           guestCall' = [r \in GuestCalls |-> guestCall'[r]],
           \A r \in GuestCalls : guestCall'[r] \in {guestCall[r], AtEase},
           \A r \in Holders(g) : r \in holders \/ guestCall'[r] = AtEase
    PROVE  GuestInv'
<1>1. /\ decision' = [decision EXCEPT ![g] = status]
      /\ contested' = IF holders = {} THEN contested \ {g} ELSE contested \cup {g}
  BY DEF Decided
<1>2. GuestTypeOK' /\ decision' = [a \in Appearances |-> decision'[a]]
  BY <1>1 DEF GuestInv, GuestTypeOK
<1>3. DecisionStands'
  BY <1>1 DEF GuestInv, GuestTypeOK, DecisionStands
<1>4. ASSUME NEW r \in GuestCalls, guestCall'[r] # AtEase, guestCall'[r].doing = "editing",
             guestCall'[r].row \notin contested'
      PROVE  guestCall'[r].status = decision'[guestCall'[r].row]
  <2>1. guestCall'[r] = guestCall[r]
    BY <1>4
  <2>2. guestCall[r].row # g
    BY <1>1, <1>4, <2>1 DEF Holders
  <2>3. guestCall[r].row \in Appearances \ contested
    BY <1>1, <1>4, <2>1, <2>2 DEF GuestInv
  <2> QED
    BY <1>1, <1>4, <2>1, <2>2, <2>3 DEF GuestInv, CopiesStand
<1>5. CopiesStand'
  BY <1>4 DEF CopiesStand
<1> QED
  BY <1>2, <1>3, <1>5 DEF GuestInv

LEMMA GuestLoaded ==
    ASSUME GuestInv, NEW g \in Appearances, NEW r \in GuestCalls,
           NEW what \in {"editing", "deciding"}, NEW status,
           LoadGuest(r, g, what, status), OnEpisode(g) => status \in QuoteApproval,
           what = "editing" => status = quotes[g]
    PROVE  GuestInv'
<1> DEFINE call == [doing |-> what, row |-> g, status |-> status]
<1>1. /\ guestCall' = [guestCall EXCEPT ![r] = call]
      /\ status \in QuoteApproval /\ UNCHANGED <<quotes, decision, contested>>
  BY DEF LoadGuest
<1>2. call.doing = what /\ call.row = g /\ call.status = status
  OBVIOUS
<1> HIDE DEF call
<1>3. /\ guestCall' = [q \in GuestCalls |-> guestCall'[q]] /\ guestCall'[r] = call
      /\ \A q \in GuestCalls : q # r => guestCall'[q] = guestCall[q]
  BY <1>1 DEF GuestInv
<1>4. CopiesStand'
  BY <1>1, <1>2, <1>3 DEF GuestInv, CopiesStand, DecisionStands
<1>5. \A q \in GuestCalls : guestCall'[q] # AtEase =>
        /\ guestCall'[q].doing \in {"editing", "deciding"}
        /\ guestCall'[q].row \in Appearances /\ guestCall'[q].status \in QuoteApproval
  BY <1>1, <1>2, <1>3 DEF GuestInv
<1> QED
  BY <1>1, <1>3, <1>4, <1>5 DEF GuestInv, GuestTypeOK, DecisionStands

LEMMA GuestStep ==
    ASSUME GuestInv, [GuestNext]_guestVars
    PROVE  GuestInv'
<1>1. ASSUME NEW g \in Appearances,
             \/ EpisodeGuestsView(g) \/ EpisodeGuestDeleteView(g)
             \/ \E status \in QuoteApproval : EpisodeGuestListCreateAPI(g, status)
      PROVE  GuestInv'
  <2>1. \E status \in QuoteApproval \cup {"removed"} :
          /\ quotes' = [quotes EXCEPT ![g] = status] /\ Decided(g, status, Holders(g))
          /\ guestCall' = guestCall
    BY <1>1 DEF EpisodeGuestsView, EpisodeGuestDeleteView, EpisodeGuestListCreateAPI, AddGuest,
                QuoteApproval
  <2>2. guestCall' = [r \in GuestCalls |-> guestCall'[r]]
    BY <2>1 DEF GuestInv
  <2> QED
    BY <2>1, <2>2, DecidedStands DEF QuoteApproval
<1>2. ASSUME NEW g \in Appearances, NEW r \in GuestCalls, EpisodeGuestUpdateView(r, g)
      PROVE  GuestInv'
  BY <1>2, GuestLoaded DEF EpisodeGuestUpdateView, OnEpisode
<1>3. ASSUME NEW g \in Appearances, NEW r \in GuestCalls,
             NEW status \in {"approved", "rejected", quotes[g]}, ApproveQuotesView(r, g, status)
      PROVE  GuestInv'
  BY <1>3, GuestLoaded DEF ApproveQuotesView, OnEpisode, QuoteApproval
<1>4. ASSUME NEW g \in Appearances, NEW r \in GuestCalls, NEW status \in QuoteApproval,
             EpisodeGuestDetailAPI(r, g, status)
      PROVE  GuestInv'
  BY <1>4, GuestLoaded DEF EpisodeGuestDetailAPI
<1>5. ASSUME NEW r \in GuestCalls, SaveGuest(r)
      PROVE  GuestInv'
  <2>1. PICK g, status : g = guestCall[r].row /\ status = guestCall[r].status
    OBVIOUS
  <2>2. /\ guestCall[r] # AtEase /\ g \in Appearances /\ status \in QuoteApproval
        /\ quotes' = [quotes EXCEPT ![g] = status]
        /\ guestCall' = [guestCall EXCEPT ![r] = AtEase]
    BY <1>5, <2>1 DEF SaveGuest, GuestInv
  <2>3. /\ guestCall' = [q \in GuestCalls |-> guestCall'[q]] /\ guestCall'[r] = AtEase
        /\ \A q \in GuestCalls : guestCall'[q] \in {guestCall[q], AtEase}
    BY <2>2 DEF GuestInv
  <2>4. CASE guestCall[r].doing = "deciding"
    <3>1. Decided(g, status, Holders(g) \ {r})
      BY <1>5, <2>1, <2>4 DEF SaveGuest
    <3>2. \A q \in Holders(g) : q \in Holders(g) \ {r} \/ guestCall'[q] = AtEase
      BY <2>3
    <3> QED
      BY <2>2, <2>3, <3>1, <3>2, DecidedStands
  <2>5. CASE guestCall[r].doing # "deciding"
    <3>1. UNCHANGED <<decision, contested>>
      BY <1>5, <2>5 DEF SaveGuest
    <3>2. g \in contested \/ status = decision[g]
      BY <2>1, <2>2, <2>5 DEF GuestInv, CopiesStand
    <3>3. DecisionStands'
      BY <2>2, <3>1, <3>2 DEF GuestInv, GuestTypeOK, DecisionStands
    <3>4. CopiesStand'
      BY <2>3, <3>1 DEF GuestInv, CopiesStand
    <3>5. GuestTypeOK'
      BY <2>2, <3>1 DEF GuestInv, GuestTypeOK
    <3> QED
      BY <2>3, <3>1, <3>3, <3>4, <3>5 DEF GuestInv
  <2> QED
    BY <2>4, <2>5
<1>6. CASE UNCHANGED guestVars
  BY <1>6 DEF guestVars, GuestInv, GuestTypeOK, DecisionStands, CopiesStand
<1> QED
  BY <1>1, <1>2, <1>3, <1>4, <1>5, <1>6 DEF GuestNext, Holders

\* The approval of a guest's quotes is what was last decided, unless another request held
\* the row when that happened.
THEOREM DecisionsStand == GuestSpec => []DecisionStands
<1>1. GuestInv => DecisionStands
  BY DEF GuestInv
<1> QED
  BY <1>1, GuestStart, GuestStep, PTL DEF GuestSpec

----------------------------------------------------------------------------
(* Screens.                                                                *)

\* An overlay that saw no change since its page and its kept code were loaded shows, or is
\* about to load, what is live.
OverlaysFollow ==
    \A x \in Overlays \ changed :
        /\ cached[x] \in {Blank, live}
        /\ x \in loading => page[x] = live

ScreenInv ==
    /\ ScreenTypeOK
    /\ live \in Brands \cup {Blank}
    /\ changed \subseteq Overlays
    /\ CodeIsTheSponsors
    /\ OverlaysFollow

LEMMA ScreenStart == ScreenInit => ScreenInv
BY ScreenConstants DEF ScreenInit, ScreenInv, ScreenTypeOK, CodeIsTheSponsors, OverlaysFollow

LEMMA ScreenStep ==
    ASSUME ScreenInv, [ScreenNext]_screenVars
    PROVE  ScreenInv'
<1> USE ScreenConstants
<1>1. ASSUME NEW p \in Brands \cup {Blank}, set_live_segment(p) PROVE ScreenInv'
  BY <1>1 DEF set_live_segment, ScreenInv, ScreenTypeOK, CodeIsTheSponsors, OverlaysFollow
<1>2. ASSUME NEW x \in Screens, Render(x) PROVE ScreenInv'
  BY <1>2 DEF Render, _second_screen_state, ScreenInv, ScreenTypeOK, CodeIsTheSponsors, OverlaysFollow
<1>3. ASSUME NEW x \in Screens, StaffCode(x) PROVE ScreenInv'
  BY <1>3 DEF StaffCode, SponsorQRCodeView, ScreenInv, ScreenTypeOK, CodeIsTheSponsors, OverlaysFollow
<1>4. ASSUME NEW x \in Overlays, OverlayQRCodeView(x) PROVE ScreenInv'
  BY <1>4 DEF OverlayQRCodeView, ScreenInv, ScreenTypeOK, CodeIsTheSponsors, OverlaysFollow
<1>5. ASSUME NEW x \in Overlays, CacheExpires(x) PROVE ScreenInv'
  BY <1>5 DEF CacheExpires, ScreenInv, ScreenTypeOK, CodeIsTheSponsors, OverlaysFollow
<1>6. ASSUME NEW x \in Overlays, NewOverlayUrl(x) PROVE ScreenInv'
  BY <1>6 DEF NewOverlayUrl, ScreenInv, ScreenTypeOK, CodeIsTheSponsors, OverlaysFollow
<1>7. CASE regenerate_overlay_token
  BY <1>7 DEF regenerate_overlay_token, ScreenInv, ScreenTypeOK, CodeIsTheSponsors, OverlaysFollow
<1>8. CASE UNCHANGED screenVars
  BY <1>8 DEF screenVars, ScreenInv, ScreenTypeOK, CodeIsTheSponsors, OverlaysFollow
<1> QED
  BY <1>1, <1>2, <1>3, <1>4, <1>5, <1>6, <1>7, <1>8 DEF ScreenNext

\* A staff screen's QR code is that of the sponsor beside it; an overlay's, unless the live
\* sponsor has changed since the page or the kept code was loaded.
THEOREM CodesMatch == ScreenSpec => []CodeIsTheSponsors
<1>1. ScreenInv => CodeIsTheSponsors
  BY DEF ScreenInv
<1> QED
  BY <1>1, ScreenStart, ScreenStep, PTL DEF ScreenSpec

----------------------------------------------------------------------------
(* Uploads.                                                                *)

Started(u) == upload[u] # NotStarted

\* Who may have stored an object: under a presigned URL's key its upload alone, under that
\* of a file name the uploads through the server.
StoredByItsOwn ==
    \A k \in Keys : stored[k] # NoObject =>
        /\ stored[k] \in Uploads /\ Started(stored[k]) /\ KeyOf(stored[k]) = k

\* What has been put is there, and what its user was told of may be read.
PutIsThere ==
    \A u \in Uploads : Started(u) =>
        /\ upload[u].at \in {"put", "inserted", "added"} \/ u \in media =>
             stored[KeyOf(u)] # NoObject
        /\ upload[u].at = "added" => KeyOf(u) \in public
        /\ upload[u].way = "server" /\ upload[u].at = "put" => KeyOf(u) \in public

UploadInv ==
    /\ upload = [u \in Uploads |-> upload[u]]
    /\ \A u \in Uploads : Started(u) =>
         /\ upload[u] \in [way : {"browser", "server"}, filename : FileNames,
                           at : {"signed", "posted", "put", "inserted", "added", "failed"}]
         /\ upload[u].way = "server" => upload[u].at # "signed"
    /\ stored = [k \in Keys |-> stored[k]]
    /\ public \subseteq Keys
    /\ \A u \in media : u \in Uploads /\ Started(u)
    /\ StoredByItsOwn /\ PutIsThere

LEMMA KeysDiffer ==
    /\ \A u \in Uploads, f \in FileNames :
         media_asset_key(u, f) \in Keys /\ episode_video_key(f) \in Keys
    /\ \A u, v \in Uploads, f, g \in FileNames :
         /\ media_asset_key(u, f) = media_asset_key(v, g) => (u = v /\ f = g)
         /\ media_asset_key(u, f) # episode_video_key(g)
         /\ episode_video_key(f) = episode_video_key(g) => f = g
BY DEF Keys, media_asset_key, episode_video_key

LEMMA UploadInvHolds == UploadInv => AssetHoldsItsUpload
<1> SUFFICES ASSUME UploadInv, NEW u \in media
             PROVE  /\ \/ stored[KeyOf(u)] = u
                       \/ /\ stored[KeyOf(u)] # NoObject
                          /\ upload[u].way = "server" /\ upload[stored[KeyOf(u)]].way = "server"
                    /\ upload[u].at = "added" => KeyOf(u) \in public
  BY DEF AssetHoldsItsUpload
<1>1. u \in Uploads /\ Started(u) /\ stored[KeyOf(u)] # NoObject
  BY DEF UploadInv, PutIsThere
<1>2. KeyOf(u) \in Keys
  BY <1>1, KeysDiffer DEF UploadInv, KeyOf
<1>3. PICK v \in Uploads : v = stored[KeyOf(u)] /\ Started(v) /\ KeyOf(v) = KeyOf(u)
  BY <1>1, <1>2 DEF UploadInv, StoredByItsOwn
<1>4. u = v \/ (upload[u].way = "server" /\ upload[v].way = "server")
  <2>1. ASSUME NEW w \in Uploads, Started(w)
        PROVE  /\ upload[w].filename \in FileNames /\ upload[w].way \in {"browser", "server"}
               /\ KeyOf(w) = IF upload[w].way = "browser" THEN media_asset_key(w, upload[w].filename)
                            ELSE episode_video_key(upload[w].filename)
    BY <2>1 DEF UploadInv, KeyOf
  <2>2. /\ upload[u].filename \in FileNames /\ upload[v].filename \in FileNames
        /\ upload[u].way \in {"browser", "server"} /\ upload[v].way \in {"browser", "server"}
    BY <1>1, <1>3, <2>1
  <2>3. CASE upload[u].way = "browser"
    <3>1. KeyOf(u) = media_asset_key(u, upload[u].filename)
      BY <1>1, <2>1, <2>3
    <3>2. upload[v].way = "browser"
      BY <1>1, <1>3, <2>1, <2>2, <3>1, KeysDiffer
    <3> QED
      BY <1>1, <1>3, <2>1, <2>2, <3>1, <3>2, KeysDiffer
  <2>4. CASE upload[u].way = "server"
    <3>1. KeyOf(u) = episode_video_key(upload[u].filename)
      BY <1>1, <2>1, <2>4
    <3>2. upload[v].way # "browser"
      BY <1>1, <1>3, <2>1, <2>2, <3>1, KeysDiffer
    <3> QED
      BY <2>2, <2>4, <3>2
  <2> QED
    BY <2>2, <2>3, <2>4
<1> QED
  BY <1>1, <1>3, <1>4 DEF UploadInv, PutIsThere

\* A step of one upload that is under way: it goes on, and its key stays.
LEMMA GoesOn ==
    ASSUME UploadInv, NEW u \in Uploads, Started(u),
           NEW step \in {"put", "inserted", "added", "failed"}, Goto(u, step)
    PROVE  /\ upload' = [v \in Uploads |-> upload'[v]]
           /\ \A v \in Uploads : v # u => upload'[v] = upload[v]
           /\ upload'[u].at = step
           /\ \A v \in Uploads : /\ Started(v)' <=> Started(v)
                                 /\ Started(v) => KeyOf(v)' = KeyOf(v)
                                                  /\ upload'[v].way = upload[v].way
           /\ upload'[u] \in [way : {"browser", "server"}, filename : FileNames,
                              at : {"signed", "posted", "put", "inserted", "added", "failed"}]
<1>1. upload' = [upload EXCEPT ![u] = [upload[u] EXCEPT !.at = step]]
  BY DEF Goto
<1>2. upload[u] \in [way : {"browser", "server"}, filename : FileNames,
                     at : {"signed", "posted", "put", "inserted", "added", "failed"}]
  BY DEF UploadInv
<1> DEFINE new == [upload[u] EXCEPT !.at = step]
<1>3. /\ new \in [way : {"browser", "server"}, filename : FileNames,
                  at : {"signed", "posted", "put", "inserted", "added", "failed"}]
      /\ new.way = upload[u].way /\ new.filename = upload[u].filename /\ new.at = step
  BY <1>2
<1>4. new # NotStarted
  BY <1>3 DEF NotStarted
<1> HIDE DEF new
<1>5. /\ upload' = [v \in Uploads |-> upload'[v]] /\ upload'[u] = new
      /\ \A v \in Uploads : v # u => upload'[v] = upload[v]
  BY <1>1 DEF UploadInv, new
<1>6. \A v \in Uploads : Started(v)' <=> Started(v)
  BY <1>4, <1>5 DEF Started
<1>7. \A v \in Uploads : upload'[v].way = upload[v].way /\ upload'[v].filename = upload[v].filename
  BY <1>3, <1>5
<1>8. \A v \in Uploads : KeyOf(v)' = KeyOf(v)
  BY <1>7 DEF KeyOf
<1> QED
  BY <1>3, <1>5, <1>6, <1>7, <1>8

\* The row of an upload is inserted or deleted, or the upload fails: keys stay as they are.
LEMMA StoreKept ==
    ASSUME UploadInv, NEW u \in Uploads, Started(u),
           NEW step \in {"inserted", "added", "failed"}, Goto(u, step), UNCHANGED stored,
           \/ UNCHANGED media
           \/ step # "failed" /\ media' = media \cup {u},
           step # "failed" => upload[u].at \in {"put", "inserted"},
           \A k \in public : k \in public', public' \subseteq Keys,
           step = "added" => KeyOf(u) \in public'
    PROVE  UploadInv'
<1>1. StoredByItsOwn'
  BY GoesOn DEF UploadInv, StoredByItsOwn
<1>2. PutIsThere'
  BY GoesOn DEF UploadInv, PutIsThere
<1> QED
  BY <1>1, <1>2, GoesOn DEF UploadInv

\* An object is stored, for all to read or not, and its upload told so or not.
LEMMA Stored ==
    ASSUME UploadInv, NEW u \in Uploads, Started(u), upload[u].at \in {"signed", "posted"},
           NEW step \in {"put", "failed"}, Goto(u, step), UNCHANGED media,
           stored' = [stored EXCEPT ![KeyOf(u)] = u],
           \/ upload[u].way = "browser" /\ public' = public \ {KeyOf(u)}
           \/ upload[u].way = "server" /\ public' = public \cup {KeyOf(u)}
    PROVE  UploadInv'
<1>1. KeyOf(u) \in Keys
  BY KeysDiffer DEF UploadInv, KeyOf
<1>2. /\ stored' = [k \in Keys |-> stored'[k]] /\ stored'[KeyOf(u)] = u
      /\ \A k \in Keys : k # KeyOf(u) => stored'[k] = stored[k]
  BY <1>1 DEF UploadInv
<1>3. StoredByItsOwn'
  BY <1>2, GoesOn DEF UploadInv, StoredByItsOwn
<1>4. \A v \in Uploads : Started(v) => KeyOf(v) \in Keys
  BY KeysDiffer DEF UploadInv, KeyOf
<1>5. ASSUME NEW v \in Uploads, Started(v), v # u
      PROVE  /\ stored[KeyOf(v)] # NoObject => stored'[KeyOf(v)] # NoObject
             /\ KeyOf(v) \in public => KeyOf(v) \in public'
  <2>1. KeyOf(v) # KeyOf(u) \/ upload[u].way = "server"
    BY <1>5, KeysDiffer DEF UploadInv, KeyOf
  <2> QED
    BY <1>2, <1>4, <1>5, <2>1, NoObjectAssumption
<1>6. PutIsThere'
  <2> SUFFICES ASSUME NEW v \in Uploads, Started(v)'
               PROVE  /\ upload'[v].at \in {"put", "inserted", "added"} \/ v \in media' =>
                           stored'[KeyOf(v)'] # NoObject
                      /\ upload'[v].at = "added" => KeyOf(v)' \in public'
                      /\ upload'[v].way = "server" /\ upload'[v].at = "put" => KeyOf(v)' \in public'
    BY DEF PutIsThere
  <2>1. Started(v) /\ KeyOf(v)' = KeyOf(v) /\ upload'[v].way = upload[v].way
    BY GoesOn
  <2>2. CASE v = u
    BY <1>2, <2>1, <2>2, GoesOn, NoObjectAssumption
  <2>3. CASE v # u
    BY <1>5, <2>1, <2>3, GoesOn DEF UploadInv, PutIsThere
  <2> QED
    BY <2>2, <2>3
<1>7. public' \subseteq Keys
  BY <1>1 DEF UploadInv
<1> QED
  BY <1>2, <1>3, <1>6, <1>7, GoesOn DEF UploadInv

LEMMA UploadBegins ==
    ASSUME UploadInv, NEW u \in Uploads, ~Started(u), NEW filename \in FileNames,
           NEW way \in {"browser", "server"}, NEW step \in {"signed", "posted"},
           way = "server" => step = "posted",
           upload' = [upload EXCEPT ![u] = [way |-> way, filename |-> filename, at |-> step]],
           UNCHANGED <<stored, public, media>>
    PROVE  UploadInv'
<1> DEFINE new == [way |-> way, filename |-> filename, at |-> step]
<1>1. /\ new \in [way : {"browser", "server"}, filename : FileNames,
                  at : {"signed", "posted", "put", "inserted", "added", "failed"}]
      /\ new.way = way /\ new.filename = filename /\ new.at = step /\ new # NotStarted
  BY DEF NotStarted
<1> HIDE DEF new
<1>2. /\ upload' = [v \in Uploads |-> upload'[v]] /\ upload'[u] = new
      /\ \A v \in Uploads : v # u => upload'[v] = upload[v]
  BY DEF UploadInv, new
<1>3. \A v \in Uploads : v # u => (Started(v)' <=> Started(v)) /\ KeyOf(v)' = KeyOf(v)
  BY <1>2 DEF Started, KeyOf
<1>4. StoredByItsOwn'
  BY <1>2, <1>3 DEF UploadInv, StoredByItsOwn
<1>5. PutIsThere'
  BY <1>1, <1>2, <1>3 DEF UploadInv, PutIsThere
<1> QED
  BY <1>1, <1>2, <1>3, <1>4, <1>5 DEF UploadInv

LEMMA UploadStep ==
    ASSUME UploadInv, [UploadNext]_uploadVars
    PROVE  UploadInv'
<1>0. public \subseteq Keys /\ \A u \in Uploads : Started(u) => KeyOf(u) \in Keys
  BY KeysDiffer DEF UploadInv, KeyOf
<1>1. ASSUME NEW u \in Uploads, NEW f \in FileNames,
             MediaPresignUploadAPI(u, f) \/ UploadVideoAPI(u, f) \/ publish_video(u, f)
      PROVE  UploadInv'
  <2>1. ~Started(u)
    BY <1>1 DEF MediaPresignUploadAPI, UploadVideoAPI, publish_video, Started
  <2> QED
    BY <1>1, <2>1, UploadBegins DEF MediaPresignUploadAPI, UploadVideoAPI, publish_video
<1>2. ASSUME NEW u \in Uploads, BrowserPut(u) \/ upload_file(u) PROVE UploadInv'
  <2>1. Started(u) /\ upload[u].at \in {"signed", "posted"}
    BY <1>2 DEF BrowserPut, upload_file, At, Started
  <2> QED
    BY <1>2, <2>1, Stored DEF BrowserPut, upload_file, At
<1>3. ASSUME NEW u \in Uploads, MediaAssetConfirmUploadAPI(u) PROVE UploadInv'
  BY <1>0, <1>3, StoreKept DEF MediaAssetConfirmUploadAPI, At, Started, InsertAsset
<1>4. ASSUME NEW u \in Uploads, make_public(u) PROVE UploadInv'
  BY <1>0, <1>4, StoreKept DEF make_public, At, Started
<1>5. ASSUME NEW u \in Uploads, VideoInserted(u) PROVE UploadInv'
  <2>1. Started(u) /\ upload[u].at = "put" /\ KeyOf(u) \in public
    BY <1>5 DEF VideoInserted, At, Started, UploadInv, PutIsThere
  <2> QED
    BY <1>0, <1>5, <2>1, StoreKept DEF VideoInserted, InsertAsset
<1>6. ASSUME NEW u \in Uploads, MediaAssetDeleteView(u) PROVE UploadInv'
  <2>1. media' = media \ {u} /\ UNCHANGED <<upload, stored, public>>
    BY <1>6 DEF MediaAssetDeleteView
  <2> QED
    BY <2>1 DEF UploadInv, StoredByItsOwn, PutIsThere, KeyOf, Started
<1>7. ASSUME NEW u \in Uploads, Fails(u) PROVE UploadInv'
  <2>1. Started(u)
    BY <1>7 DEF Fails, Started, NotStarted
  <2> QED
    BY <1>0, <1>7, <2>1, StoreKept DEF Fails
<1>8. CASE UNCHANGED uploadVars
  BY <1>8 DEF uploadVars, UploadInv, StoredByItsOwn, PutIsThere, KeyOf, Started
<1> QED
  BY <1>1, <1>2, <1>3, <1>4, <1>5, <1>6, <1>7, <1>8 DEF UploadNext

LEMMA UploadStart == UploadInit => UploadInv
BY DEF UploadInit, UploadInv, StoredByItsOwn, PutIsThere, Started

\* A media asset's object holds the file that was uploaded for it, or, through the server
\* only, that of another upload of the same name; and its user was told so truly.
THEOREM AssetsHold == UploadSpec => []AssetHoldsItsUpload
BY UploadStart, UploadStep, UploadInvHolds, PTL DEF UploadSpec

----------------------------------------------------------------------------
(* Clips.                                                                  *)

\* The times of a row, or of a copy, that is there.
Runs(row) ==
    /\ row.start_ms \in Nat /\ row.end_ms \in Nat
    /\ "api" \in row.writers \/ row.start_ms < row.end_ms

ClipRowType(row) ==
    row \in [row : {"none", "there", "deleted"}, start_ms : Nat, end_ms : Nat,
             writers : SUBSET {"form", "api"}]

ClipInv ==
    /\ clip = [c \in Clips |-> clip[c]]
    /\ clipCall = [r \in ClipCalls |-> clipCall[r]]
    /\ \A c \in Clips : ClipRowType(clip[c]) /\ (clip[c].row = "there" => Runs(clip[c]))
    /\ \A r \in ClipCalls : clipCall[r].doing = "saving" =>
         ClipRowType(clipCall[r].copy) /\ Runs(clipCall[r].copy)

\* A time that the form shows reads as the same time but for a part of a second.
LEMMA TimesRoundTrip ==
    ASSUME NEW ms \in Nat
    PROVE  ms - _time_to_ms(_ms_to_time(ms)) \in 0 .. 999
<1> DEFINE seconds == ms \div 1000
           hours == seconds \div 3600
           minutes == (seconds % 3600) \div 60
           rest == seconds % 60
<1>1. /\ seconds \in Nat /\ ms - seconds * 1000 \in 0 .. 999
      /\ hours \in Nat /\ minutes \in Nat /\ rest \in Nat
  OBVIOUS
<1>2. hours * 3600 + minutes * 60 + rest = seconds
  <2>1. seconds \in Nat
    OBVIOUS
  <2> HIDE DEF seconds
  <2> QED
    BY <2>1
<1> HIDE DEF seconds, hours, minutes, rest
<1>3. CASE hours # 0
  <2>1. _ms_to_time(ms) = <<hours, minutes, rest>>
    BY <1>3 DEF _ms_to_time, seconds, hours, minutes, rest
  <2>2. _time_to_ms(<<hours, minutes, rest>>) = (hours * 3600 + minutes * 60 + rest) * 1000
    BY DEF _time_to_ms
  <2> QED
    BY <1>1, <1>2, <2>1, <2>2
<1>4. CASE hours = 0
  <2>1. _ms_to_time(ms) = <<minutes, rest>>
    BY <1>4 DEF _ms_to_time, seconds, hours, minutes, rest
  <2>2. _time_to_ms(<<minutes, rest>>) = (0 * 3600 + minutes * 60 + rest) * 1000
    BY DEF _time_to_ms
  <2> QED
    BY <1>1, <1>2, <1>4, <2>1, <2>2
<1> QED
  BY <1>3, <1>4

\* A text that parses is a time.
LEMMA TimesParse ==
    ASSUME NEW time \in Seq(Nat), Parses(time)
    PROVE  _time_to_ms(time) \in Nat
<1>0. \A i \in 1 .. Len(time) : time[i] \in Nat
  OBVIOUS
<1>1. CASE Len(time) = 3
  <2>1. time[1] \in Nat /\ time[2] \in Nat /\ time[3] \in Nat
    BY <1>0, <1>1
  <2> QED
    BY <1>1, <2>1 DEF _time_to_ms
<1>2. CASE Len(time) = 2
  <2>1. time[1] \in Nat /\ time[2] \in Nat
    BY <1>0, <1>2
  <2>2. PICK hms : hms = <<0>> \o time
    OBVIOUS
  <2>3. \A i \in 1 .. 3 : hms[i] = IF i = 1 THEN 0 ELSE time[i - 1]
    BY <1>2, <2>2
  <2>4. hms[1] = 0 /\ hms[2] = time[1] /\ hms[3] = time[2]
    BY <2>3
  <2>5. _time_to_ms(time) = (hms[1] * 3600 + hms[2] * 60 + hms[3]) * 1000
    BY <1>2, <2>2 DEF _time_to_ms
  <2> QED
    BY SMTT(30), <2>1, <2>4, <2>5
<1> QED
  BY <1>1, <1>2 DEF Parses

LEMMA PostsRun ==
    ASSUME NEW post \in ValidPosts
    PROVE  /\ TimeOf(post.start_ms, post.start_time) \in Nat
           /\ TimeOf(post.end_ms, post.end_time) \in Nat
           /\ TimeOf(post.start_ms, post.start_time) < TimeOf(post.end_ms, post.end_time)
<1>1. /\ post.start_ms \in Millis /\ post.end_ms \in Millis
      /\ post.start_time \in TypedTimes /\ post.end_time \in TypedTimes
      /\ TextCounts(post.start_ms, post.start_time) => Parses(post.start_time)
      /\ TextCounts(post.end_ms, post.end_time) => Parses(post.end_time)
      /\ TimeOf(post.end_ms, post.end_time) > TimeOf(post.start_ms, post.start_time)
  BY DEF ValidPosts, Posts, ValidClip, FieldsValid
<1>2. \A ms \in Millis, time \in TypedTimes :
        (TextCounts(ms, time) => Parses(time)) => TimeOf(ms, time) \in Nat
  BY ClipConstants, TimesParse DEF TimeOf
<1>3. /\ TimeOf(post.start_ms, post.start_time) \in Nat
      /\ TimeOf(post.end_ms, post.end_time) \in Nat
  BY <1>1, <1>2
<1> QED
  BY <1>1, <1>3

LEMMA FilledRuns ==
    ASSUME NEW row, ClipRowType(row), NEW post \in ValidPosts
    PROVE  ClipRowType(Filled(row, post)) /\ Runs(Filled(row, post))
<1> DEFINE start == TimeOf(post.start_ms, post.start_time)
           end == TimeOf(post.end_ms, post.end_time)
<1>1. start \in Nat /\ end \in Nat /\ start < end
  BY PostsRun
<1>2. Filled(row, post) = [row EXCEPT !.row = "there", !.start_ms = start, !.end_ms = end,
                                      !.writers = @ \cup {"form"}]
  BY DEF Filled
<1> HIDE DEF start, end
<1>3. ClipRowType(Filled(row, post))
  BY <1>1, <1>2 DEF ClipRowType
<1>4. Filled(row, post).start_ms = start /\ Filled(row, post).end_ms = end
  BY <1>2 DEF ClipRowType
<1> QED
  BY <1>1, <1>3, <1>4 DEF Runs

\* A row is written as it runs, or as one that is not there.
LEMMA ClipWritten ==
    ASSUME ClipInv, NEW c \in Clips, NEW row, ClipRowType(row), row.row = "there" => Runs(row),
           clip' = [clip EXCEPT ![c] = row],
           clipCall' = [r \in ClipCalls |-> clipCall'[r]],
           \A r \in ClipCalls : clipCall'[r] \in {clipCall[r], NoCall}
    PROVE  ClipInv'
BY DEF ClipInv, NoCall

LEMMA ClipLoaded ==
    ASSUME ClipInv, NEW c \in Clips, NEW r \in ClipCalls, NEW copy, ClipRowType(copy), Runs(copy),
           LoadClip(r, c, copy)
    PROVE  ClipInv'
<1> DEFINE call == [doing |-> "saving", on |-> c, copy |-> copy]
<1>1. clipCall' = [clipCall EXCEPT ![r] = call] /\ UNCHANGED clip
  BY DEF LoadClip
<1>2. call.copy = copy
  OBVIOUS
<1> HIDE DEF call
<1> QED
  BY <1>1, <1>2 DEF ClipInv

LEMMA ClipStep ==
    ASSUME ClipInv, [ClipNext]_clipVars
    PROVE  ClipInv'
<1>0. /\ clipCall = [r \in ClipCalls |-> clipCall[r]]
      /\ \A r \in ClipCalls : clipCall[r] \in {clipCall[r], NoCall}
      /\ \A c \in Clips : ClipRowType(clip[c]) /\ (clip[c].row = "there" => Runs(clip[c]))
  BY DEF ClipInv
<1>1. ClipRowType(NoClip) /\ NoClip.row # "there"
  BY DEF NoClip, ClipRowType
<1>2. ASSUME NEW c \in Clips, NEW post \in ValidPosts, EpisodeClipsView(c, post) PROVE ClipInv'
  <2>1. clip' = [clip EXCEPT ![c] = Filled(NoClip, post)] /\ clipCall' = clipCall
    BY <1>2 DEF EpisodeClipsView
  <2>2. ClipRowType(Filled(NoClip, post)) /\ Runs(Filled(NoClip, post))
    BY <1>1, FilledRuns
  <2> QED
    BY <1>0, <2>1, <2>2, ClipWritten
<1>3. ASSUME NEW c \in Clips, NEW r \in ClipCalls, NEW post \in ValidPosts,
             ClipMomentUpdateView(r, c, post)
      PROVE  ClipInv'
  BY <1>0, <1>3, FilledRuns, ClipLoaded DEF ClipMomentUpdateView
<1>4. ASSUME NEW c \in Clips, NEW start \in Millis, NEW end \in Millis,
             ClipMomentListCreateAPI(c, start, end)
      PROVE  ClipInv'
  <2> DEFINE row == [row |-> "there", start_ms |-> start, end_ms |-> end, writers |-> {"api"}]
  <2>1. clip' = [clip EXCEPT ![c] = row] /\ clipCall' = clipCall
    BY <1>4 DEF ClipMomentListCreateAPI
  <2>2. ClipRowType(row) /\ Runs(row)
    BY ClipConstants DEF ClipRowType, Runs
  <2> QED
    BY <1>0, <2>1, <2>2, ClipWritten
<1>5. ASSUME NEW c \in Clips, NEW r \in ClipCalls, NEW ms \in Millis,
             NEW time \in {"start_ms", "end_ms"}, ClipMomentDetailAPI(r, c, time, ms)
      PROVE  ClipInv'
  <2> DEFINE copy == [clip[c] EXCEPT ![time] = ms, !.writers = @ \cup {"api"}]
  <2>1. LoadClip(r, c, copy)
    BY <1>5 DEF ClipMomentDetailAPI
  <2>2. ms \in Nat /\ ClipRowType(clip[c])
    BY <1>0, ClipConstants
  <2>3. ClipRowType(copy) /\ Runs(copy)
    <3>1. CASE time = "start_ms"
      BY <2>2, <3>1 DEF ClipRowType, Runs
    <3>2. CASE time = "end_ms"
      BY <2>2, <3>2 DEF ClipRowType, Runs
    <3> QED
      BY <3>1, <3>2
  <2> QED
    BY <2>1, <2>3, ClipLoaded
<1>6. ASSUME NEW c \in Clips, ClipMomentDeleteView(c) PROVE ClipInv'
  <2> DEFINE row == [NoClip EXCEPT !.row = "deleted"]
  <2>1. clip' = [clip EXCEPT ![c] = row] /\ clipCall' = clipCall
    BY <1>6 DEF ClipMomentDeleteView
  <2>2. ClipRowType(row) /\ row.row # "there"
    BY DEF NoClip, ClipRowType
  <2> QED
    BY <1>0, <2>1, <2>2, ClipWritten
<1>7. ASSUME NEW r \in ClipCalls, SaveClip(r) PROVE ClipInv'
  <2>1. /\ clip' = [clip EXCEPT ![clipCall[r].on] = clipCall[r].copy]
        /\ clipCall' = [clipCall EXCEPT ![r] = NoCall]
        /\ ClipRowType(clipCall[r].copy) /\ Runs(clipCall[r].copy)
    BY <1>7 DEF SaveClip, ClipInv
  <2>2. /\ clipCall' = [q \in ClipCalls |-> clipCall'[q]]
        /\ \A q \in ClipCalls : clipCall'[q] \in {clipCall[q], NoCall}
    BY <2>1 DEF ClipInv
  <2>3. CASE clipCall[r].on \in Clips
    BY <2>1, <2>2, <2>3, ClipWritten
  <2>4. CASE clipCall[r].on \notin Clips
    <3>1. clip' = clip
      BY <2>1, <2>4 DEF ClipInv
    <3> QED
      BY <2>2, <3>1 DEF ClipInv, NoCall
  <2> QED
    BY <2>3, <2>4
<1>8. CASE UNCHANGED clipVars
  BY <1>8 DEF clipVars, ClipInv
<1> QED
  BY <1>2, <1>3, <1>4, <1>5, <1>6, <1>7, <1>8 DEF ClipNext

LEMMA ClipStart == ClipInit => ClipInv
BY DEF ClipInit, ClipInv, ClipRowType, NoClip, NoCall

\* A clip that only forms have written ends after it starts, and the form shows the times
\* of any clip as texts that it would read as the same times but for a part of a second.
THEOREM ClipsInOrder == ClipSpec => []ClipsRun
<1>1. ClipInv => ClipsRun
  <2> SUFFICES ASSUME ClipInv, NEW c \in Clips, clip[c].row = "there"
               PROVE  /\ "api" \notin clip[c].writers => clip[c].start_ms < clip[c].end_ms
                      /\ \A ms \in {clip[c].start_ms, clip[c].end_ms} :
                           ms - _time_to_ms(_ms_to_time(ms)) \in 0 .. 999
    BY DEF ClipsRun
  <2>1. Runs(clip[c])
    BY DEF ClipInv
  <2>2. clip[c].start_ms \in Nat /\ clip[c].end_ms \in Nat
    BY <2>1 DEF Runs
  <2>3. \A ms \in {clip[c].start_ms, clip[c].end_ms} : ms - _time_to_ms(_ms_to_time(ms)) \in 0 .. 999
    BY SMTT(30), <2>2, TimesRoundTrip
  <2> QED
    BY <2>1, <2>3 DEF Runs
<1> QED
  BY <1>1, ClipStart, ClipStep, PTL DEF ClipSpec

----------------------------------------------------------------------------
(* Exports.                                                                *)

QueryNames ==
    Tables \cup {"json notes", "markdown notes", "json complete"}

\* What a query about something finds now: the two that look for notes find the same.
Found(about) == IF about = "notes" THEN JsonNotes ELSE content[about]

\* What a query found of a table that nobody wrote since is there still.
AnswersPresent ==
    \A pair \in answers :
        /\ pair[1] \in QueryNames
        /\ About(pair[1]) \notin written => pair[2] = Found(About(pair[1]))

PackageInv ==
    /\ content \in [Tables -> Editions]
    /\ queries \in Seq(QueryNames)
    /\ AnswersPresent

LEMMA AboutTables ==
    ASSUME NEW query \in QueryNames
    PROVE  /\ About(query) \in Tables \cup {"notes"}
           /\ Answer(query) = Found(About(query))
BY DEF QueryNames, Tables, About, Answer, Found, JsonNotes, MarkdownNotes

LEMMA FilesAsk ==
    /\ export_episode_package_json \in Seq(QueryNames)
    /\ export_show_notes_markdown \in Seq(QueryNames)
    /\ export_clips_csv \in Seq(QueryNames)
    /\ export_guest_brief_html \in Seq(QueryNames)
    /\ generate_full_export_package \in Seq(QueryNames)
<1>1. /\ export_episode_package_json \in Seq(QueryNames)
      /\ export_show_notes_markdown \in Seq(QueryNames)
      /\ export_clips_csv \in Seq(QueryNames)
      /\ export_segments_csv \in Seq(QueryNames)
      /\ export_guest_brief_html \in Seq(QueryNames)
      /\ <<"guests">> \in Seq(QueryNames)
  BY DEF export_episode_package_json, export_show_notes_markdown, export_clips_csv,
         export_segments_csv, export_guest_brief_html, QueryNames, Tables
<1>2. \A s, t \in Seq(QueryNames) : s \o t \in Seq(QueryNames)
  OBVIOUS
<1> QED
  BY <1>1, <1>2 DEF generate_full_export_package

LEMMA PackageStart == ExportInit => PackageInv
BY ExportConstants DEF ExportInit, PackageInv, AnswersPresent, Tables

\* A write of one table changes what queries about the others find in nothing.
LEMMA TableWritten ==
    ASSUME PackageInv, NEW t, written' = written \cup {t}, UNCHANGED <<queries, answers>>,
           content' \in [Tables -> Editions],
           \A about \in Tables \cup {"notes"} : about # t => Found(about)' = Found(about)
    PROVE  PackageInv'
<1>1. ASSUME NEW pair \in answers, About(pair[1]) \notin written'
      PROVE  pair[2] = Found(About(pair[1]))'
  <2>1. PICK about \in Tables \cup {"notes"} : about = About(pair[1])
    BY AboutTables DEF PackageInv, AnswersPresent
  <2>2. about # t /\ pair[2] = Found(about)
    BY <1>1, <2>1 DEF PackageInv, AnswersPresent
  <2> QED
    BY <2>1, <2>2
<1> QED
  BY <1>1 DEF PackageInv, AnswersPresent

LEMMA PackageStep ==
    ASSUME PackageInv, [ExportNext]_exportVars
    PROVE  PackageInv'
<1>1. ASSUME NEW file \in Seq(QueryNames), Request(file) PROVE PackageInv'
  BY <1>1 DEF Request, PackageInv, AnswersPresent
<1>2. CASE Query
  <2>1. PICK query : query = Head(queries)
    OBVIOUS
  <2>2. query \in QueryNames /\ Tail(queries) \in Seq(QueryNames)
    <3>1. queries # <<>>
      BY <1>2 DEF Query
    <3>2. queries \in Seq(QueryNames)
      BY DEF PackageInv
    <3> QED
      BY <2>1, <3>1, <3>2
  <2>3. /\ UNCHANGED <<content, drafts, written>>
        /\ \/ queries' = <<>> /\ answers' = {}
           \/ queries' = Tail(queries) /\ answers' = answers \cup {<<query, Answer(query)>>}
    BY <1>2, <2>1 DEF Query
  <2>4. \A about : Found(about)' = Found(about)
    BY <2>3 DEF Found, JsonNotes
  <2>5. AnswersPresent'
    BY <2>2, <2>3, <2>4, AboutTables DEF PackageInv, AnswersPresent
  <2>6. <<>> \in Seq(QueryNames)
    OBVIOUS
  <2> QED
    BY <2>2, <2>3, <2>5, <2>6 DEF PackageInv
<1>3. ASSUME NEW t \in Tables, NEW edition \in Editions, WriteTable(t, edition)
      PROVE  PackageInv'
  <2>1. /\ content' = [content EXCEPT ![t] = edition] /\ written' = written \cup {t}
        /\ UNCHANGED <<drafts, queries, answers>>
    BY <1>3 DEF WriteTable, Writing
  <2>2. \A about \in Tables \cup {"notes"} : about # t => Found(about)' = Found(about)
    BY <2>1 DEF Found, JsonNotes, PackageInv, Tables
  <2>3. content' \in [Tables -> Editions]
    BY <2>1 DEF PackageInv
  <2> QED
    BY <2>1, <2>2, <2>3, TableWritten
<1>4. ASSUME NEW new, WriteDrafts(new) PROVE PackageInv'
  <2>1. written' = written \cup {"notes"} /\ UNCHANGED <<content, queries, answers>>
    BY <1>4 DEF WriteDrafts, Writing
  <2>2. \A about \in Tables \cup {"notes"} : about # "notes" => Found(about)' = Found(about)
    BY <2>1 DEF Found
  <2> QED
    BY <2>1, <2>2, TableWritten DEF PackageInv
<1>5. CASE SetEpisodeType \/ UNCHANGED exportVars
  <2>1. UNCHANGED <<content, drafts, queries, answers, written>>
    BY <1>5 DEF SetEpisodeType, exportVars
  <2> QED
    BY <2>1 DEF PackageInv, AnswersPresent, Found, JsonNotes
<1> QED
  BY <1>1, <1>2, <1>3, <1>4, <1>5, FilesAsk DEF ExportNext, AddDraft, EditDraft, DropDraft

\* The rows of an episode's drafts, and what the queries have found of them.
DraftsTyped ==
    /\ drafts \in Seq(Texts) /\ Len(drafts) <= MostDrafts
    /\ typed \in BOOLEAN
    /\ \A pair \in answers : pair[2] \in Editions \cup Texts \cup {"none"}

ExportInv == PackageInv /\ DraftsTyped

LEMMA ExportStart == ExportInit => ExportInv
<1>1. <<>> \in Seq(Texts) /\ Len(<<>>) = 0 /\ 0 <= MostDrafts
  BY ExportConstants
<1>2. FALSE \in BOOLEAN
  OBVIOUS
<1> QED
  BY <1>1, <1>2, PackageStart DEF ExportInit, ExportInv, DraftsTyped

\* A table is written; the drafts are another list of as few.
LEMMA DraftsWritten ==
    ASSUME ExportInv, NEW new \in Seq(Texts), Len(new) <= MostDrafts, WriteDrafts(new)
    PROVE  DraftsTyped'
BY DEF ExportInv, DraftsTyped, WriteDrafts

LEMMA DraftDropped ==
    ASSUME NEW s \in Seq(Texts), NEW d \in DOMAIN s
    PROVE  RemoveAt(s, d) \in Seq(Texts) /\ Len(RemoveAt(s, d)) = Len(s) - 1
<1>1. d \in Int /\ 1 <= d /\ d <= Len(s) /\ Len(s) \in Nat
  OBVIOUS
<1>2. SubSeq(s, 1, d - 1) \in Seq(Texts) /\ Len(SubSeq(s, 1, d - 1)) = d - 1
  BY <1>1
<1>3. SubSeq(s, d + 1, Len(s)) \in Seq(Texts) /\ Len(SubSeq(s, d + 1, Len(s))) = Len(s) - d
  BY <1>1
<1>4. \A t, u \in Seq(Texts) : t \o u \in Seq(Texts) /\ Len(t \o u) = Len(t) + Len(u)
  OBVIOUS
<1>5. RemoveAt(s, d) = SubSeq(s, 1, d - 1) \o SubSeq(s, d + 1, Len(s))
  BY DEF RemoveAt
<1>6. (d - 1) + (Len(s) - d) = Len(s) - 1
  BY <1>1
<1> HIDE DEF RemoveAt
<1> QED
  BY <1>2, <1>3, <1>4, <1>5, <1>6

LEMMA ExportStep ==
    ASSUME ExportInv, [ExportNext]_exportVars
    PROVE  ExportInv'
<1>a. PackageInv'
  BY PackageStep DEF ExportInv
<1>1. ASSUME NEW file, Request(file) PROVE DraftsTyped'
  BY <1>1 DEF Request, ExportInv, DraftsTyped
<1>2. CASE Query
  <2>1. PICK query : query = Head(queries)
    OBVIOUS
  <2>2. query \in QueryNames
    <3>1. queries # <<>> /\ queries \in Seq(QueryNames)
      BY <1>2 DEF Query, ExportInv, PackageInv
    <3> QED
      BY <2>1, <3>1
  <2>3. Answer(query) \in Editions \cup Texts \cup {"none"}
    <3>1. About(query) \in Tables \cup {"notes"} /\ Answer(query) = Found(About(query))
      BY <2>2, AboutTables
    <3>2. JsonNotes \in Texts \cup {"none"}
      <4>1. drafts \in Seq(Texts)
        BY DEF ExportInv, DraftsTyped
      <4>2. drafts # <<>> => Len(drafts) \in DOMAIN drafts /\ drafts[Len(drafts)] \in Texts
        BY <4>1
      <4> QED
        BY <4>2 DEF JsonNotes
    <3> QED
      BY <3>1, <3>2 DEF Found, ExportInv, PackageInv
  <2>4. /\ UNCHANGED <<content, drafts, typed>>
        /\ \/ queries' = <<>> /\ answers' = {}
           \/ queries' = Tail(queries) /\ answers' = answers \cup {<<query, Answer(query)>>}
    BY <1>2, <2>1 DEF Query
  <2>5. \A pair \in answers' : pair[2] \in Editions \cup Texts \cup {"none"}
    <3>1. \A pair \in answers : pair[2] \in Editions \cup Texts \cup {"none"}
      BY DEF ExportInv, DraftsTyped
    <3>2. \A pair \in answers' : pair \in answers \/ pair = <<query, Answer(query)>>
      BY <2>4
    <3> QED
      BY <2>3, <3>1, <3>2
  <2> QED
    BY <1>a, <2>4, <2>5 DEF ExportInv, DraftsTyped
<1>3. ASSUME NEW t \in Tables, NEW edition \in Editions, WriteTable(t, edition)
      PROVE  DraftsTyped'
  BY <1>3 DEF WriteTable, ExportInv, DraftsTyped
<1>4. ASSUME NEW text \in Texts, AddDraft(text) PROVE DraftsTyped'
  <2>1. Append(drafts, text) \in Seq(Texts) /\ Len(Append(drafts, text)) = Len(drafts) + 1
    BY DEF ExportInv, DraftsTyped
  <2>2. Len(drafts) \in Nat
    BY DEF ExportInv, DraftsTyped
  <2>3. Len(Append(drafts, text)) <= MostDrafts /\ WriteDrafts(Append(drafts, text))
    BY <1>4, <2>1, <2>2, ExportConstants DEF AddDraft
  <2> QED
    BY <2>1, <2>3, DraftsWritten
<1>5. ASSUME NEW text \in Texts, NEW d \in DOMAIN drafts, EditDraft(d, text) PROVE DraftsTyped'
  <2>1. /\ [drafts EXCEPT ![d] = text] \in Seq(Texts)
        /\ Len([drafts EXCEPT ![d] = text]) = Len(drafts)
    BY DEF ExportInv, DraftsTyped
  <2>2. Len(drafts) <= MostDrafts
    BY DEF ExportInv, DraftsTyped
  <2> QED
    BY <1>5, <2>1, <2>2, DraftsWritten DEF EditDraft
<1>6. ASSUME NEW d \in DOMAIN drafts, DropDraft(d) PROVE DraftsTyped'
  <2>1. RemoveAt(drafts, d) \in Seq(Texts) /\ Len(RemoveAt(drafts, d)) = Len(drafts) - 1
    BY DraftDropped DEF ExportInv, DraftsTyped
  <2>2. Len(drafts) <= MostDrafts /\ Len(drafts) \in Nat
    BY DEF ExportInv, DraftsTyped
  <2> QED
    BY <1>6, <2>1, <2>2, DraftsWritten, ExportConstants DEF DropDraft
<1>7. CASE SetEpisodeType \/ UNCHANGED exportVars
  <2>1. UNCHANGED <<drafts, answers>> /\ (typed' = ~typed \/ typed' = typed)
    BY <1>7 DEF SetEpisodeType, exportVars
  <2>2. typed' \in BOOLEAN
    BY <2>1 DEF ExportInv, DraftsTyped
  <2> QED
    BY <1>a, <2>1, <2>2 DEF ExportInv, DraftsTyped
<1> QED
  BY <1>a, <1>1, <1>2, <1>3, <1>4, <1>5, <1>6, <1>7 DEF ExportNext, ExportInv

LEMMA ExportTypes == ExportInv => ExportTypeOK
<1>1. ASSUME ExportInv PROVE Range(drafts) \subseteq Texts
  BY <1>1 DEF ExportInv, DraftsTyped, Range
<1> QED
  BY <1>1 DEF ExportInv, PackageInv, DraftsTyped, ExportTypeOK

\* What two files of a package show of the same table is the same, unless somebody wrote
\* that table between the first query and the last.
THEOREM PackagesAgree == ExportSpec => []PackageAgrees
<1>1. PackageInv => PackageAgrees
  BY DEF PackageInv, AnswersPresent, PackageAgrees
<1> QED
  BY <1>1, PackageStart, PackageStep, PTL DEF ExportSpec

----------------------------------------------------------------------------
(* Show notes.                                                             *)

\* A text of an artifact: of one that is known to hold show notes, and was ruled as it should.
Approved(a, ruled) ==
    /\ a \in Artifacts /\ Known(a) /\ artifact[a].type = "show_notes"
    /\ ruled \in {"approved", "disputed"}

DraftRows ==
    [row : {"none", "there", "deleted"}, source : Artifacts \cup {NoSource},
     markdown : Artifacts \cup {Typed}, based_on : ApprovalStatus \cup {"none", "disputed"}]

DraftOK(row) ==
    row \in DraftRows /\ (row.markdown # Typed => Approved(row.markdown, row.based_on))

NoteCallOK(call) ==
    /\ call.doing = "generating" => call.type \in ArtifactType
    /\ call.doing = "deciding" => call.on \in Artifacts /\ Known(call.on)
                                  /\ call.status \in {"approved", "rejected"}
    /\ call.doing = "using" => Approved(call.on, call.based_on)
    /\ call.doing = "editing" => DraftOK(call.copy)

NotesInv ==
    /\ artifact \in [Artifacts -> [type : ArtifactType, status : ApprovalStatus \cup {"none"}]]
    /\ ruling = [a \in Artifacts |-> artifact[a].status]
    /\ draft = [d \in NoteDrafts |-> draft[d]]
    /\ noteCall = [r \in NoteCalls |-> noteCall[r]]
    /\ \A d \in NoteDrafts : DraftOK(draft[d])
    /\ \A r \in NoteCalls : NoteCallOK(noteCall[r])

\* The provider answers the prompt for show notes with show notes.
LEMMA SaysShowNotes ==
    ASSUME "question" \notin Subject
    PROVE  MockAIProvider(Subject \cup generate_show_notes) = "show_notes"
<1> DEFINE words == Subject \cup generate_show_notes
           found == {i \in DOMAIN KeyWords : KeyWords[i] \cap words # {}} \cup {Len(Sayings)}
<1>1. Len(Sayings) = 6 /\ Sayings[2] = "show_notes" /\ DOMAIN KeyWords = 1 .. 5
  BY DEF Sayings, KeyWords
<1>2. KeyWords[1] = {"question"} /\ KeyWords[2] = {"show note", "summary"}
  BY DEF KeyWords
<1>3. "question" \notin words /\ "summary" \in words
  BY DEF generate_show_notes
<1>4. 2 \in found /\ 1 \notin found /\ found \subseteq 1 .. 6
  <2> HIDE DEF words
  <2>1. KeyWords[1] \cap words = {} /\ "summary" \in KeyWords[2] \cap words
    BY <1>2, <1>3
  <2>2. 2 \in found
    BY <1>1, <2>1
  <2>3. 1 \notin found
    BY <1>1, <2>1
  <2>4. found \subseteq 1 .. 6
    BY <1>1
  <2> QED
    BY <2>2, <2>3, <2>4
<1>5. MockAIProvider(words) = Sayings[CHOOSE i \in found : \A j \in found : i <= j]
  BY DEF MockAIProvider
<1> HIDE DEF found, words
<1>6. \A i \in found : (\A j \in found : i <= j) <=> i = 2
  BY <1>4
<1>7. (CHOOSE i \in found : \A j \in found : i <= j) = 2
  BY <1>4, <1>6
<1> QED
  BY <1>1, <1>5, <1>7 DEF words

\* An artifact that is known stays so, with its type: what is approved stays usable.
LEMMA ApprovedStays ==
    ASSUME NotesInv,
           \A a \in Artifacts : Known(a) => Known(a)' /\ artifact'[a].type = artifact[a].type
    PROVE  /\ \A a, ruled : Approved(a, ruled) => Approved(a, ruled)'
           /\ \A row : DraftOK(row) => DraftOK(row)'
           /\ \A call : NoteCallOK(call) => NoteCallOK(call)'
BY DEF Approved, DraftOK, NoteCallOK

\* A request begins, with something that it may hold.
LEMMA NoteCallBegun ==
    ASSUME NotesInv, NEW r \in NoteCalls, NEW call, NoteCallOK(call), Begun(r, call)
    PROVE  NotesInv'
<1>1. noteCall' = [noteCall EXCEPT ![r] = call] /\ UNCHANGED <<artifact, draft, ruling>>
  BY DEF Begun
<1>2. \A a : Known(a)' <=> Known(a)
  BY <1>1 DEF Known
<1>3. /\ noteCall' = [q \in NoteCalls |-> noteCall'[q]]
      /\ \A q \in NoteCalls : NoteCallOK(noteCall'[q])
  BY <1>1 DEF NotesInv
<1>4. \A d \in NoteDrafts : DraftOK(draft'[d])
  BY <1>1 DEF NotesInv
<1>5. /\ \A row : DraftOK(row) => DraftOK(row)'
      /\ \A c : NoteCallOK(c) => NoteCallOK(c)'
  BY <1>1, <1>2, ApprovedStays
<1> QED
  BY <1>1, <1>3, <1>4, <1>5 DEF NotesInv

\* A request ends, or none is involved; artifacts are ruled on, a draft is written.
LEMMA NotesWritten ==
    ASSUME NotesInv, UNCHANGED noteCall \/ \E r \in NoteCalls : Ended(r),
           artifact' \in [Artifacts -> [type : ArtifactType, status : ApprovalStatus \cup {"none"}]],
           ruling' = [a \in Artifacts |-> artifact'[a].status],
           \A a \in Artifacts : Known(a) => Known(a)' /\ artifact'[a].type = artifact[a].type,
           UNCHANGED draft \/ \E d, row : draft' = [draft EXCEPT ![d] = row] /\ DraftOK(row)
    PROVE  NotesInv'
<1>1. /\ noteCall' = [q \in NoteCalls |-> noteCall'[q]]
      /\ \A q \in NoteCalls : noteCall'[q] \in {noteCall[q], Quiet}
  BY DEF NotesInv, Ended
<1>2. /\ draft' = [d \in NoteDrafts |-> draft'[d]]
      /\ \A d \in NoteDrafts : DraftOK(draft'[d])
  BY DEF NotesInv
<1>3. NoteCallOK(Quiet)
  BY DEF NoteCallOK, Quiet
<1>4. \A q \in NoteCalls : NoteCallOK(noteCall'[q])
  BY <1>1, <1>3 DEF NotesInv
<1>5. /\ \A row : DraftOK(row) => DraftOK(row)'
      /\ \A c : NoteCallOK(c) => NoteCallOK(c)'
  BY ApprovedStays
<1> QED
  BY <1>1, <1>2, <1>4, <1>5 DEF NotesInv

LEMMA NotesStart == NotesInit => NotesInv
<1> SUFFICES ASSUME NotesInit PROVE NotesInv
  OBVIOUS
<1>1. NoDraft \in DraftRows /\ NoDraft.markdown = Typed
  BY DEF NoDraft, ADraft, DraftRows
<1>2. \A r \in NoteCalls : NoteCallOK(noteCall[r])
  BY DEF NotesInit, NoteCallOK, Quiet
<1>3. \A d \in NoteDrafts : DraftOK(draft[d])
  BY <1>1 DEF NotesInit, DraftOK
<1>4. artifact \in [Artifacts -> [type : ArtifactType, status : ApprovalStatus \cup {"none"}]]
      /\ ruling = [a \in Artifacts |-> artifact[a].status]
  BY DEF NotesInit, NoArtifact, ArtifactType
<1> QED
  BY <1>2, <1>3, <1>4 DEF NotesInv, NotesInit

LEMMA NotesStep ==
    ASSUME NotesInv, [NotesNext]_notesVars
    PROVE  NotesInv'
<1>0. /\ artifact \in [Artifacts -> [type : ArtifactType, status : ApprovalStatus \cup {"none"}]]
      /\ ruling = [a \in Artifacts |-> artifact[a].status]
      /\ \A d \in NoteDrafts : DraftOK(draft[d])
      /\ \A r \in NoteCalls : NoteCallOK(noteCall[r])
  BY DEF NotesInv
<1>b. ASSUME UNCHANGED <<artifact, ruling>>
      PROVE  /\ artifact' \in [Artifacts -> [type : ArtifactType,
                                             status : ApprovalStatus \cup {"none"}]]
             /\ ruling' = [a \in Artifacts |-> artifact'[a].status]
             /\ \A a \in Artifacts : Known(a) => Known(a)' /\ artifact'[a].type = artifact[a].type
  BY <1>0, <1>b DEF Known
<1>1. ASSUME NEW r \in NoteCalls, NEW type \in Asked,
             AIArtifactGenerateAPI(r, type) \/ EpisodeAIDraftsView(r, type)
      PROVE  NotesInv'
  <2> DEFINE call == [doing |-> "generating", type |-> type]
  <2>1. Begun(r, call)
    BY <1>1 DEF AIArtifactGenerateAPI, EpisodeAIDraftsView
  <2>2. NoteCallOK(call)
    BY AskedTypes DEF NoteCallOK
  <2> QED
    BY <2>1, <2>2, NoteCallBegun
<1>2. ASSUME NEW r \in NoteCalls, create_ai_artifact(r) PROVE NotesInv'
  <2>1. UNCHANGED draft /\ Ended(r) /\ noteCall[r].type \in ArtifactType
    BY <1>0, <1>2 DEF create_ai_artifact, NoteCallOK
  <2>2. ASSUME NEW a \in Artifacts, ~Known(a), NEW type \in ArtifactType,
               artifact' = [artifact EXCEPT ![a] = [type |-> type, status |-> "pending"]],
               ruling' = [ruling EXCEPT ![a] = "pending"]
        PROVE  NotesInv'
    <3>1. artifact' \in [Artifacts -> [type : ArtifactType, status : ApprovalStatus \cup {"none"}]]
          /\ ruling' = [b \in Artifacts |-> artifact'[b].status]
      BY <1>0, <2>2 DEF ApprovalStatus
    <3>2. \A b \in Artifacts : Known(b) => Known(b)' /\ artifact'[b].type = artifact[b].type
      BY <1>0, <2>2 DEF Known
    <3> QED
      BY <2>1, <3>1, <3>2, NotesWritten
  <2>3. CASE UNCHANGED <<artifact, ruling>>
    BY <1>b, <2>1, <2>3, NotesWritten
  <2> QED
    BY <1>2, <2>1, <2>2, <2>3 DEF create_ai_artifact
<1>3. ASSUME NEW r \in NoteCalls, NEW a \in Artifacts, NEW status \in {"approved", "rejected"},
             AIArtifactApproveView(r, a, status)
      PROVE  NotesInv'
  <2> DEFINE call == [doing |-> "deciding", on |-> a, status |-> status]
  <2>1. Begun(r, call) /\ Known(a)
    BY <1>3 DEF AIArtifactApproveView
  <2>2. NoteCallOK(call)
    BY <2>1 DEF NoteCallOK
  <2> QED
    BY <2>1, <2>2, NoteCallBegun
<1>4. ASSUME NEW r \in NoteCalls, SaveDecision(r) PROVE NotesInv'
  <2>1. PICK a, status : a = noteCall[r].on /\ status = noteCall[r].status
    OBVIOUS
  <2>2. a \in Artifacts /\ Known(a) /\ status \in {"approved", "rejected"}
    BY <1>0, <1>4, <2>1 DEF SaveDecision, NoteCallOK
  <2>3. /\ artifact' = [artifact EXCEPT ![a] = [artifact[a] EXCEPT !.status = status]]
        /\ ruling' = [ruling EXCEPT ![a] = status]
        /\ Ended(r) /\ UNCHANGED draft
    BY <1>4, <2>1 DEF SaveDecision
  <2>4. artifact' \in [Artifacts -> [type : ArtifactType, status : ApprovalStatus \cup {"none"}]]
        /\ ruling' = [b \in Artifacts |-> artifact'[b].status]
    BY <1>0, <2>2, <2>3 DEF ApprovalStatus
  <2>5. \A b \in Artifacts : Known(b) => Known(b)' /\ artifact'[b].type = artifact[b].type
    BY <1>0, <2>2, <2>3 DEF Known
  <2> QED
    BY <2>3, <2>4, <2>5, NotesWritten
<1>5. ASSUME NEW r \in NoteCalls, NEW a \in Artifacts, AIArtifactUseView(r, a) PROVE NotesInv'
  <2> DEFINE call == [doing |-> "using", on |-> a, based_on |-> Ruled(a)]
  <2>1. Begun(r, call) /\ artifact[a].status = "approved" /\ artifact[a].type = "show_notes"
    BY <1>5 DEF AIArtifactUseView
  <2>2. Approved(a, Ruled(a))
    BY <1>0, <2>1 DEF Approved, Known, Ruled
  <2>3. NoteCallOK(call)
    BY <2>2 DEF NoteCallOK
  <2> QED
    BY <2>1, <2>3, NoteCallBegun
<1>6. ASSUME NEW row, DraftOK(row), InsertDraft(row), UNCHANGED <<artifact, ruling>>,
             UNCHANGED noteCall \/ \E r \in NoteCalls : Ended(r)
      PROVE  NotesInv'
  <2>1. \E d : draft' = [draft EXCEPT ![d] = row] /\ DraftOK(row)
    BY <1>6 DEF InsertDraft
  <2> QED
    BY <1>6, <1>b, <2>1, NotesWritten
<1>7. ASSUME NEW r \in NoteCalls, CreateFromArtifact(r) PROVE NotesInv'
  <2>1. PICK a, ruled : a = noteCall[r].on /\ ruled = noteCall[r].based_on
    OBVIOUS
  <2>2. Approved(a, ruled) /\ InsertDraft(ADraft(a, a, ruled))
    BY <1>0, <1>7, <2>1 DEF CreateFromArtifact, NoteCallOK
  <2>3. /\ ADraft(a, a, ruled).markdown = a /\ ADraft(a, a, ruled).based_on = ruled
        /\ ADraft(a, a, ruled) \in DraftRows
    BY <2>2 DEF ADraft, DraftRows, Approved, ApprovalStatus
  <2> QED
    BY <1>6, <1>7, <2>2, <2>3 DEF CreateFromArtifact, DraftOK
<1>8. ASSUME EpisodeShowNotesView \/ \E a \in Artifacts : ShowNoteDraftListCreateAPI(a)
      PROVE  NotesInv'
  <2>1. /\ UNCHANGED <<artifact, ruling, noteCall>>
        /\ \E a \in Artifacts \cup {NoSource} : InsertDraft(ADraft(a, Typed, "none"))
    BY <1>8 DEF EpisodeShowNotesView, ShowNoteDraftListCreateAPI
  <2>2. \A a \in Artifacts \cup {NoSource} :
          LET new == ADraft(a, Typed, "none") IN new \in DraftRows /\ new.markdown = Typed
    BY DEF ADraft, DraftRows
  <2> QED
    BY <1>6, <2>1, <2>2 DEF DraftOK
<1>9. ASSUME NEW r \in NoteCalls, NEW d \in NoteDrafts,
             \/ ShowNoteDraftEditView(r, d)
             \/ \E a \in Artifacts : ShowNoteDraftDetailAPI(r, d, a)
      PROVE  NotesInv'
  <2>1. PICK copy : DraftOK(copy) /\ Begun(r, [doing |-> "editing", on |-> d, copy |-> copy])
    <3>0. draft[d] \in DraftRows
      BY <1>0 DEF DraftOK
    <3>1. \A a \in Artifacts :
            LET copy == [draft[d] EXCEPT !.source = a]
            IN  /\ copy \in DraftRows
                /\ copy.markdown = draft[d].markdown /\ copy.based_on = draft[d].based_on
      BY <3>0 DEF DraftRows
    <3>2. CASE ShowNoteDraftEditView(r, d)
      <4>1. LET copy == [draft[d] EXCEPT !.markdown = Typed]
            IN  copy \in DraftRows /\ copy.markdown = Typed
        BY <3>0 DEF DraftRows
      <4> QED
        BY <3>2, <4>1 DEF ShowNoteDraftEditView, DraftOK
    <3>3. CASE \E a \in Artifacts : ShowNoteDraftDetailAPI(r, d, a)
      BY <1>0, <3>1, <3>3 DEF ShowNoteDraftDetailAPI, DraftOK
    <3> QED
      BY <1>9, <3>2, <3>3
  <2>2. NoteCallOK([doing |-> "editing", on |-> d, copy |-> copy])
    BY <2>1 DEF NoteCallOK
  <2> QED
    BY <2>1, <2>2, NoteCallBegun
<1>10. ASSUME NEW r \in NoteCalls, SaveDraft(r) PROVE NotesInv'
  <2>1. /\ \E d, row : draft' = [draft EXCEPT ![d] = row] /\ DraftOK(row)
        /\ Ended(r) /\ UNCHANGED <<artifact, ruling>>
    BY <1>0, <1>10 DEF SaveDraft, NoteCallOK
  <2> QED
    BY <1>b, <2>1, NotesWritten
<1>11. ASSUME NEW d \in NoteDrafts, DeleteDraft(d) PROVE NotesInv'
  <2> DEFINE row == [NoDraft EXCEPT !.row = "deleted"]
  <2>1. draft' = [draft EXCEPT ![d] = row] /\ UNCHANGED <<artifact, ruling, noteCall>>
    BY <1>11 DEF DeleteDraft
  <2>2. DraftOK(row)
    BY DEF DraftOK, DraftRows, NoDraft, ADraft
  <2> QED
    BY <1>b, <2>1, <2>2, NotesWritten
<1>12. CASE UNCHANGED notesVars
  BY <1>b, <1>12, NotesWritten DEF notesVars
<1> QED
  BY <1>1, <1>2, <1>3, <1>4, <1>5, <1>7, <1>8, <1>9, <1>10, <1>11, <1>12 DEF NotesNext

DisputesTyped == disputed \subseteq Artifacts

LEMMA DisputesStart == NotesInit => DisputesTyped
BY DEF NotesInit, DisputesTyped

\* A decision is on an artifact, so what it disputes is one.
LEMMA DisputesStep ==
    ASSUME NotesInv, DisputesTyped, [NotesNext]_notesVars
    PROVE  DisputesTyped'
<1> USE DEF DisputesTyped
<1>1. ASSUME NEW r \in NoteCalls, SaveDecision(r) PROVE DisputesTyped'
  <2>1. noteCall[r].on \in Artifacts
    BY <1>1 DEF SaveDecision, NotesInv, NoteCallOK
  <2> QED
    BY <1>1, <2>1 DEF SaveDecision
<1>2. ASSUME ~\E r \in NoteCalls : SaveDecision(r) PROVE UNCHANGED disputed
  BY <1>2 DEF NotesNext, notesVars, AIArtifactGenerateAPI, EpisodeAIDraftsView, create_ai_artifact,
              CreateFromArtifact, SaveDraft, AIArtifactApproveView, AIArtifactUseView,
              ShowNoteDraftEditView, ShowNoteDraftDetailAPI, EpisodeShowNotesView,
              ShowNoteDraftListCreateAPI, DeleteDraft, Begun
<1> QED
  BY <1>1, <1>2

LEMMA NotesTypes == NotesInv /\ DisputesTyped => NotesTypeOK
<1>1. ASSUME NotesInv
      PROVE  draft \in [NoteDrafts -> DraftRows]
  BY <1>1 DEF NotesInv, DraftOK
<1> QED
  BY <1>1 DEF NotesInv, DisputesTyped, NotesTypeOK, DraftRows

\* The output of an artifact gets into a draft only when the last decision on it was to
\* approve it, unless two decisions overlapped; and it reads as show notes, unless the
\* episode itself speaks of questions.
THEOREM UsedApproved == NotesSpec => []UsedWasApproved
<1>1. NotesInv => UsedWasApproved
  <2> SUFFICES ASSUME NotesInv, NEW d \in NoteDrafts, draft[d].markdown # Typed
               PROVE  /\ draft[d].based_on \in {"approved", "disputed"}
                      /\ "question" \notin Subject => output_text(draft[d].markdown) = "show_notes"
    BY DEF UsedWasApproved
  <2>1. Approved(draft[d].markdown, draft[d].based_on)
    BY DEF NotesInv, DraftOK
  <2>2. output_text(draft[d].markdown) = MockAIProvider(Subject \cup generate_show_notes)
    BY <2>1 DEF Approved, output_text, Prompt
  <2> QED
    BY <2>1, <2>2, SaysShowNotes DEF Approved
<1> QED
  BY <1>1, NotesStart, NotesStep, PTL DEF NotesSpec

----------------------------------------------------------------------------
(* Accounts.                                                               *)

\* An uncontended address has at most one account; and where it has one, the requests that
\* are still creating one have settled on its username.
AtMostOne(a) == \A u, v \in With(a) : u = v

Settled(a) ==
    With(a) # {} => \A r \in Creating(a) : /\ accountCall[r].doing = "creating"
                                           /\ Taken(a, accountCall[r].username)

OneOrCreating == \A a \in Addresses \ contended : AtMostOne(a) /\ Settled(a)

\* What is not an invitation's own spelling is the gateway's.
GatewayIsCanonical ==
    \A a \in Addresses :
        /\ \A u \in With(a) : user[u].username # WholeAddress => Canonical[a] = a
        /\ \A r \in Creating(a) : accountCall[r].doing = "naming"
                                  \/ accountCall[r].username # WholeAddress => Canonical[a] = a

AccountInv ==
    /\ user = [u \in Users |-> user[u]]
    /\ accountCall = [r \in AccountCalls |-> accountCall[r]]
    /\ OneOrCreating
    /\ GatewayIsCanonical

\* Requests go on, and none begins to create an account.
LEMMA NoneBegins ==
    ASSUME AccountInv, UNCHANGED <<user, contended>>,
           accountCall' = [r \in AccountCalls |-> accountCall'[r]],
           \A a \in Addresses : Creating(a)' \subseteq Creating(a),
           \A a \in Addresses : \A r \in Creating(a)' : accountCall'[r] = accountCall[r]
    PROVE  AccountInv'
<1>1. \A a : With(a)' = With(a) /\ \A name : Taken(a, name)' = Taken(a, name)
  BY DEF With, Taken
<1> QED
  BY <1>1 DEF AccountInv, OneOrCreating, AtMostOne, Settled, GatewayIsCanonical

\* A request that has found no account begins to create one, or settles on its username.
LEMMA OneBegins ==
    ASSUME AccountInv, NEW r \in AccountCalls, NEW a, NEW call, call.email = a,
           call.doing \in {"naming", "creating"},
           call.doing = "naming" \/ call.username # WholeAddress => Canonical[a] = a,
           Now(r, call), With(a) = {} \/ a \in contended, UNCHANGED <<user, contended>>
    PROVE  AccountInv'
<1>1. accountCall' = [q \in AccountCalls |-> accountCall'[q]] /\ accountCall'[r] = call
      /\ \A q \in AccountCalls : q # r => accountCall'[q] = accountCall[q]
  BY DEF AccountInv, Now
<1>2. /\ \A b : With(b)' = With(b) /\ \A name : Taken(b, name)' = Taken(b, name)
      /\ \A b : b # a => Creating(b)' \subseteq Creating(b)
      /\ \A q \in Creating(a)' : q = r \/ q \in Creating(a)
      /\ \A b : b # a => r \notin Creating(b)'
  BY <1>1 DEF With, Creating, Taken
<1>3. OneOrCreating'
  BY <1>1, <1>2 DEF AccountInv, OneOrCreating, AtMostOne, Settled, Creating
<1>4. GatewayIsCanonical'
  <2> SUFFICES ASSUME NEW b \in Addresses, NEW q \in Creating(b)',
                      accountCall'[q].doing = "naming" \/ accountCall'[q].username # WholeAddress
               PROVE  Canonical[b] = b
    BY <1>2 DEF AccountInv, GatewayIsCanonical
  <2>1. CASE q = r
    BY <1>1, <1>2, <2>1
  <2>2. CASE q # r
    BY <1>1, <1>2, <2>2 DEF AccountInv, GatewayIsCanonical, Creating
  <2> QED
    BY <2>1, <2>2
<1> QED
  BY <1>1, <1>3, <1>4 DEF AccountInv

\* The account is inserted: whoever is still creating one of that address is a rival, or
\* has the username that is now taken.
LEMMA AccountCreated ==
    ASSUME AccountInv, NEW r \in AccountCalls, NEW a, NEW name, NEW u \in Users,
           r \in Creating(a), accountCall[r].doing = "creating", accountCall[r].email = a,
           accountCall[r].username = name, ~Taken(a, name), user[u] = NoUser,
           user' = [user EXCEPT ![u] = [email |-> a, username |-> name]],
           accountCall' = [q \in AccountCalls |-> accountCall'[q]],
           \A b \in Addresses : Creating(b)' \subseteq Creating(b) \ {r},
           \A q \in AccountCalls : q # r => accountCall'[q] = accountCall[q],
           contended' = contended \cup (IF Rivals(r) = {} THEN {} ELSE {a})
    PROVE  AccountInv'
<1>1. user' = [v \in Users |-> user'[v]] /\ user'[u] = [email |-> a, username |-> name]
      /\ \A v \in Users : v # u => user'[v] = user[v]
  BY DEF AccountInv
<1>2. user[u].email \notin Addresses
  BY NobodyAssumption DEF NoUser
<1>3. \A b \in Addresses : With(b)' = IF b = a THEN With(b) \cup {u} ELSE With(b)
  BY <1>1, <1>2 DEF With
<1>4. ASSUME NEW b \in Addresses \ contended', b # a PROVE AtMostOne(b)' /\ Settled(b)'
  <2>1. With(b)' = With(b) /\ b \in Addresses \ contended
    BY <1>3, <1>4
  <2>2. \A q \in Creating(b)' : q \in Creating(b) /\ accountCall'[q] = accountCall[q]
    BY <1>4 DEF Creating
  <2>3. \A v \in With(b) : user'[v] = user[v]
    BY <1>1, <1>2 DEF With
  <2>4. AtMostOne(b) /\ Settled(b)
    BY <2>1 DEF AccountInv, OneOrCreating
  <2> QED
    BY <2>1, <2>2, <2>3, <2>4 DEF AtMostOne, Settled, Taken
<1>5. ASSUME a \in Addresses \ contended' PROVE AtMostOne(a)' /\ Settled(a)'
  <2>1. AtMostOne(a) /\ Settled(a) /\ Rivals(r) = {}
    BY <1>5 DEF AccountInv, OneOrCreating
  <2>2. With(a)' = {u} /\ user'[u].username = name
    BY <1>1, <1>3, <1>5, <2>1 DEF Settled
  <2>3. \A q \in Creating(a)' : q \in Creating(a) \ {r} /\ accountCall'[q] = accountCall[q]
    BY <1>5 DEF Creating
  <2>4. \A q \in Creating(a) \ {r} : accountCall[q].doing = "creating" /\ accountCall[q].username = name
    BY <2>1 DEF Rivals, Creating
  <2>5. Settled(a)'
    BY <2>2, <2>3, <2>4 DEF Settled, Taken
  <2> QED
    BY <2>2, <2>5 DEF AtMostOne
<1>6. OneOrCreating'
  BY <1>4, <1>5 DEF OneOrCreating
<1>7. GatewayIsCanonical'
  <2> SUFFICES ASSUME NEW b \in Addresses
               PROVE  /\ \A v \in With(b)' : user'[v].username # WholeAddress => Canonical[b] = b
                      /\ \A q \in Creating(b)' :
                            accountCall'[q].doing = "naming"
                            \/ accountCall'[q].username # WholeAddress => Canonical[b] = b
    BY DEF GatewayIsCanonical
  <2>1. \A q \in Creating(b)' : q \in Creating(b) /\ accountCall'[q] = accountCall[q]
    BY DEF Creating
  <2>2. \A v \in With(b)' : v # u => v \in With(b) /\ user'[v] = user[v]
    BY <1>1, <1>3 DEF With
  <2>3. u \in With(b)' => b = a
    BY <1>1 DEF With
  <2>4. b = a /\ name # WholeAddress => Canonical[b] = b
    BY DEF AccountInv, GatewayIsCanonical
  <2> QED
    BY <1>1, <2>1, <2>2, <2>3, <2>4 DEF AccountInv, GatewayIsCanonical
<1> QED
  BY <1>1, <1>6, <1>7 DEF AccountInv

LEMMA AccountStep ==
    ASSUME AccountInv, [AccountNext]_accountVars
    PROVE  AccountInv'
<1>1. ASSUME NEW r \in AccountCalls, NEW a \in Addresses, GatewaySSOMiddleware(r, a)
      PROVE  AccountInv'
  <2>1. /\ Now(r, [doing |-> "naming", email |-> Canonical[a]]) /\ With(Canonical[a]) = {}
        /\ UNCHANGED <<user, contended>>
    BY <1>1 DEF GatewaySSOMiddleware
  <2> QED
    BY <2>1, OneBegins, CanonicalAssumption
<1>2. ASSUME NEW r \in AccountCalls, NEW call, Now(r, call), UNCHANGED <<user, contended>>,
             call.doing \notin {"naming", "creating"}
      PROVE  AccountInv'
  <2>1. accountCall' = [q \in AccountCalls |-> accountCall'[q]] /\ accountCall'[r] = call
        /\ \A q \in AccountCalls : q # r => accountCall'[q] = accountCall[q]
    BY <1>2 DEF AccountInv, Now
  <2>2. \A a \in Addresses : \A q \in Creating(a)' : q \in Creating(a) /\ accountCall'[q] = accountCall[q]
    BY <1>2, <2>1 DEF Creating
  <2> QED
    BY <1>2, <2>1, <2>2, NoneBegins
<1>3. ASSUME NEW r \in AccountCalls, NEW i \in Invitations, AcceptInviteView(r, i)
      PROVE  AccountInv'
  BY <1>2, <1>3 DEF AcceptInviteView
<1>4. ASSUME NEW r \in AccountCalls, ChooseUsername(r) PROVE AccountInv'
  <2>1. PICK a : a = accountCall[r].email
    OBVIOUS
  <2>2. PICK n : Now(r, [doing |-> "creating", email |-> a, username |-> n, for |-> Nobody])
    BY <1>4, <2>1 DEF ChooseUsername
  <2>3. accountCall[r].doing = "naming" /\ r \in Creating(a) /\ UNCHANGED <<user, contended>>
    BY <1>4, <2>1 DEF ChooseUsername, Creating
  <2>4. CASE a \in Addresses
    <3>1. Canonical[a] = a
      BY <2>3, <2>4 DEF AccountInv, GatewayIsCanonical
    <3>2. With(a) = {} \/ a \in contended
      BY <2>3, <2>4 DEF AccountInv, OneOrCreating, Settled
    <3> DEFINE call == [doing |-> "creating", email |-> a, username |-> n, for |-> Nobody]
    <3>3. call.email = a /\ call.doing = "creating" /\ Now(r, call)
      BY <2>2
    <3> HIDE DEF call
    <3> QED
      BY <2>3, <3>1, <3>2, <3>3, OneBegins
  <2>5. CASE a \notin Addresses
    <3>1. accountCall' = [q \in AccountCalls |-> accountCall'[q]] /\ accountCall'[r].email = a
          /\ \A q \in AccountCalls : q # r => accountCall'[q] = accountCall[q]
      BY <2>2 DEF AccountInv, Now
    <3>2. \A b \in Addresses : \A q \in Creating(b)' : q \in Creating(b) /\ accountCall'[q] = accountCall[q]
      BY <2>5, <3>1 DEF Creating
    <3> QED
      BY <2>3, <3>1, <3>2, NoneBegins
  <2> QED
    BY <2>4, <2>5
<1>5. ASSUME NEW r \in AccountCalls, create_user(r) PROVE AccountInv'
  <2>1. PICK a, name : a = accountCall[r].email /\ name = accountCall[r].username
    OBVIOUS
  <2>2. PICK call : call.doing \in {"idle", "welcoming"} /\ Now(r, call)
    BY <1>5 DEF create_user, Rest, Unoccupied
  <2>3. r \in Creating(a) /\ accountCall[r].doing = "creating"
    BY <1>5, <2>1 DEF create_user, Creating
  <2>4. CASE UNCHANGED <<user, contended>>
    BY <1>2, <2>2, <2>4
  <2>5. ASSUME NEW u \in Users, user[u] = NoUser, ~Taken(a, name),
               user' = [user EXCEPT ![u] = [email |-> a, username |-> name]],
               contended' = contended \cup (IF Rivals(r) = {} THEN {} ELSE {a})
        PROVE  AccountInv'
    <3>1. accountCall' = [q \in AccountCalls |-> accountCall'[q]] /\ accountCall'[r] = call
          /\ \A q \in AccountCalls : q # r => accountCall'[q] = accountCall[q]
      BY <2>2 DEF AccountInv, Now
    <3>2. \A b \in Addresses : Creating(b)' \subseteq Creating(b) \ {r}
      BY <2>2, <3>1 DEF Creating
    <3> QED
      BY <2>1, <2>3, <2>5, <3>1, <3>2, AccountCreated
  <2> QED
    BY <1>5, <2>1, <2>4, <2>5 DEF create_user
<1>6. ASSUME NEW r \in AccountCalls, GetOrCreateUser(r) PROVE AccountInv'
  <2>1. PICK i, a : i = accountCall[r].for /\ a = invitation[i].email
    OBVIOUS
  <2>2. UNCHANGED <<user, contended>>
    BY <1>6 DEF GetOrCreateUser
  <2>3. CASE With(a) = {}
    <3> DEFINE call == [doing |-> "creating", email |-> a, username |-> WholeAddress, for |-> i]
    <3>1. Now(r, call)
      BY <1>6, <2>1, <2>3, FS_EmptySet DEF GetOrCreateUser
    <3> QED
      BY <2>2, <2>3, <3>1, OneBegins
  <2>4. CASE With(a) # {}
    <3>1. \E call : call.doing \in {"welcoming", "idle"} /\ Now(r, call)
      BY <1>6, <2>1, <2>4 DEF GetOrCreateUser, Rest, Unoccupied
    <3> QED
      BY <1>2, <2>2, <3>1
  <2> QED
    BY <2>3, <2>4
<1>7. ASSUME NEW r \in AccountCalls, SaveInvitation(r) PROVE AccountInv'
  BY <1>2, <1>7 DEF SaveInvitation, Rest, Unoccupied
<1>8. CASE UNCHANGED <<user, accountCall, contended>>
  BY <1>8 DEF AccountInv, OneOrCreating, AtMostOne, Settled, GatewayIsCanonical, With, Taken, Creating
<1> QED
  BY <1>1, <1>3, <1>4, <1>5, <1>6, <1>7, <1>8
     DEF AccountNext, RequestAccessView, ReviewAccessRequestView, InvitationActionView,
         InviteUserView, accountVars

LEMMA AccountStart == AccountInit => AccountInv
BY NobodyAssumption DEF AccountInit, AccountInv, OneOrCreating, AtMostOne, Settled,
                        GatewayIsCanonical, With, Creating, NoUser, Unoccupied

\* An invitation that somebody has sent.
Sent(i) == i \in Invitations /\ invitation[i].state # "none"

AccountCallTyped(call) ==
    /\ call.doing = "naming" => call.email \in Addresses
    /\ call.doing = "creating" => /\ call.email \in Addresses /\ call.username \in Usernames
                                  /\ call.for = Nobody \/ Sent(call.for)
    /\ call.doing \in {"accepting", "welcoming"} => Sent(call.for)

\* Rows that were inserted have an address; requests hold rows of these.
AccountsTyped ==
    /\ AccountTypeOK
    /\ \A q \in AccessRequests : access[q] # NoRequest => access[q].email \in Addresses
    /\ \A i \in Invitations : Sent(i) => invitation[i].email \in Addresses
    /\ \A r \in AccountCalls : AccountCallTyped(accountCall[r])

LEMMA AccountsTypedStart == AccountInit => AccountsTyped
BY NumbersAssumption
   DEF AccountInit, AccountsTyped, AccountTypeOK, AccountCallTyped, Sent, NoUser, NoRequest,
       NoInvitation, Unoccupied, Usernames

\* A request goes on; what its row holds is typed.
LEMMA AccountCallMoves ==
    ASSUME AccountInv, AccountsTyped, NEW r \in AccountCalls, NEW call, Now(r, call),
           UNCHANGED <<access, invitation>>, AccountCallTyped(call),
           user' \in [Users -> [email : Addresses \cup {Nobody}, username : Usernames]],
           contended' \subseteq Addresses
    PROVE  AccountsTyped'
<1>1. \A q \in AccountCalls : accountCall'[q] \in {accountCall[q], call}
  BY DEF AccountInv, Now
<1>2. \A i : Sent(i)' <=> Sent(i)
  BY DEF Sent
<1>4. \A q \in AccountCalls : AccountCallTyped(accountCall[q])'
  BY <1>1, <1>2 DEF AccountsTyped, AccountCallTyped
<1> QED
  BY <1>2, <1>4 DEF AccountsTyped, AccountTypeOK

\* Rows of access requests and invitations are written; no invitation becomes unsent.
LEMMA InvitationsWritten ==
    ASSUME AccountsTyped, UNCHANGED <<user, contended, accountCall>>,
           access' \in [AccessRequests -> [email : Addresses \cup {Nobody},
                                      status : {"none", "pending", "approved", "declined"}]],
           invitation' \in [Invitations -> [email : Addresses \cup {Nobody},
                                       state : {"none", "open", "accepted", "revoked"}]],
           \A q \in AccessRequests : access'[q] # NoRequest => access'[q].email \in Addresses,
           \A i : Sent(i) => Sent(i)',
           \A i \in Invitations : Sent(i)' => invitation'[i].email \in Addresses
    PROVE  AccountsTyped'
<1>1. \A c : AccountCallTyped(c) => AccountCallTyped(c)'
  BY DEF AccountCallTyped
<1> QED
  BY <1>1 DEF AccountsTyped, AccountTypeOK

LEMMA AccountsTypedStep ==
    ASSUME AccountInv, AccountsTyped, [AccountNext]_accountVars
    PROVE  AccountsTyped'
<1>0. /\ user \in [Users -> [email : Addresses \cup {Nobody}, username : Usernames]]
      /\ access \in [AccessRequests -> [email : Addresses \cup {Nobody},
                                      status : {"none", "pending", "approved", "declined"}]]
      /\ invitation \in [Invitations -> [email : Addresses \cup {Nobody},
                                       state : {"none", "open", "accepted", "revoked"}]]
      /\ contended \subseteq Addresses
      /\ \A r \in AccountCalls : AccountCallTyped(accountCall[r])
      /\ \A q \in AccessRequests : access[q] # NoRequest => access[q].email \in Addresses
      /\ \A i \in Invitations : Sent(i) => invitation[i].email \in Addresses
  BY DEF AccountsTyped, AccountTypeOK
<1>u. AccountCallTyped(Unoccupied)
  BY DEF AccountCallTyped, Unoccupied
<1>1. ASSUME NEW r \in AccountCalls, NEW a \in Addresses, GatewaySSOMiddleware(r, a)
      PROVE  AccountsTyped'
  <2> DEFINE call == [doing |-> "naming", email |-> Canonical[a]]
  <2>1. Now(r, call) /\ UNCHANGED <<user, access, invitation, contended>>
    BY <1>1 DEF GatewaySSOMiddleware
  <2>2. AccountCallTyped(call)
    BY CanonicalAssumption DEF AccountCallTyped
  <2> HIDE DEF call
  <2> QED
    BY <1>0, <2>1, <2>2, AccountCallMoves
<1>2. ASSUME NEW r \in AccountCalls, NEW i \in Invitations, AcceptInviteView(r, i)
      PROVE  AccountsTyped'
  <2> DEFINE call == [doing |-> "accepting", for |-> i]
  <2>1. Now(r, call) /\ Sent(i) /\ UNCHANGED <<user, access, invitation, contended>>
    BY <1>2 DEF AcceptInviteView, Sent
  <2>2. AccountCallTyped(call)
    BY <2>1 DEF AccountCallTyped
  <2> HIDE DEF call
  <2> QED
    BY <1>0, <2>1, <2>2, AccountCallMoves
<1>3. ASSUME NEW r \in AccountCalls, ChooseUsername(r) PROVE AccountsTyped'
  <2>1. PICK a : a = accountCall[r].email
    OBVIOUS
  <2>2. PICK n \in 0..LastNumber :
          Now(r, [doing |-> "creating", email |-> a, username |-> n, for |-> Nobody])
    BY <1>3, <2>1 DEF ChooseUsername
  <2> DEFINE call == [doing |-> "creating", email |-> a, username |-> n, for |-> Nobody]
  <2>3. a \in Addresses
    BY <1>0, <1>3, <2>1 DEF ChooseUsername, AccountCallTyped
  <2>4. AccountCallTyped(call)
    BY <2>3, NumbersAssumption DEF AccountCallTyped, Usernames
  <2>5. UNCHANGED <<user, access, invitation, contended>>
    BY <1>3 DEF ChooseUsername
  <2> HIDE DEF call
  <2>6. Now(r, call)
    BY <2>2 DEF call
  <2> QED
    BY <1>0, <2>4, <2>5, <2>6, AccountCallMoves
<1>4. ASSUME NEW r \in AccountCalls, create_user(r) PROVE AccountsTyped'
  <2>1. PICK a, name, i : a = accountCall[r].email /\ name = accountCall[r].username
                          /\ i = accountCall[r].for
    OBVIOUS
  <2>2. a \in Addresses /\ name \in Usernames /\ (i = Nobody \/ Sent(i))
        /\ UNCHANGED <<access, invitation>> /\ contended' \subseteq Addresses
    BY <1>0, <1>4, <2>1 DEF create_user, AccountCallTyped
  <2>3. \/ Now(r, Unoccupied)
        \/ i # Nobody /\ Now(r, [doing |-> "welcoming", for |-> i])
    BY <1>4, <2>1 DEF create_user, Rest
  <2>4. i # Nobody => AccountCallTyped([doing |-> "welcoming", for |-> i])
    BY <2>2 DEF AccountCallTyped
  <2>5. UNCHANGED user
        \/ \E u \in Users : user' = [user EXCEPT ![u] = [email |-> a, username |-> name]]
    BY <1>4, <2>1 DEF create_user
  <2>6. user' \in [Users -> [email : Addresses \cup {Nobody}, username : Usernames]]
    BY <1>0, <2>2, <2>5
  <2> QED
    BY <1>0, <1>u, <2>2, <2>3, <2>4, <2>6, AccountCallMoves
<1>5. ASSUME NEW r \in AccountCalls, GetOrCreateUser(r) PROVE AccountsTyped'
  <2>1. PICK i, a : i = accountCall[r].for /\ a = invitation[i].email
    OBVIOUS
  <2>2. Sent(i) /\ a \in Addresses /\ UNCHANGED <<user, access, invitation, contended>>
    BY <1>0, <1>5, <2>1 DEF GetOrCreateUser, AccountCallTyped, Sent
  <2>4. \/ Now(r, [doing |-> "creating", email |-> a, username |-> WholeAddress, for |-> i])
        \/ Now(r, [doing |-> "welcoming", for |-> i])
        \/ Now(r, Unoccupied)
    BY <1>5, <2>1 DEF GetOrCreateUser, Rest
  <2>5. /\ AccountCallTyped([doing |-> "creating", email |-> a, username |-> WholeAddress, for |-> i])
        /\ AccountCallTyped([doing |-> "welcoming", for |-> i])
    BY <2>2, NumbersAssumption DEF AccountCallTyped, WholeAddress, Usernames
  <2> QED
    BY <1>0, <1>u, <2>2, <2>4, <2>5, AccountCallMoves
<1>6. ASSUME NEW r \in AccountCalls, SaveInvitation(r) PROVE AccountsTyped'
  <2>1. PICK i : i = accountCall[r].for
    OBVIOUS
  <2>2. /\ Sent(i) /\ Now(r, Unoccupied) /\ UNCHANGED <<user, access, contended>>
        /\ invitation' = [invitation EXCEPT ![i] = [invitation[i] EXCEPT !.state = "accepted"]]
    BY <1>0, <1>6, <2>1 DEF SaveInvitation, AccountCallTyped, Rest
  <2>3. invitation' \in [Invitations -> [email : Addresses \cup {Nobody},
                                       state : {"none", "open", "accepted", "revoked"}]]
    BY <1>0, <2>2 DEF Sent
  <2>4. /\ \A j : Sent(j) <=> Sent(j)'
        /\ \A j \in Invitations : invitation'[j].email = invitation[j].email
    BY <1>0, <2>2 DEF Sent
  <2>5. \A q \in AccountCalls : accountCall'[q] \in {accountCall[q], Unoccupied}
    BY <2>2 DEF AccountInv, Now
  <2>6. \A c : AccountCallTyped(c) => AccountCallTyped(c)'
    BY <2>4 DEF AccountCallTyped
  <2> QED
    BY <1>0, <1>u, <2>2, <2>3, <2>4, <2>5, <2>6 DEF AccountsTyped, AccountTypeOK
<1>7. ASSUME NEW i \in Invitations, NEW a \in Addresses, Invite(i, a)
      PROVE  /\ invitation' \in [Invitations -> [email : Addresses \cup {Nobody},
                                       state : {"none", "open", "accepted", "revoked"}]]
             /\ \A j : Sent(j) => Sent(j)'
             /\ \A j \in Invitations : Sent(j)' => invitation'[j].email \in Addresses
  BY <1>0, <1>7 DEF Invite, Sent
<1>8. ASSUME NEW i \in Invitations, NEW a \in Addresses, InviteUserView(i, a) PROVE AccountsTyped'
  BY <1>0, <1>7, <1>8, InvitationsWritten DEF InviteUserView
<1>9. ASSUME NEW i \in Invitations, InvitationActionView(i) PROVE AccountsTyped'
  <2>1. /\ invitation' = [invitation EXCEPT ![i] = [invitation[i] EXCEPT !.state = "revoked"]]
        /\ Sent(i) /\ UNCHANGED <<user, access, accountCall, contended>>
    BY <1>9 DEF InvitationActionView, Sent
  <2>2. /\ invitation' \in [Invitations -> [email : Addresses \cup {Nobody},
                                       state : {"none", "open", "accepted", "revoked"}]]
        /\ \A j : Sent(j) <=> Sent(j)'
        /\ \A j \in Invitations : invitation'[j].email = invitation[j].email
    BY <1>0, <2>1 DEF Sent
  <2> QED
    BY <1>0, <2>1, <2>2, InvitationsWritten
<1>10. ASSUME NEW q \in AccessRequests, NEW a \in Addresses, RequestAccessView(q, a)
       PROVE  AccountsTyped'
  <2>1. /\ access' = [access EXCEPT ![q] = [email |-> a, status |-> "pending"]]
        /\ UNCHANGED <<user, invitation, accountCall, contended>>
    BY <1>10 DEF RequestAccessView
  <2>2. /\ access' \in [AccessRequests -> [email : Addresses \cup {Nobody},
                                      status : {"none", "pending", "approved", "declined"}]]
        /\ \A p \in AccessRequests : access'[p] # NoRequest => access'[p].email \in Addresses
    BY <1>0, <2>1
  <2>3. \A j : Sent(j) <=> Sent(j)'
    BY <2>1 DEF Sent
  <2> QED
    BY <1>0, <2>1, <2>2, <2>3, InvitationsWritten
<1>11. ASSUME NEW q \in AccessRequests, NEW i \in Invitations, NEW approve \in BOOLEAN,
              ReviewAccessRequestView(q, i, approve)
       PROVE  AccountsTyped'
  <2>1. PICK status \in {"approved", "declined"} :
          access' = [access EXCEPT ![q] = [access[q] EXCEPT !.status = status]]
    BY <1>11 DEF ReviewAccessRequestView
  <2>2. access[q].email \in Addresses /\ UNCHANGED <<user, accountCall, contended>>
    BY <1>0, <1>11 DEF ReviewAccessRequestView
  <2>3. /\ access' \in [AccessRequests -> [email : Addresses \cup {Nobody},
                                      status : {"none", "pending", "approved", "declined"}]]
        /\ \A p \in AccessRequests : access'[p] # NoRequest => access'[p].email \in Addresses
    BY <1>0, <2>1, <2>2
  <2>4. CASE Invite(i, access[q].email)
    BY <1>7, <2>2, <2>3, <2>4, InvitationsWritten
  <2>5. CASE UNCHANGED invitation
    <3>1. \A j : Sent(j) <=> Sent(j)'
      BY <2>5 DEF Sent
    <3> QED
      BY <1>0, <2>2, <2>3, <2>5, <3>1, InvitationsWritten
  <2> QED
    BY <1>11, <2>4, <2>5 DEF ReviewAccessRequestView
<1>12. CASE UNCHANGED accountVars
  <2>1. UNCHANGED <<user, access, invitation, accountCall, contended>>
    BY <1>12 DEF accountVars
  <2>2. \A j : Sent(j) <=> Sent(j)'
    BY <2>1 DEF Sent
  <2> QED
    BY <1>0, <2>1, <2>2, InvitationsWritten
<1> QED
  BY <1>1, <1>2, <1>3, <1>4, <1>5, <1>6, <1>8, <1>9, <1>10, <1>11, <1>12 DEF AccountNext

\* A person has one account, unless two requests that had found none were creating accounts
\* under different usernames, or an invitation was typed in a spelling that is not canonical.
THEOREM OneAccountEach == AccountSpec => []OneAccountPerAddress
<1>1. AccountInv => OneAccountPerAddress
  <2> SUFFICES ASSUME AccountInv, NEW a \in Addresses, NEW b \in Addresses,
                      NEW u \in With(a), NEW v \in With(b), u # v, Canonical[a] = Canonical[b]
               PROVE  \/ a = b /\ a \in contended
                      \/ a # b /\ \E w \in {u, v} : /\ user[w].username = WholeAddress
                                                   /\ user[w].email # Canonical[user[w].email]
    BY DEF OneAccountPerAddress
  <2>1. CASE a = b
    BY <2>1 DEF AccountInv, OneOrCreating, AtMostOne
  <2>2. CASE a # b
    <3>1. user[u].email = a /\ user[v].email = b
      BY DEF With
    <3>2. Canonical[a] # a \/ Canonical[b] # b
      BY <2>2
    <3>3. /\ Canonical[a] # a => user[u].username = WholeAddress
          /\ Canonical[b] # b => user[v].username = WholeAddress
      BY DEF AccountInv, GatewayIsCanonical
    <3> QED
      BY <2>2, <3>1, <3>2, <3>3
  <2> QED
    BY <2>1, <2>2
<1> QED
  BY <1>1, AccountStart, AccountStep, PTL DEF AccountSpec

----------------------------------------------------------------------------
(* Roles.                                                                  *)

\* A row of the table is one assignment or none.
OneRowEach == \A a \in Assignments : \A x, y \in RowAt(a) : x = y

RoleInv ==
    /\ show = [s \in Shows |-> show[s]]
    /\ assignment = [a \in Assignments |-> assignment[a]]
    /\ roleCall = [r \in RoleCalls |-> roleCall[r]]
    /\ \A a \in Assignments : \A row \in RowAt(a) : row \in AssignmentRows
    /\ OneRowEach
    /\ \A r \in RoleCalls :
         /\ roleCall[r].doing = "removing" =>
              roleCall[r].who \in Members /\ roleCall[r].held = "admin"
         /\ roleCall[r].doing = "assigning" =>
              roleCall[r].show \in Shows /\ roleCall[r].user \in Members
              /\ roleCall[r].role \in DOMAIN HIERARCHY

\* Without an assignment as administrator nobody but a superuser is one.
LEMMA HighestIsHeld ==
    ASSUME NEW roles \in SUBSET DOMAIN HIERARCHY, roles # {}
    PROVE  highest_role(roles) \in roles
<1>1. DOMAIN HIERARCHY = {"guest", "editor", "producer", "host", "admin"}
      /\ HIERARCHY.guest = 1 /\ HIERARCHY.editor = 2 /\ HIERARCHY.producer = 3
      /\ HIERARCHY.host = 4 /\ HIERARCHY.admin = 5
  BY DEF HIERARCHY
<1>2. \E role \in roles : \A other \in roles : HIERARCHY[other] <= HIERARCHY[role]
  <2>1. CASE "admin" \in roles
    BY <1>1, <2>1
  <2>2. CASE "admin" \notin roles /\ "host" \in roles
    BY <1>1, <2>2
  <2>3. CASE "admin" \notin roles /\ "host" \notin roles /\ "producer" \in roles
    BY <1>1, <2>3
  <2>4. CASE roles \subseteq {"guest", "editor"} /\ "editor" \in roles
    BY <1>1, <2>4
  <2>5. CASE roles \subseteq {"guest"}
    BY <1>1, <2>5
  <2> QED
    BY <1>1, <2>1, <2>2, <2>3, <2>4, <2>5
<1> QED
  BY <1>2 DEF highest_role

LEMMA AdministratorHasRow ==
    ASSUME RoleInv, NEW u, NEW s, get_user_role_for_show(u, s) = "admin", u \notin Superusers
    PROVE  \E a \in Assignments : \E row \in RowAt(a) :
               row.user = u /\ row.show = s /\ row.role = "admin"
<1>1. \A row \in AssignmentsOf(u, s) :
        /\ row.role \in DOMAIN HIERARCHY
        /\ \E a \in Assignments : row \in RowAt(a) /\ row.user = u /\ row.show = s
  BY DEF RoleInv, AssignmentsOf, AssignmentRows
<1>2. RolesOf(u, s) \subseteq DOMAIN HIERARCHY
  BY <1>1 DEF RolesOf
<1>3. RolesOf(u, s) # {} /\ highest_role(RolesOf(u, s)) = "admin"
  BY DEF get_user_role_for_show
<1>4. "admin" \in RolesOf(u, s)
  BY <1>2, <1>3, HighestIsHeld
<1> QED
  BY <1>1, <1>4 DEF RolesOf

\* A request goes on or ends; rows are inserted where there were none, or go.
LEMMA CallGoesOn ==
    ASSUME RoleInv, UNCHANGED <<show, assignment>>, NEW r \in RoleCalls, NEW call, Does(r, call),
           call.doing = "removing" => call.who \in Members /\ call.held = "admin",
           call.doing = "assigning" => /\ call.show \in Shows /\ call.user \in Members
                                       /\ call.role \in DOMAIN HIERARCHY
    PROVE  RoleInv'
BY DEF RoleInv, Does, OneRowEach, RowAt

LEMMA CallAnswers ==
    ASSUME RoleInv, NEW r \in RoleCalls, Answers(r)
    PROVE  /\ roleCall' = [q \in RoleCalls |-> roleCall'[q]] /\ roleCall'[r] = Waiting
           /\ \A q \in RoleCalls : q # r => roleCall'[q] = roleCall[q]
           /\ \A q \in RoleCalls :
                /\ roleCall'[q].doing = "removing" =>
                     roleCall'[q].who \in Members /\ roleCall'[q].held = "admin"
                /\ roleCall'[q].doing = "assigning" =>
                     roleCall'[q].show \in Shows /\ roleCall'[q].user \in Members
                     /\ roleCall'[q].role \in DOMAIN HIERARCHY
BY DEF RoleInv, Answers, Does, Waiting

LEMMA RoleStart == RoleInit => RoleInv
BY DEF RoleInit, RoleInv, OneRowEach, RowAt, Unborn, Waiting

LEMMA RoleStep ==
    ASSUME RoleInv, [RoleNext]_roleVars
    PROVE  RoleInv'
<1>0. /\ roleCall = [r \in RoleCalls |-> roleCall[r]]
      /\ assignment = [a \in Assignments |-> assignment[a]]
      /\ DOMAIN HIERARCHY = {"guest", "editor", "producer", "host", "admin"}
  BY DEF RoleInv, HIERARCHY
<1>1. ASSUME NEW r \in RoleCalls, SaveAssignment(r) PROVE RoleInv'
  <2>1. PICK row : row = [show |-> roleCall[r].show, user |-> roleCall[r].user,
                          role |-> roleCall[r].role]
    OBVIOUS
  <2>2. row \in AssignmentRows /\ Answers(r) /\ UNCHANGED show
    BY <1>1, <2>1 DEF SaveAssignment, RoleInv, AssignmentRows
  <2>3. \A a \in Assignments :
          \/ assignment'[a] = assignment[a]
          \/ assignment'[a] = {row}
    BY <1>0, <1>1, <2>1 DEF SaveAssignment
  <2>4. assignment' = [a \in Assignments |-> assignment'[a]]
    BY <1>0, <1>1 DEF SaveAssignment
  <2>5. \A a \in Assignments : \A x, y \in RowAt(a)' : x = y /\ x \in AssignmentRows
    BY <2>2, <2>3 DEF RowAt, RoleInv, OneRowEach
  <2> QED
    BY <2>2, <2>4, <2>5, CallAnswers DEF RoleInv, OneRowEach
<1>2. ASSUME NEW r \in RoleCalls, DeleteAssignment(r) PROVE RoleInv'
  <2>1. Answers(r) /\ UNCHANGED show
    BY <1>2 DEF DeleteAssignment
  <2>2. \/ UNCHANGED assignment
        \/ \E a : assignment' = [assignment EXCEPT ![a] = Gone]
    BY <1>2 DEF DeleteAssignment
  <2>3. assignment' = [a \in Assignments |-> assignment'[a]]
        /\ \A a \in Assignments : RowAt(a)' \subseteq RowAt(a)
    BY <1>0, <2>2 DEF RowAt, Gone
  <2> QED
    BY <2>1, <2>3, CallAnswers DEF RoleInv, OneRowEach
<1>3. ASSUME NEW r \in RoleCalls, CallDies(r) PROVE RoleInv'
  BY <1>3, CallAnswers DEF CallDies, RoleInv, OneRowEach, RowAt
<1>4. ASSUME NEW r \in RoleCalls, NEW u \in Members, NEW s \in Shows, ShowCreateView(r, u, s)
      PROVE  RoleInv'
  <2> DEFINE call == [doing |-> "assigning", who |-> u, show |-> s, user |-> u, role |-> "admin"]
  <2>1. /\ show' = [show EXCEPT ![s] = "made"] /\ UNCHANGED assignment
        /\ roleCall' = [roleCall EXCEPT ![r] = call]
    BY <1>4 DEF ShowCreateView, Does
  <2>2. /\ call.doing = "assigning" /\ call.show \in Shows /\ call.user \in Members
        /\ call.role \in DOMAIN HIERARCHY
    BY <1>0
  <2> HIDE DEF call
  <2> QED
    BY <2>1, <2>2 DEF RoleInv, OneRowEach, RowAt
<1>5. ASSUME NEW r \in RoleCalls, NEW u \in Members, NEW s \in Shows, NEW v \in Members,
             NEW role \in Granted, PostRole(r, u, s, v, role)
      PROVE  RoleInv'
  <2> DEFINE call == [doing |-> "assigning", who |-> u, show |-> s, user |-> v, role |-> role]
  <2>1. Does(r, call) /\ UNCHANGED <<show, assignment>>
    BY <1>5 DEF PostRole
  <2>2. /\ call.doing = "assigning" /\ call.show \in Shows /\ call.user \in Members
        /\ call.role \in DOMAIN HIERARCHY
    BY <1>0, RoleConstants
  <2> HIDE DEF call
  <2> QED
    BY <2>1, <2>2, CallGoesOn
<1>6. ASSUME NEW r \in RoleCalls, NEW u \in Members, NEW s \in Shows, NEW a \in Assignments,
             PostRemoval(r, u, s, a)
      PROVE  RoleInv'
  <2> DEFINE call == [doing |-> "removing", who |-> u, show |-> s, id |-> a,
                      held |-> get_user_role_for_show(u, s)]
  <2>1. Does(r, call) /\ UNCHANGED <<show, assignment>>
    BY <1>6 DEF PostRemoval
  <2>2. call.doing = "removing" /\ call.who \in Members /\ call.held = "admin"
    BY <1>6 DEF PostRemoval, Checked, has_role, required_roles
  <2> HIDE DEF call
  <2> QED
    BY <2>1, <2>2, CallGoesOn
<1>7. ASSUME NEW u \in Members, NEW s \in Shows, ShowListCreateAPI(u, s) PROVE RoleInv'
  BY <1>7 DEF ShowListCreateAPI, RoleInv, OneRowEach, RowAt
<1>8. ASSUME NEW u \in Members, NEW s \in Shows, ShowDetailAPI(u, s) PROVE RoleInv'
  <2>1. show' = [show EXCEPT ![s] = "deleted"] /\ UNCHANGED roleCall
    BY <1>8 DEF ShowDetailAPI
  <2>2. assignment' = [a \in Assignments |-> assignment'[a]]
        /\ \A a \in Assignments : RowAt(a)' \subseteq RowAt(a)
    BY <1>8 DEF ShowDetailAPI, RowAt, Gone
  <2> QED
    BY <2>1, <2>2 DEF RoleInv, OneRowEach
<1>9. CASE UNCHANGED roleVars
  BY <1>9 DEF roleVars, RoleInv, OneRowEach, RowAt
<1> QED
  BY <1>1, <1>2, <1>3, <1>4, <1>5, <1>6, <1>7, <1>8, <1>9 DEF RoleNext

\* The rows of a show that was deleted are gone with it.
RolesTyped ==
    /\ show \in [Shows -> {"unmade", "made", "deleted"}]
    /\ \A a \in Assignments : assignment[a] \in {Unborn, Gone} \cup {{row} : row \in AssignmentRows}
    /\ \A a \in Assignments : \A row \in RowAt(a) : show[row.show] = "made"

LEMMA RolesTypedStart == RoleInit => RolesTyped
BY DEF RoleInit, RolesTyped, RowAt, Unborn

LEMMA RolesTypedStep ==
    ASSUME RoleInv, RolesTyped, [RoleNext]_roleVars
    PROVE  RolesTyped'
<1>0. /\ show \in [Shows -> {"unmade", "made", "deleted"}]
      /\ assignment = [a \in Assignments |-> assignment[a]]
      /\ \A a \in Assignments : assignment[a] \in {Unborn, Gone} \cup {{row} : row \in AssignmentRows}
      /\ \A a \in Assignments : \A row \in RowAt(a) : show[row.show] = "made"
  BY DEF RoleInv, RolesTyped
<1>1. ASSUME NEW r \in RoleCalls, SaveAssignment(r) PROVE RolesTyped'
  <2>1. PICK row : row = [show |-> roleCall[r].show, user |-> roleCall[r].user,
                          role |-> roleCall[r].role]
    OBVIOUS
  <2>2. row \in AssignmentRows /\ UNCHANGED show
    BY <1>1, <2>1 DEF SaveAssignment, RoleInv, AssignmentRows
  <2>3. \A a \in Assignments :
          \/ assignment'[a] = assignment[a]
          \/ assignment'[a] = {row} /\ show[row.show] = "made"
    BY <1>0, <1>1, <2>1 DEF SaveAssignment
  <2> QED
    BY <1>0, <2>2, <2>3 DEF RolesTyped, RowAt
<1>2. ASSUME NEW r \in RoleCalls, DeleteAssignment(r) PROVE RolesTyped'
  <2>1. \A a \in Assignments : assignment'[a] \in {assignment[a], Gone}
    BY <1>0, <1>2 DEF DeleteAssignment
  <2> QED
    BY <1>0, <1>2, <2>1 DEF DeleteAssignment, RolesTyped, RowAt, Gone
<1>3. ASSUME NEW s \in Shows, show[s] = "unmade", show' = [show EXCEPT ![s] = "made"],
             UNCHANGED assignment
      PROVE  RolesTyped'
  BY <1>0, <1>3 DEF RolesTyped, RowAt
<1>4. ASSUME NEW u \in Members, NEW s \in Shows, ShowDetailAPI(u, s) PROVE RolesTyped'
  <2>1. show' = [show EXCEPT ![s] = "deleted"]
    BY <1>4 DEF ShowDetailAPI
  <2>2. \A a \in Assignments :
          \/ assignment'[a] = Gone
          \/ assignment'[a] = assignment[a] /\ \A row \in RowAt(a) : row.show # s
    BY <1>4 DEF ShowDetailAPI
  <2>3. \A a \in Assignments : \A row \in RowAt(a)' : row \in RowAt(a) /\ row.show # s
    BY <2>2 DEF RowAt, Gone
  <2>4. \A a \in Assignments : \A row \in RowAt(a)' : show'[row.show] = "made"
    BY <1>0, <2>1, <2>3 DEF RoleInv, AssignmentRows
  <2> QED
    BY <1>0, <2>1, <2>2, <2>4 DEF RolesTyped
<1>5. CASE UNCHANGED <<show, assignment>>
  BY <1>0, <1>5 DEF RolesTyped, RowAt
<1> QED
  BY <1>1, <1>2, <1>3, <1>4, <1>5
     DEF RoleNext, CallDies, ShowCreateView, PostRole, PostRemoval, ShowListCreateAPI, roleVars

LEMMA RoleTypes == RolesTyped => RoleTypeOK
<1> SUFFICES ASSUME RolesTyped, NEW a \in Assignments
             PROVE  assignment[a] = Gone \/ (assignment[a] \subseteq AssignmentRows
                                              /\ Cardinality(assignment[a]) <= 1)
  BY DEF RolesTyped, RoleTypeOK
<1>1. CASE assignment[a] = Unborn
  BY <1>1, FS_EmptySet DEF Unborn
<1>2. ASSUME NEW row \in AssignmentRows, assignment[a] = {row}
      PROVE  assignment[a] \subseteq AssignmentRows /\ Cardinality(assignment[a]) <= 1
  <2>1. Cardinality({row}) = 1
    BY FS_Singleton
  <2> QED
    BY <1>2, <2>1
<1> QED
  BY <1>1, <1>2 DEF RolesTyped

\* A show with an administrator keeps one until it is deleted, unless a removal was of the
\* sender's own row, a superuser's, or of a sender who had lost the role meanwhile.
THEOREM AdministratorsStay == RoleSpec => AdminsStay
<1>1. ASSUME RoleInv, RoleNext, NEW s \in Shows, Led(s), ~Led(s)'
      PROVE  show'[s] = "deleted" \/ \E r \in RoleCalls : StepsDown(r, s)
  <2>a. PICK a \in Assignments : \E row \in RowAt(a) : row.show = s /\ row.role = "admin"
    BY <1>1 DEF Led
  <2>1. PICK row \in RowAt(a) : row.show = s /\ row.role = "admin"
    BY <2>a
  <2>2. row \notin RowAt(a)'
    BY <1>1, <2>1 DEF Led
  <2>3. assignment'[a] # assignment[a]
    BY <2>1, <2>2 DEF RowAt
  <2>4. assignment[a] # Unborn /\ assignment = [b \in Assignments |-> assignment[b]]
    BY <1>1, <2>1 DEF RowAt, Unborn, RoleInv
  <2>5. ASSUME NEW u \in Members, NEW d \in Shows, ShowDetailAPI(u, d) PROVE show'[s] = "deleted"
    <3>1. \E x \in RowAt(a) : x.show = d
      BY <2>3, <2>5 DEF ShowDetailAPI
    <3>2. d = s
      BY <1>1, <2>1, <3>1 DEF RoleInv, OneRowEach
    <3> QED
      BY <1>1, <2>5, <3>2 DEF ShowDetailAPI, RoleInv
  <2>6. ASSUME NEW r \in RoleCalls, DeleteAssignment(r) PROVE StepsDown(r, s)
    <3>1. PICK who, id : who = roleCall[r].who /\ id = roleCall[r].id
      OBVIOUS
    <3>2. /\ roleCall[r].doing = "removing" /\ roleCall[r].held = "admin"
          /\ roleCall'[r] = Waiting
      BY <1>1, <2>6, CallAnswers DEF DeleteAssignment, RoleInv
    <3>3. a = id /\ \E x \in RowAt(id) : x.show = roleCall[r].show
      BY <2>3, <2>4, <2>6, <3>1 DEF DeleteAssignment
    <3>4. roleCall[r].show = s
      BY <1>1, <2>1, <3>3 DEF RoleInv, OneRowEach
    <3>5. \A b \in Assignments : b # a => RowAt(b)' = RowAt(b)
      BY <2>4, <2>6, <3>1, <3>3 DEF DeleteAssignment, RowAt
    <3>6. \A b \in Assignments : \A x \in RowAt(b) :
            x.show = s /\ x.role = "admin" => b = a /\ x = row
      BY <1>1, <2>1, <3>5 DEF Led, RoleInv, OneRowEach
    <3>7. CASE who \in Superusers \/ row.user = who
      BY <2>1, <3>1, <3>2, <3>3, <3>7 DEF StepsDown
    <3>8. CASE who \notin Superusers /\ row.user # who
      <4>1. get_user_role_for_show(who, s) # "admin"
        BY <1>1, <3>6, <3>8, AdministratorHasRow
      <4> QED
        BY <3>1, <3>2, <3>4, <4>1 DEF StepsDown
    <3> QED
      BY <3>7, <3>8
  <2>7. ASSUME NEW r \in RoleCalls, SaveAssignment(r) PROVE FALSE
    BY <2>3, <2>4, <2>7 DEF SaveAssignment
  <2> QED
    BY <1>1, <2>3, <2>5, <2>6, <2>7
       DEF RoleNext, CallDies, ShowCreateView, PostRole, PostRemoval, ShowListCreateAPI
<1>2. RoleInv /\ [RoleNext]_roleVars =>
        [\A s \in Shows : Led(s) => Led(s)' \/ show'[s] = "deleted"
                                    \/ \E r \in RoleCalls : StepsDown(r, s)]_roleVars
  BY <1>1
<1> QED
  BY <1>2, RoleStart, RoleStep, PTL DEF RoleSpec, AdminsStay

----------------------------------------------------------------------------
(* Splice media.                                                           *)

\* What an asset was linked to: the bytes of its fingerprint, or others as many of which
\* the partial hash read none.
LinksMatch ==
    \A a \in Assets :
        \/ linked[a] = {} /\ fingerprint[a] = {}
        \/ \E f \in Files :
             /\ fingerprint[a] = {FingerprintOf(f)}
             /\ \A g \in linked[a] : g = f \/ (Len(g) = Len(f) /\ Unreadable(Len(f)))

MediaInv ==
    /\ location \in [Locations -> LocationRows]
    /\ linked = [a \in Assets |-> linked[a]]
    /\ fingerprint = [a \in Assets |-> fingerprint[a]]
    /\ LinksMatch

\* Files of one size with one partial hash are the same, where the hash reads any byte.
LEMMA MatchMeansSame ==
    ASSUME NEW f \in Files, NEW g \in Files, match_fingerprints(g, FingerprintOf(f))
    PROVE  Len(g) = Len(f) /\ (g = f \/ Unreadable(Len(f)))
<1> DEFINE size == Len(f) \div Tenth
<1>1. /\ f \in Seq(0..255) /\ g \in Seq(0..255) /\ Len(f) \in Nat /\ size \in Nat
      /\ Tenth \in Nat /\ Tenth > 0 /\ Tenth <= ChunkSize /\ ChunkSize \in Nat
  <2>1. /\ Tenth \in Nat /\ Tenth > 0 /\ Tenth <= ChunkSize /\ ChunkSize \in Nat
    BY MediaConstants
  <2>2. f \in Seq(0..255) /\ g \in Seq(0..255)
    BY MediaConstants
  <2>3. Len(f) \in Nat
    BY <2>2
  <2> QED
    BY <2>1, <2>2, <2>3
<1>2. /\ compute_fingerprints(f).full_hash = f /\ compute_fingerprints(g).full_hash = g
      /\ \A h \in {f, g} : compute_fingerprints(h).partial_hash =
           IF Len(h) \div Tenth = 0 THEN Prefix(h, ChunkSize)
           ELSE IF DigestSize >= Len(h) \div Tenth THEN <<>> ELSE h
  BY DEF compute_fingerprints
<1>3. /\ Len(g) = Len(f)
      /\ \/ g = f
         \/ compute_fingerprints(g).partial_hash = compute_fingerprints(f).partial_hash
  BY <1>2 DEF match_fingerprints, FingerprintOf
<1>4. CASE size = 0
  <2>1. Len(f) < Tenth
    BY <1>1, <1>4
  <2>2. ASSUME NEW h \in {f, g} PROVE Prefix(h, ChunkSize) = h
    <3>1. h \in Seq(0..255) /\ Len(h) = Len(f) /\ ~(ChunkSize < Len(h))
      BY <1>1, <1>3, <2>1
    <3>2. Prefix(h, ChunkSize) = SubSeq(h, 1, Len(h))
      BY <3>1 DEF Prefix
    <3> QED
      BY <3>1, <3>2
  <2> QED
    BY <1>2, <1>3, <1>4, <2>2
<1>5. CASE size # 0 /\ DigestSize >= size
  BY <1>1, <1>3, <1>5, MediaConstants DEF Unreadable
<1>6. CASE size # 0 /\ ~(DigestSize >= size)
  BY <1>2, <1>3, <1>6
<1> QED
  BY <1>4, <1>5, <1>6

LEMMA LinksMean == MediaInv => RelinkedIsOriginal
BY DEF MediaInv, LinksMatch, RelinkedIsOriginal

\* Of the types that are looked for, the first of which there is a location is found.
LEMMA LocationIsFound ==
    ASSUME NEW a, NEW l \in Available(a), location[l].location_type \in LocationTypes \ {"generated"}
    PROVE  get_location_for_asset(a) # {}
<1> DEFINE ofType(i) == {k \in Available(a) : location[k].location_type = preference_order[i]}
           found == {i \in 1..Len(preference_order) : ofType(i) # {}}
<1>1. /\ Len(preference_order) = 6
      /\ \E i \in 1..6 : location[l].location_type = preference_order[i]
  BY DEF preference_order, LocationTypes
<1>2. found # {} /\ found \subseteq 1..6
  BY <1>1
<1>3. get_location_for_asset(a) = ofType(CHOOSE i \in found : \A k \in found : i <= k)
  BY <1>2 DEF get_location_for_asset
<1>4. \A i \in found : ofType(i) # {}
  OBVIOUS
<1> HIDE DEF found, ofType
<1>5. \E i \in found : \A k \in found : i <= k
  <2>1. CASE 1 \in found
    BY <1>2, <2>1
  <2>2. CASE 1 \notin found /\ 2 \in found
    BY <1>2, <2>2
  <2>3. CASE found \subseteq 3..6 /\ 3 \in found
    BY <2>3
  <2>4. CASE found \subseteq 4..6 /\ 4 \in found
    BY <2>4
  <2>5. CASE found \subseteq 5..6
    <3>1. CASE 5 \in found
      BY <2>5, <3>1
    <3>2. CASE 5 \notin found
      <4>1. \A k \in found : k = 6
        BY <2>5, <3>2
      <4>2. PICK i \in found : TRUE
        BY <1>2
      <4> QED
        BY <4>1, <4>2
    <3> QED
      BY <3>1, <3>2
  <2>6. 1 \in found \/ 2 \in found \/ found \subseteq 3..6
    BY <1>2
  <2>7. found \subseteq 3..6 => 3 \in found \/ found \subseteq 4..6
    OBVIOUS
  <2>8. found \subseteq 4..6 => 4 \in found \/ found \subseteq 5..6
    OBVIOUS
  <2> QED
    BY <2>1, <2>2, <2>3, <2>4, <2>5, <2>6, <2>7, <2>8
<1> QED
  BY <1>3, <1>4, <1>5

LEMMA MediaStart == MediaInit => MediaInv
BY DEF MediaInit, MediaInv, LinksMatch, LocationRows, NoLocation, LocationTypes

LEMMA MediaStep ==
    ASSUME MediaInv, [MediaNext]_spliceMediaVars
    PROVE  MediaInv'
<1>1. ASSUME NEW l \in Locations, NEW a \in Assets, NEW type \in LocationTypes,
             create_location(l, a, type)
      PROVE  MediaInv'
  BY <1>1 DEF create_location, MediaInv, LinksMatch, LocationRows
<1>2. ASSUME NEW l \in Locations, LocationLost(l) PROVE MediaInv'
  BY <1>2 DEF LocationLost, MediaInv, LinksMatch, LocationRows
<1>3. ASSUME NEW a \in Assets, AssetDeleted(a) PROVE MediaInv'
  <2>1. location' \in [Locations -> LocationRows]
    BY <1>3 DEF AssetDeleted, MediaInv, LocationRows, NoLocation, LocationTypes
  <2> QED
    BY <1>3, <2>1 DEF AssetDeleted, MediaInv, LinksMatch
<1>4. ASSUME NEW a \in Assets, NEW f \in Files, fingerprint_media(a, f) PROVE MediaInv'
  BY <1>4 DEF fingerprint_media, MediaInv, LinksMatch
<1>5. ASSUME NEW a \in Assets, NEW f \in Files, relink_media(a, f) PROVE MediaInv'
  <2>1. location' \in [Locations -> LocationRows]
    BY <1>5 DEF relink_media, MediaInv, LocationRows
  <2>2. linked' = [linked EXCEPT ![a] = linked[a] \cup {f}] /\ UNCHANGED fingerprint
    BY <1>5 DEF relink_media
  <2>3. PICK o \in Files : /\ fingerprint[a] = {FingerprintOf(o)}
                           /\ match_fingerprints(f, FingerprintOf(o))
                           /\ \A g \in linked[a] : g = o \/ (Len(g) = Len(o) /\ Unreadable(Len(o)))
    BY <1>5 DEF relink_media, MediaInv, LinksMatch
  <2>4. \A g \in linked[a] \cup {f} : g = o \/ (Len(g) = Len(o) /\ Unreadable(Len(o)))
    BY <2>3, MatchMeansSame
  <2> QED
    BY <2>1, <2>2, <2>3, <2>4 DEF MediaInv, LinksMatch
<1>6. CASE UNCHANGED mediaVars
  BY <1>6 DEF mediaVars, MediaInv, LinksMatch
<1> QED
  BY <1>1, <1>2, <1>3, <1>4, <1>5, <1>6
     DEF MediaNext, LibraryNext, FilesNext, ProjectNext, spliceMediaVars

\* The offsets of a project's sync points are those of some timeline.
PointRows == [asset1 : Assets, asset2 : Assets, offset : Offsets]

ProjectRows ==
    [clips : SUBSET Assets, cuts : Cuts, sync_points : SUBSET PointRows,
     operations : SUBSET Operations, current_revision : 0..LastRevision, canvas : Canvases]

\* The tables that links and locations do not touch.
MediaTyped ==
    /\ asset \subseteq Assets
    /\ \A a \in Assets : linked[a] \subseteq Files
    /\ project \in ProjectRows
    /\ IsFiniteSet(project.clips)
    /\ plan \in [Plans -> PlanRows]

\* A plan that compares as equal differs in its id, its revision and when it was made:
\* the loudness that is not compared is the same for every plan.
LEMMA PlansAreSound == MediaInv /\ MediaTyped => SoundPlans
<1> SUFFICES ASSUME MediaInv, MediaTyped, NEW p \in Plans, validate_render_plan(p)
             PROVE  /\ \A a \in Selected(p) :
                         \/ get_location_for_asset(a) # {}
                         \/ \E l \in Available(a) : location[l].location_type = "generated"
                    /\ \A q \in Plans : is_plan_deterministic(p, q) =>
                         /\ validate_render_plan(q)
                         /\ Unlabelled(plan_to_ffmpeg_blueprint(q))
                              = Unlabelled(plan_to_ffmpeg_blueprint(p))
  BY DEF SoundPlans
<1>1. ASSUME NEW a \in Selected(p)
      PROVE  \/ get_location_for_asset(a) # {}
             \/ \E l \in Available(a) : location[l].location_type = "generated"
  <2>1. PICK l \in Available(a) : TRUE
    BY DEF validate_render_plan
  <2>2. location[l].location_type \in LocationTypes
    BY DEF MediaInv, LocationRows, Available
  <2> QED
    BY <2>1, <2>2, LocationIsFound
<1>2. ASSUME NEW q \in Plans, is_plan_deterministic(p, q)
      PROVE  /\ validate_render_plan(q)
             /\ Unlabelled(plan_to_ffmpeg_blueprint(q)) = Unlabelled(plan_to_ffmpeg_blueprint(p))
  <2>1. plan[p].loudness_preset = "broadcast" /\ plan[q].loudness_preset = "broadcast"
    BY DEF MediaTyped, PlanRows
  <2>2. validate_render_plan(q)
    BY <1>2 DEF is_plan_deterministic, validate_render_plan, Selected
  <2>3. Unlabelled(plan_to_ffmpeg_blueprint(q)) = Unlabelled(plan_to_ffmpeg_blueprint(p))
    <3> DEFINE bp(o) == plan_to_ffmpeg_blueprint(o)
               fields == {"inputs", "filter", "canvas", "sync_offsets", "loudness_preset"}
    <3>1. \A o : DOMAIN bp(o) = fields \cup {"plan_id", "revision"}
      BY DEF plan_to_ffmpeg_blueprint
    <3>2. /\ bp(q).inputs = bp(p).inputs /\ bp(q).filter = bp(p).filter
          /\ bp(q).canvas = bp(p).canvas /\ bp(q).sync_offsets = bp(p).sync_offsets
          /\ bp(q).loudness_preset = bp(p).loudness_preset
      BY <1>2, <2>1 DEF is_plan_deterministic, plan_to_ffmpeg_blueprint
    <3> HIDE DEF bp
    <3>3. \A o : DOMAIN bp(o) \ {"plan_id", "revision"} = fields
      BY <3>1
    <3>4. Unlabelled(bp(q)) = Unlabelled(bp(p))
      BY <3>2, <3>3 DEF Unlabelled
    <3> QED
      BY <3>4 DEF bp
  <2> QED
    BY <2>2, <2>3
<1> QED
  BY <1>1, <1>2

\* The distinct assets of finitely many clips, in any order, are a list of assets.
LEMMA SelectionsType ==
    ASSUME NEW S \in SUBSET Assets, IsFiniteSet(S), NEW selections \in SetToSeqs(S)
    PROVE  selections \in Seq(Assets)
<1>1. Cardinality(S) \in Nat
  BY FS_CardinalityType
<1>2. selections \in [1..Cardinality(S) -> Assets]
  BY DEF SetToSeqs
<1> QED
  BY <1>1, <1>2

\* A dictionary of offsets has assets as its keys and offsets of sync points as its values.
LEMMA OffsetsType ==
    ASSUME NEW points \in SUBSET PointRows, NEW offsets \in SyncOffsets(points)
    PROVE  offsets \in UNION {[late -> Offsets] : late \in SUBSET Assets}
<1> DEFINE late == {pt.asset2 : pt \in points}
<1>1. late \subseteq Assets /\ {pt.offset : pt \in points} \subseteq Offsets
  BY DEF PointRows
<1>2. offsets \in [late -> Offsets]
  BY <1>1 DEF SyncOffsets
<1> QED
  BY <1>1, <1>2

LEMMA MediaTypedStart == MediaInit => MediaTyped
<1> SUFFICES ASSUME MediaInit PROVE MediaTyped
  OBVIOUS
<1>1. NoPlan.sync_offsets \in UNION {[late -> Offsets] : late \in SUBSET Assets}
  BY DEF NoPlan
<1>2. NoPlan.asset_selections \in Seq(Assets) /\ NoPlan.camera_cuts \in Cuts /\ 0 \in 0..LastRevision
  BY MediaConstants DEF NoPlan, Cuts
<1>3. NoPlan \in PlanRows
  BY <1>1, <1>2 DEF NoPlan, PlanRows, Canvases
<1>4. project \in ProjectRows
  BY MediaConstants DEF MediaInit, ProjectRows, Cuts, Canvases
<1>5. project.clips = {} /\ IsFiniteSet({})
  BY FS_EmptySet DEF MediaInit
<1> QED
  BY <1>3, <1>4, <1>5 DEF MediaInit, MediaTyped

LEMMA MediaTypedStep ==
    ASSUME MediaInv, MediaTyped, [MediaNext]_spliceMediaVars
    PROVE  MediaTyped'
<1>0. /\ asset \subseteq Assets
      /\ linked = [a \in Assets |-> linked[a]]
      /\ \A a \in Assets : linked[a] \subseteq Files
      /\ project \in ProjectRows /\ plan \in [Plans -> PlanRows]
      /\ LastRevision \in Nat /\ IsFiniteSet(project.clips)
  BY MediaConstants DEF MediaInv, MediaTyped
<1>1. ASSUME UNCHANGED <<asset, linked, plan>>, project' \in ProjectRows,
             IsFiniteSet(project'.clips)
      PROVE  MediaTyped'
  BY <1>0, <1>1 DEF MediaTyped
<1>2. ASSUME NEW a \in Assets, AssetDeleted(a) PROVE MediaTyped'
  <2>1. /\ asset' = asset \ {a} /\ linked' = [linked EXCEPT ![a] = {}]
        /\ UNCHANGED plan
    BY <1>2 DEF AssetDeleted
  <2>2. PICK left \in SUBSET project.sync_points :
          project' = [project EXCEPT !.clips = project.clips \ {a}, !.sync_points = left]
    BY <1>2 DEF AssetDeleted
  <2>3. project' \in ProjectRows /\ project'.clips = project.clips \ {a}
    BY <1>0, <2>2 DEF ProjectRows
  <2>4. IsFiniteSet(project'.clips)
    BY <1>0, <2>3, FS_Subset
  <2> QED
    BY <1>0, <2>1, <2>3, <2>4 DEF MediaTyped
<1>3. ASSUME NEW a \in Assets, NEW f \in Files, fingerprint_media(a, f) \/ relink_media(a, f),
             UNCHANGED planVars
      PROVE  MediaTyped'
  BY <1>0, <1>3 DEF fingerprint_media, relink_media, planVars, MediaTyped
<1>4. ASSUME NEW canvas \in Canvases, PatchProject(canvas), UNCHANGED mediaVars PROVE MediaTyped'
  BY <1>0, <1>1, <1>4 DEF PatchProject, ProjectRows, mediaVars
<1>5. ASSUME NEW t \in Timelines, ArrangeTimeline(t), UNCHANGED mediaVars PROVE MediaTyped'
  <2>1. t.clips \subseteq Assets /\ IsFiniteSet(t.clips) /\ t.cuts \in Cuts
    BY MediaConstants DEF Cuts
  <2>2. \A pt \in t.sync_points : pt \in SyncPoints /\ pt.offset \in Offsets
    BY MediaConstants DEF Offsets
  <2>3. t.sync_points \subseteq PointRows
    BY <2>2 DEF SyncPoints, PointRows
  <2>4. /\ project' = [project EXCEPT !.clips = t.clips, !.cuts = t.cuts,
                                      !.sync_points = t.sync_points]
        /\ UNCHANGED <<asset, linked, plan>>
    BY <1>5 DEF ArrangeTimeline, mediaVars
  <2>5. project' \in ProjectRows /\ project'.clips = t.clips
    BY <1>0, <2>1, <2>3, <2>4 DEF ProjectRows
  <2> QED
    BY <1>1, <2>1, <2>4, <2>5
<1>6. ASSUME increment_revision, UNCHANGED mediaVars PROVE MediaTyped'
  <2> DEFINE next == project.current_revision + 1
             op == [revision |-> next, applied |-> TRUE]
  <2>1. /\ project' = [project EXCEPT !.current_revision = next,
                                      !.operations = project.operations \cup {op}]
        /\ project.current_revision < LastRevision
        /\ UNCHANGED <<asset, linked, plan>>
    BY <1>6 DEF increment_revision, mediaVars
  <2>2. next \in 0..LastRevision
    BY <1>0, <2>1 DEF ProjectRows
  <2>3. op \in Operations
    BY <2>2 DEF Operations
  <2> HIDE DEF next, op
  <2>4. project' \in ProjectRows /\ project'.clips = project.clips
    BY <1>0, <2>1, <2>2, <2>3 DEF ProjectRows
  <2> QED
    BY <1>0, <1>1, <2>1, <2>4
<1>7. ASSUME NEW op \in project.operations, Undo(op), UNCHANGED mediaVars PROVE MediaTyped'
  <2> DEFINE undone == [op EXCEPT !.applied = FALSE]
  <2>1. undone \in Operations
    BY <1>0 DEF ProjectRows, Operations
  <2>2. /\ project' = [project EXCEPT !.operations = (project.operations \ {op}) \cup {undone}]
        /\ UNCHANGED <<asset, linked, plan>>
    BY <1>7 DEF Undo, mediaVars
  <2> HIDE DEF undone
  <2>3. project' \in ProjectRows /\ project'.clips = project.clips
    BY <1>0, <2>1, <2>2 DEF ProjectRows
  <2> QED
    BY <1>0, <1>1, <2>2, <2>3
<1>8. ASSUME NEW p \in Plans, NEW r \in 0..project.current_revision, create_render_plan(p, r),
             UNCHANGED mediaVars
      PROVE  MediaTyped'
  <2>0. PICK selections \in SetToSeqs(project.clips),
             offsets \in SyncOffsets(project.sync_points) :
          plan' = [plan EXCEPT ![p] =
                     [exists |-> TRUE, revision |-> r, asset_selections |-> selections,
                      operations |-> AppliedUpTo(r), camera_cuts |-> project.cuts,
                      sync_offsets |-> offsets, loudness_preset |-> "broadcast",
                      canvas |-> project.canvas]]
    BY <1>8 DEF create_render_plan
  <2> DEFINE new == [exists |-> TRUE, revision |-> r, asset_selections |-> selections,
                     operations |-> AppliedUpTo(r), camera_cuts |-> project.cuts,
                     sync_offsets |-> offsets, loudness_preset |-> "broadcast",
                     canvas |-> project.canvas]
  <2>1. plan' = [plan EXCEPT ![p] = new] /\ UNCHANGED <<asset, linked, project>>
    BY <1>8, <2>0 DEF create_render_plan, mediaVars
  <2>2. r \in 0..LastRevision
    BY <1>0 DEF ProjectRows
  <2>3. AppliedUpTo(r) \subseteq 0..LastRevision
    BY <1>0 DEF AppliedUpTo, ProjectRows, Operations
  <2>4. project.clips \subseteq Assets /\ project.sync_points \subseteq PointRows
        /\ project.cuts \in Cuts /\ project.canvas \in Canvases
    BY <1>0 DEF ProjectRows
  <2>5. /\ selections \in Seq(Assets)
        /\ offsets \in UNION {[late -> Offsets] : late \in SUBSET Assets}
    BY <1>0, <2>4, SelectionsType, OffsetsType
  <2>6. new \in PlanRows
    BY <2>2, <2>3, <2>4, <2>5 DEF PlanRows
  <2> HIDE DEF new
  <2> QED
    BY <1>0, <2>1, <2>6 DEF MediaTyped
<1>9. CASE UNCHANGED <<asset, linked, planVars>>
  BY <1>0, <1>1, <1>9 DEF planVars
<1>10. ASSUME LibraryNext PROVE MediaTyped'
  BY <1>2, <1>9, <1>10 DEF LibraryNext, create_location, LocationLost
<1>11. ASSUME FilesNext PROVE MediaTyped'
  BY <1>3, <1>11 DEF FilesNext
<1>12. ASSUME ProjectNext PROVE MediaTyped'
  BY <1>4, <1>5, <1>6, <1>7, <1>8, <1>12 DEF ProjectNext
<1>13. CASE UNCHANGED spliceMediaVars
  BY <1>9, <1>13 DEF spliceMediaVars, mediaVars
<1> QED
  BY <1>10, <1>11, <1>12, <1>13 DEF MediaNext

LEMMA MediaTypes == MediaInv /\ MediaTyped => MediaTypeOK
<1> SUFFICES ASSUME MediaInv, MediaTyped, NEW a \in Assets
             PROVE  fingerprint[a] \subseteq FingerprintRows /\ Cardinality(fingerprint[a]) <= 1
  BY DEF MediaInv, MediaTyped, MediaTypeOK, ProjectRows
<1>1. CASE fingerprint[a] = {}
  BY <1>1, FS_EmptySet
<1>2. ASSUME NEW f \in Files, fingerprint[a] = {FingerprintOf(f)}
      PROVE  fingerprint[a] \subseteq FingerprintRows /\ Cardinality(fingerprint[a]) <= 1
  <2>1. Cardinality({FingerprintOf(f)}) = 1
    BY FS_Singleton
  <2> QED
    BY <1>2, <2>1 DEF FingerprintRows
<1> QED
  BY <1>1, <1>2 DEF MediaInv, LinksMatch

\* An asset is relinked only to the bytes it was fingerprinted from, unless the file is so
\* small that its partial hash covers no byte.
THEOREM RelinksAreOriginal == MediaSpec => []RelinkedIsOriginal
BY LinksMean, MediaStart, MediaStep, PTL DEF MediaSpec

\* The media of a plan that validates are found, unless they were generated, and a plan
\* that compares as equal to it validates and has the same blueprint, up to the id and the
\* revision of the plan.
THEOREM PlansSound == MediaSpec => []SoundPlans
BY PlansAreSound, MediaStart, MediaStep, MediaTypedStart, MediaTypedStep, PTL DEF MediaSpec

----------------------------------------------------------------------------
(* The parts together.                                                     *)

\* A behaviour of the studio is one of each of its parts: what is proved of a part holds of
\* the whole, and what a run finds of the whole it finds of the part.
THEOREM StudioRunsParts ==
    StudioSpec => /\ MediaSpec /\ FeedSpec /\ SettingsSpec /\ ShowSpec /\ ScreenSpec
                  /\ GuestSpec /\ NotesSpec /\ ExportSpec /\ AccountSpec /\ ClipSpec
                  /\ UploadSpec /\ RoleSpec
<1> DEFINE PartsStep ==
             /\ [MediaNext]_spliceMediaVars /\ [FeedNext]_feedVars /\ [SettingsNext]_settingsVars
             /\ [ShowNext]_showVars /\ [ScreenNext]_screenVars /\ [GuestNext]_guestVars
             /\ [NotesNext]_notesVars /\ [ExportNext]_exportVars /\ [AccountNext]_accountVars
             /\ [ClipNext]_clipVars /\ [UploadNext]_uploadVars /\ [RoleNext]_roleVars
<1>1. StudioInit =>
        /\ MediaInit /\ FeedInit /\ SettingsInit /\ ShowInit /\ ScreenInit /\ GuestInit
        /\ NotesInit /\ ExportInit /\ AccountInit /\ ClipInit /\ UploadInit /\ RoleInit
  BY DEF StudioInit
<1>2. ASSUME [StudioNext]_<<part, spliceMediaVars, appVars>> PROVE PartsStep
  <2>1. CASE StudioFiles
    BY <2>1 DEF StudioFiles, appVars, MediaNext
  <2>2. CASE StudioPlans
    BY <2>2 DEF StudioPlans, appVars, MediaNext
  <2>3. CASE StudioFeed
    BY <2>3 DEF StudioFeed
  <2>4. CASE StudioSettings
    BY <2>4 DEF StudioSettings
  <2>5. CASE StudioShow
    BY <2>5 DEF StudioShow
  <2>6. CASE StudioScreens
    BY <2>6 DEF StudioScreens
  <2>7. CASE StudioGuests
    BY <2>7 DEF StudioGuests
  <2>8. CASE StudioNotes
    BY <2>8 DEF StudioNotes
  <2>9. CASE StudioExports
    BY <2>9 DEF StudioExports
  <2>10. CASE StudioAccounts
    BY <2>10 DEF StudioAccounts
  <2>11. CASE StudioClips
    BY <2>11 DEF StudioClips
  <2>12. CASE StudioUploads
    BY <2>12 DEF StudioUploads
  <2>13. CASE StudioRoles
    BY <2>13 DEF StudioRoles
  <2>14. CASE UNCHANGED <<part, spliceMediaVars, appVars>>
    BY <2>14 DEF appVars
  <2> QED
    BY <1>2, <2>1, <2>2, <2>3, <2>4, <2>5, <2>6, <2>7, <2>8, <2>9, <2>10, <2>11, <2>12, <2>13,
       <2>14 DEF StudioNext
<1> QED
  BY <1>1, <1>2, PTL
     DEF StudioSpec, MediaSpec, FeedSpec, SettingsSpec, ShowSpec, ScreenSpec, GuestSpec, NotesSpec,
         ExportSpec, AccountSpec, ClipSpec, UploadSpec, RoleSpec

\* Every table of every part holds rows of its type.
THEOREM StudioTypeCorrect == StudioSpec => []StudioTypeOK
<1>1. MediaSpec => []MediaTypeOK
  BY MediaStart, MediaStep, MediaTypedStart, MediaTypedStep, MediaTypes, PTL DEF MediaSpec
<1>2. FeedSpec => []FeedTypeOK
  <2>1. PublishInv => FeedTypeOK
    BY DEF PublishInv
  <2> QED
    BY <2>1, PublishInvariance, PTL DEF FeedSpec
<1>3. SettingsSpec => []SettingsTypeOK
  <2>1. SettingsInv => SettingsTypeOK
    BY DEF SettingsInv, SettingsTypeOK
  <2> QED
    BY <2>1, SettingsStart, SettingsStep, PTL DEF SettingsSpec
<1>4. ScreenSpec => []ScreenTypeOK
  <2>1. ScreenInv => ScreenTypeOK
    BY DEF ScreenInv
  <2> QED
    BY <2>1, ScreenStart, ScreenStep, PTL DEF ScreenSpec
<1>5. GuestSpec => []GuestTypeOK
  <2>1. GuestInv => GuestTypeOK
    BY DEF GuestInv
  <2> QED
    BY <2>1, GuestStart, GuestStep, PTL DEF GuestSpec
<1>6. NotesSpec => []NotesTypeOK
  BY NotesStart, NotesStep, DisputesStart, DisputesStep, NotesTypes, PTL DEF NotesSpec
<1>7. ExportSpec => []ExportTypeOK
  BY ExportStart, ExportStep, ExportTypes, PTL DEF ExportSpec
<1>8. AccountSpec => []AccountTypeOK
  <2>1. AccountsTyped => AccountTypeOK
    BY DEF AccountsTyped
  <2> QED
    BY <2>1, AccountStart, AccountStep, AccountsTypedStart, AccountsTypedStep, PTL DEF AccountSpec
<1>9. ClipSpec => []ClipTypeOK
  <2>1. ClipInv => ClipTypeOK
    BY DEF ClipInv, ClipTypeOK, ClipRowType
  <2> QED
    BY <2>1, ClipStart, ClipStep, PTL DEF ClipSpec
<1>10. UploadSpec => []UploadTypeOK
  <2>1. UploadInv => UploadTypeOK
    BY DEF UploadInv, UploadTypeOK, Started, StoredByItsOwn
  <2> QED
    BY <2>1, UploadStart, UploadStep, PTL DEF UploadSpec
<1>11. RoleSpec => []RoleTypeOK
  BY RoleStart, RoleStep, RolesTypedStart, RolesTypedStep, RoleTypes, PTL DEF RoleSpec
<1> QED
  BY <1>1, <1>2, <1>3, <1>4, <1>5, <1>6, <1>7, <1>8, <1>9, <1>10, <1>11, ShowTypeCorrect,
     StudioRunsParts, PTL DEF StudioTypeOK
=============================================================================
