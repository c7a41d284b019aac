---------------------------- MODULE GuestQuotes -----------------------------
(***************************************************************************)
(* The guests of an episode and the approval of their quotes. Every edit   *)
(* loads an EpisodeGuest row and writes all of its columns.                *)
(***************************************************************************)
CONSTANTS
    Appearances,  \* EpisodeGuest rows, each of another guest of the episode
    GuestCalls    \* requests that may overlap

VARIABLES
    quotes,     \* quote_approval_status of each row, "none" before and "removed" after
    guestCall,  \* what each request is doing
    decision,   \* history: the status that the last decision or the insert left
    contested   \* history: rows of which a request held a copy at that time

guestVars == <<quotes, guestCall, decision, contested>>

QuoteApproval == {"pending", "approved", "rejected"}

OnEpisode(g) == quotes[g] \in QuoteApproval

\* A call is idle, or has a row and the copy it will write.
AtEase == [doing |-> "idle"]

GuestInit ==
    /\ quotes = [g \in Appearances |-> "none"]
    /\ guestCall = [r \in GuestCalls |-> AtEase]
    /\ decision = [g \in Appearances |-> "none"]
    /\ contested = {}

Holders(g) == {r \in GuestCalls : guestCall[r] # AtEase /\ guestCall[r].row = g}

\* What a row is now is what it should be, unless others still hold copies of it.
Decided(g, status, holders) ==
    /\ decision' = [decision EXCEPT ![g] = status]
    /\ contested' = IF holders = {} THEN contested \ {g} ELSE contested \cup {g}

\* A second row of one guest violates the unique constraint.
AddGuest(g, status) ==
    /\ quotes[g] = "none"
    /\ quotes' = [quotes EXCEPT ![g] = status]
    /\ Decided(g, status, Holders(g))
    /\ UNCHANGED guestCall

\* The page inserts the default; the API's POST takes a status as its PATCH does.
EpisodeGuestsView(g) == AddGuest(g, "pending")

EpisodeGuestListCreateAPI(g, status) == AddGuest(g, status)

LoadGuest(r, g, what, status) ==
    /\ OnEpisode(g)
    /\ guestCall[r] = AtEase
    /\ guestCall' = [guestCall EXCEPT ![r] = [doing |-> what, row |-> g, status |-> status]]
    /\ UNCHANGED <<quotes, decision, contested>>

\* Defect: an edit of the guest's notes takes the decision back.
EpisodeGuestUpdateView_Pending(r, g) == LoadGuest(r, g, "editing", "pending")

\* The form of the episode's guest has no field for the status; the API's PATCH has.
EpisodeGuestUpdateView(r, g) == LoadGuest(r, g, "editing", quotes[g])

EpisodeGuestDetailAPI(r, g, status) == LoadGuest(r, g, "deciding", status)

\* Defect: the name of the action is stored as the status.
ApproveQuotesView_Action(r, g, status) ==
    LoadGuest(r, g, "deciding", IF status = "approved" THEN "approve" ELSE status)

\* No look at the status: a decision may be taken again. Unknown actions leave it.
ApproveQuotesView(r, g, status) == LoadGuest(r, g, "deciding", status)

\* The row is written, or inserted again if it was deleted.
SaveGuest(r) ==
    LET call == guestCall[r]
        g == call.row
    IN  /\ call # AtEase
        /\ quotes' = [quotes EXCEPT ![g] = call.status]
        /\ guestCall' = [guestCall EXCEPT ![r] = AtEase]
        /\ IF call.doing = "deciding" THEN Decided(g, call.status, Holders(g) \ {r})
           ELSE UNCHANGED <<decision, contested>>

EpisodeGuestDeleteView(g) ==
    /\ OnEpisode(g)
    /\ quotes' = [quotes EXCEPT ![g] = "removed"]
    /\ Decided(g, "removed", Holders(g))
    /\ UNCHANGED guestCall

GuestNext ==
    \E g \in Appearances :
        \/ EpisodeGuestsView(g) \/ EpisodeGuestDeleteView(g)
        \/ \E status \in QuoteApproval : EpisodeGuestListCreateAPI(g, status)
        \/ \E r \in GuestCalls :
             \/ EpisodeGuestUpdateView(r, g)
             \/ \E status \in {"approved", "rejected", quotes[g]} : ApproveQuotesView(r, g, status)
             \/ \E status \in QuoteApproval : EpisodeGuestDetailAPI(r, g, status)
        \/ \E r \in Holders(g) : SaveGuest(r)

GuestSpec == GuestInit /\ [][GuestNext]_guestVars

----------------------------------------------------------------------------
GuestTypeOK ==
    /\ quotes \in [Appearances -> QuoteApproval \cup {"none", "removed"}]
    /\ contested \subseteq Appearances

\* The approval of a guest's quotes is what was last decided, and a removed guest stays
\* away, unless another request held the row when that happened.
DecisionStands == \A g \in Appearances : quotes[g] = decision[g] \/ g \in contested
=============================================================================
