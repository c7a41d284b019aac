---------------------------- MODULE SecondScreen ----------------------------
(***************************************************************************)
(* The displays of the live segment. Staff screens are logged in and poll; *)
(* overlays in OBS have only the token in their URL, and the URL that the  *)
(* page polls does not carry it, so they render once per load of the page. *)
(*                                                                         *)
(* A page shows a sponsor and then loads the sponsor's QR code: a staff    *)
(* screen from the sponsor's own URL, an overlay from one URL per episode, *)
(* whose answer browsers keep for 300 seconds.                             *)
(***************************************************************************)
CONSTANTS
    Screens,
    Overlays,   \* the screens that have a token instead of a login
    Brands,     \* sponsors with a website
    Blank       \* no live segment, or one without a sponsor

ASSUME ScreenConstants == Overlays \subseteq Screens /\ Blank \notin Brands

VARIABLES
    live,      \* the sponsor of the live segment
    page,      \* the sponsor that each screen shows
    code,      \* the sponsor that the screen's QR code leads to
    loading,   \* the screens whose code is still being loaded
    cached,    \* the code that each overlay's browser keeps
    current,   \* the overlays whose URL has the episode's present token
    changed    \* history: overlays that saw a live sponsor change since page or code loaded

screenVars == <<live, page, code, loading, cached, current, changed>>

ScreenInit ==
    /\ live = Blank
    /\ page = [x \in Screens |-> Blank]
    /\ code = [x \in Screens |-> Blank]
    /\ loading = {}
    /\ cached = [x \in Overlays |-> Blank]
    /\ current = Overlays
    /\ changed = {}

----------------------------------------------------------------------------
\* Another segment goes live, is edited or is deleted.
set_live_segment(p) ==
    /\ live' = p
    /\ changed' = IF p = live THEN changed ELSE Overlays
    /\ UNCHANGED <<page, code, loading, cached, current>>

\* The page is rendered from the state of now; an overlay needs the present token.
_second_screen_state(x) ==
    /\ page' = [page EXCEPT ![x] = live]
    /\ code' = [code EXCEPT ![x] = Blank]
    /\ loading' = IF live = Blank THEN loading \ {x} ELSE loading \cup {x}
    /\ changed' = IF x \in Overlays /\ cached[x] \in {Blank, live} THEN changed \ {x} ELSE changed
    /\ UNCHANGED <<live, cached, current>>

SecondScreenView(x) == x \in Overlays => x \in current

\* A load of the page, or a staff screen's poll.
Render(x) == SecondScreenView(x) /\ _second_screen_state(x)

\* Defect: staff screens load the code of whatever is live.
SponsorQRCodeView_Live(x) == live

SponsorQRCodeView(x) == page[x]

StaffCode(x) ==
    /\ x \in loading \ Overlays
    /\ code' = [code EXCEPT ![x] = SponsorQRCodeView(x)]
    /\ loading' = loading \ {x}
    /\ UNCHANGED <<live, page, cached, current, changed>>

\* The overlay's code is the cached one, or that of what is live by now; without a sponsor
\* or with a revoked token there is none.
OverlayQRCodeView(x) ==
    LET fetched == IF cached[x] # Blank THEN cached[x] ELSE IF x \in current THEN live ELSE Blank
    IN  /\ x \in loading \cap Overlays
        /\ code' = [code EXCEPT ![x] = fetched]
        /\ cached' = [cached EXCEPT ![x] = fetched]
        /\ loading' = loading \ {x}
        /\ UNCHANGED <<live, page, current, changed>>

CacheExpires(x) ==
    /\ cached[x] # Blank
    /\ cached' = [cached EXCEPT ![x] = Blank]
    /\ UNCHANGED <<live, page, code, loading, current, changed>>

regenerate_overlay_token ==
    /\ current' = {}
    /\ UNCHANGED <<live, page, code, loading, cached, changed>>

\* The overlay gets the new URL, of which its browser has no code.
NewOverlayUrl(x) ==
    /\ x \notin current
    /\ current' = current \cup {x}
    /\ page' = [page EXCEPT ![x] = Blank]
    /\ code' = [code EXCEPT ![x] = Blank]
    /\ loading' = loading \ {x}
    /\ cached' = [cached EXCEPT ![x] = Blank]
    /\ UNCHANGED <<live, changed>>

ScreenNext ==
    \/ \E p \in Brands \cup {Blank} : set_live_segment(p)
    \/ \E x \in Screens : Render(x) \/ StaffCode(x)
    \/ \E x \in Overlays : OverlayQRCodeView(x) \/ CacheExpires(x) \/ NewOverlayUrl(x)
    \/ regenerate_overlay_token

ScreenSpec == ScreenInit /\ [][ScreenNext]_screenVars

----------------------------------------------------------------------------
ScreenTypeOK ==
    /\ page \in [Screens -> Brands \cup {Blank}]
    /\ code \in [Screens -> Brands \cup {Blank}]
    /\ loading \subseteq Screens
    /\ cached \in [Overlays -> Brands \cup {Blank}]

\* The QR code of a staff screen is that of the sponsor beside it, although it is loaded
\* later and the live segment may have changed; on an overlay unless it has changed since
\* the page or the kept code was loaded.
CodeIsTheSponsors ==
    \A x \in Screens : code[x] # Blank => code[x] = page[x] \/ x \in changed
=============================================================================
