------------------------------ MODULE MCStudio ------------------------------
(***************************************************************************)
(* The parts of the application whose models share no variable, each with  *)
(* its calls. A behaviour is one of one part: the steps of the others      *)
(* commute with its own, so interleaving them would reach the same states  *)
(* of every part.                                                          *)
(***************************************************************************)
EXTENDS SpliceMedia, PodcastFeed, FeedSettings, RunOfShow, SecondScreen, GuestQuotes,
        ShowNotes, Exports, Accounts, ClipMoments, Uploads, ShowRoles

CONSTANTS a1, a2, y1, y2

VARIABLE part

Parts == {"files", "plans", "feed", "settings", "show", "screens", "guests", "notes",
          "exports", "accounts", "clips", "uploads", "roles"}

\* A byte of either of two values makes the difference between files of one size; the
\* last two sizes are above and below what the partial hash can tell apart.
SmallFiles == {<<0, 0>>, <<0, 1>>, <<0, 0, 0, 0>>, <<0, 0, 0, 1>>,
               <<0, 0, 0, 0, 0>>, <<0, 0, 0, 0, 1>>}

\* One asset without cuts or offsets; the same with an offset against the other asset and
\* with more cuts than the one input of the filter; both assets.
SmallTimelines ==
    {[clips |-> {a1}, cuts |-> <<>>, sync_points |-> {}],
     [clips |-> {a1}, cuts |-> <<"camera", "camera">>,
      sync_points |-> {[asset1 |-> a2, asset2 |-> a1, offset |-> 40]}],
     [clips |-> {a1, a2}, cuts |-> <<>>, sync_points |-> {}]}

TwoPlatforms == <<"apple", "spotify">>

\* Nothing typed, a text that does not parse, and one of each form.
SomeTimes == {<<>>, <<7>>, <<1, 1>>, <<1, 0, 0>>}

\* y2 is another spelling of y1.
LowerCase == [a \in {y1, y2} |-> y1]

StudioInit ==
    /\ part \in Parts
    /\ MediaInit /\ FeedInit /\ SettingsInit /\ ShowInit /\ ScreenInit /\ GuestInit
    /\ NotesInit /\ ExportInit /\ AccountInit /\ ClipInit /\ UploadInit
    /\ RoleInit

\* The variables of the parts other than the media library.
appVars == <<feedVars, settingsVars, showVars, screenVars, guestVars, notesVars, exportVars,
             accountVars, clipVars, uploadVars, roleVars>>

StudioFiles ==
    /\ part = "files" /\ (LibraryNext \/ FilesNext)
    /\ UNCHANGED <<part, appVars>>

StudioPlans ==
    /\ part = "plans" /\ (LibraryNext \/ ProjectNext)
    /\ UNCHANGED <<part, appVars>>

StudioFeed ==
    /\ part = "feed" /\ FeedNext
    /\ UNCHANGED <<part, spliceMediaVars, settingsVars, showVars, screenVars, guestVars,
                   notesVars, exportVars, accountVars, clipVars, uploadVars, roleVars>>

StudioSettings ==
    /\ part = "settings" /\ SettingsNext
    /\ UNCHANGED <<part, spliceMediaVars, feedVars, showVars, screenVars, guestVars,
                   notesVars, exportVars, accountVars, clipVars, uploadVars, roleVars>>

StudioShow ==
    /\ part = "show" /\ ShowNext
    /\ UNCHANGED <<part, spliceMediaVars, feedVars, settingsVars, screenVars, guestVars,
                   notesVars, exportVars, accountVars, clipVars, uploadVars, roleVars>>

StudioScreens ==
    /\ part = "screens" /\ ScreenNext
    /\ UNCHANGED <<part, spliceMediaVars, feedVars, settingsVars, showVars, guestVars,
                   notesVars, exportVars, accountVars, clipVars, uploadVars, roleVars>>

StudioGuests ==
    /\ part = "guests" /\ GuestNext
    /\ UNCHANGED <<part, spliceMediaVars, feedVars, settingsVars, showVars, screenVars,
                   notesVars, exportVars, accountVars, clipVars, uploadVars, roleVars>>

StudioNotes ==
    /\ part = "notes" /\ NotesNext
    /\ UNCHANGED <<part, spliceMediaVars, feedVars, settingsVars, showVars, screenVars,
                   guestVars, exportVars, accountVars, clipVars, uploadVars, roleVars>>

StudioExports ==
    /\ part = "exports" /\ ExportNext
    /\ UNCHANGED <<part, spliceMediaVars, feedVars, settingsVars, showVars, screenVars,
                   guestVars, notesVars, accountVars, clipVars, uploadVars, roleVars>>

StudioAccounts ==
    /\ part = "accounts" /\ AccountNext
    /\ UNCHANGED <<part, spliceMediaVars, feedVars, settingsVars, showVars, screenVars,
                   guestVars, notesVars, exportVars, clipVars, uploadVars, roleVars>>

StudioClips ==
    /\ part = "clips" /\ ClipNext
    /\ UNCHANGED <<part, spliceMediaVars, feedVars, settingsVars, showVars, screenVars,
                   guestVars, notesVars, exportVars, accountVars, uploadVars, roleVars>>

StudioUploads ==
    /\ part = "uploads" /\ UploadNext
    /\ UNCHANGED <<part, spliceMediaVars, feedVars, settingsVars, showVars, screenVars,
                   guestVars, notesVars, exportVars, accountVars, clipVars, roleVars>>

StudioRoles ==
    /\ part = "roles" /\ RoleNext
    /\ UNCHANGED <<part, spliceMediaVars, feedVars, settingsVars, showVars, screenVars,
                   guestVars, notesVars, exportVars, accountVars, clipVars, uploadVars>>

StudioNext ==
    \/ StudioFiles \/ StudioPlans \/ StudioFeed \/ StudioSettings \/ StudioShow
    \/ StudioScreens \/ StudioGuests \/ StudioNotes \/ StudioExports \/ StudioAccounts
    \/ StudioClips \/ StudioUploads \/ StudioRoles

StudioSpec == StudioInit /\ [][StudioNext]_<<part, spliceMediaVars, appVars>>

\* No part tells its overlapping calls, its segments, its plans or its assignments apart;
\* the last three are the same model values.
StudioSymmetry == {calls @@ rows : calls \in Permutations(ShowCalls), rows \in Permutations(Segments)}

\* Every table of every part holds rows of its type.
StudioTypeOK ==
    /\ MediaTypeOK /\ FeedTypeOK /\ SettingsTypeOK /\ ShowTypeOK /\ ScreenTypeOK
    /\ GuestTypeOK /\ NotesTypeOK /\ ExportTypeOK /\ AccountTypeOK
    /\ ClipTypeOK /\ UploadTypeOK /\ RoleTypeOK
=============================================================================
