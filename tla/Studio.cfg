SPECIFICATION StudioSpec
CONSTANTS
    a1 = a1
    a2 = a2
    Assets = {a1, a2}
    Locations = {l1}
    Files <- SmallFiles
    Plans = {s1, s2}
    Timelines <- SmallTimelines
    ChunkSize = 4
    DigestSize = 1
    Tenth = 2
    LastRevision = 1
    NoAsset = NoAsset
    FeedEpisodes = {f1}
    Platforms <- TwoPlatforms
    Audios = {m1, m2}
    FeedCalls = {r1, r2}
    Nothing = Nothing
    SettingsCalls = {r1, r2}
    Titles = {t1}
    Tokens = {k1}
    MaxVideos = 1
    Unset = Unset
    ShowEpisodes = {e1, e2}
    Segments = {s1, s2}
    Templates = {t1}
    ShowCalls = {r1, r2}
    GivenOrders = {1}
    LastOrder = 2
    Removed = Removed
    Nil = Nil
    Screens = {x1, x2}
    Overlays = {x2}
    Brands = {b1, b2}
    Blank = Blank
    Appearances = {g1}
    GuestCalls = {r1, r2}
    Artifacts = {c1, c2}
    NoteDrafts = {d1}
    NoteCalls = {r1, r2}
    Asked = {"show_notes", "chapters"}
    Subject = {}
    Typed = Typed
    NoSource = NoSource
    Editions = {"empty", "full"}
    Texts = {"first", "second"}
    MostDrafts = 2
    MostWritten = 1
    y1 = y1
    y2 = y2
    Addresses = {y1, y2}
    Canonical <- LowerCase
    Users = {u1, u2, u3}
    AccessRequests = {q1}
    Invitations = {i1, i2}
    AccountCalls = {r1, r2}
    LastNumber = 1
    Nobody = Nobody
    Clips = {o1}
    ClipCalls = {r1, r2}
    Millis = {0, 61999, 3660000}
    TypedTimes <- SomeTimes
    Missing = Missing
    Uploads = {v1, v2, v3}
    FileNames = {n1}
    NoObject = NoObject
    Members = {u1, u2, u3}
    Superusers = {u1}
    Shows = {h1, h2}
    Assignments = {s1, s2}
    RoleCalls = {r1, r2}
    Granted = {"host", "admin"}
    NoOne = NoOne
SYMMETRY StudioSymmetry
INVARIANTS
    StudioTypeOK
    RelinkedIsOriginal
    SoundPlans
    PlatformsAgree
    TokenIsLast
    PlacedOrdersDiffer
    ActiveIsOwn
    CodeIsTheSponsors
    DecisionStands
    UsedWasApproved
    PackageAgrees
    OneAccountPerAddress
    ClipsRun
    AssetHoldsItsUpload
PROPERTIES
    EpisodesStay
    AdminsStay
CHECK_DEADLOCK FALSE
