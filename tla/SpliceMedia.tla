---------------------------- MODULE SpliceMedia -----------------------------
(***************************************************************************)
(* The media library of splice: where the files of assets are, how a moved *)
(* file is recognised, and the render plans made of a project.             *)
(*                                                                         *)
(* A file is the sequence of its bytes, and a digest stands for the bytes  *)
(* it was computed from: digests of different bytes differ. Files of one   *)
(* size may agree in duration and codecs, so these are left out.           *)
(***************************************************************************)
EXTENDS Integers, Sequences, FiniteSets, SequencesExt

CONSTANTS
    Assets,      \* MediaAsset rows that a project uses
    Locations,   \* MediaLocation rows
    Files,       \* contents of files
    Plans,       \* RenderPlan rows
    Timelines,   \* bound: clips, cuts and sync points that the editor may give a project
    ChunkSize,   \* CHUNK_SIZE
    DigestSize,  \* hasher.digest_size
    Tenth,       \* the 10 of "10% of file"
    LastRevision,
    NoAsset

\* A moment of one asset is that of another one; the offset is what the second is late.
SyncPoints == [asset1 : Assets, asset2 : Assets, offset : Int]

ASSUME MediaConstants ==
    /\ ChunkSize \in Nat \ {0}
    /\ DigestSize \in Nat
    /\ Tenth \in 1..ChunkSize
    /\ NoAsset \notin Assets
    /\ Files \subseteq Seq(0..255)
    /\ \A t \in Timelines : /\ t.clips \subseteq Assets /\ IsFiniteSet(t.clips)
                            /\ t.sync_points \subseteq SyncPoints
    /\ LastRevision \in Nat

VARIABLES
    asset,        \* the assets that exist
    location,     \* the MediaLocation table
    fingerprint,  \* the MediaFingerprint table: a row or none per asset
    linked,       \* the file that each asset was last linked to
    project,      \* the EditorProject row with its clips, cuts, sync points and operations
    plan          \* the RenderPlan table

mediaVars == <<asset, location, fingerprint, linked>>
planVars == <<project, plan>>
spliceMediaVars == <<mediaVars, planVars>>

----------------------------------------------------------------------------
LocationTypes == {"local_device", "local_network", "external_drive", "cloud_original",
                  "cloud_proxy", "remote_url", "generated"}

LocationRows == [asset : Assets \cup {NoAsset}, location_type : LocationTypes,
                 availability : {"available", "needs_relink"}]

NoLocation == [asset |-> NoAsset, location_type |-> "generated", availability |-> "available"]

Canvases == {"valid", "too small"}

Operations == [revision : 0..LastRevision, applied : BOOLEAN]

\* The cameras that are cut to, one list per timeline.
Cuts == {t.cuts : t \in Timelines} \cup {<<>>}

Offsets == UNION {{pt.offset : pt \in t.sync_points} : t \in Timelines}

\* sync_offsets: a dictionary from the second asset of a point to its offset.
PlanRows == [exists : BOOLEAN, revision : 0..LastRevision, asset_selections : Seq(Assets),
             operations : SUBSET (0..LastRevision), camera_cuts : Cuts,
             sync_offsets : UNION {[late -> Offsets] : late \in SUBSET Assets},
             loudness_preset : {"broadcast"}, canvas : Canvases]

NoPlan == [exists |-> FALSE, revision |-> 0, asset_selections |-> <<>>, operations |-> {},
           camera_cuts |-> <<>>, sync_offsets |-> [a \in {} |-> 0], loudness_preset |-> "broadcast",
           canvas |-> "valid"]

MediaInit ==
    /\ asset = Assets
    /\ location = [l \in Locations |-> NoLocation]
    /\ fingerprint = [a \in Assets |-> {}]
    /\ linked = [a \in Assets |-> {}]
    /\ project = [clips |-> {}, cuts |-> <<>>, sync_points |-> {}, operations |-> {},
                  current_revision |-> 0, canvas |-> "valid"]
    /\ plan = [p \in Plans |-> NoPlan]

----------------------------------------------------------------------------
(* Fingerprints and locations.                                             *)

Prefix(f, n) == SubSeq(f, 1, IF n < Len(f) THEN n ELSE Len(f))

\* Defect: the partial hash covers the first chunk only.
compute_fingerprints_FirstChunk(f) ==
    [first_chunk_hash |-> Prefix(f, ChunkSize),
     last_chunk_hash |-> SubSeq(f, Max({0, Len(f) - ChunkSize}) + 1, Len(f)),
     partial_hash |-> Prefix(f, ChunkSize),
     full_hash |-> f]

\* The loop of the partial hash compares the size of a digest with the number of bytes
\* wanted: it reads the whole file, or nothing when few bytes are wanted.
compute_fingerprints(f) ==
    LET partial_size == Len(f) \div Tenth
    IN  [first_chunk_hash |-> Prefix(f, ChunkSize),
         last_chunk_hash |-> SubSeq(f, Max({0, Len(f) - ChunkSize}) + 1, Len(f)),
         partial_hash |-> IF partial_size = 0 THEN Prefix(f, ChunkSize)
                          ELSE IF DigestSize >= partial_size THEN <<>> ELSE f,
         full_hash |-> f]

\* The row that fingerprint_media stores.
FingerprintOf(f) == [file_size |-> Len(f), hashes |-> compute_fingerprints(f)]

FingerprintRows == {FingerprintOf(f) : f \in Files}

match_fingerprints(f, row) ==
    LET hashes == compute_fingerprints(f)
    IN  /\ Len(f) = row.file_size
        /\ \/ hashes.partial_hash = row.hashes.partial_hash
           \/ hashes.full_hash = row.hashes.full_hash

\* One row per asset: a second one violates the one-to-one field.
fingerprint_media(a, f) ==
    /\ a \in asset
    /\ fingerprint[a] = {}
    /\ fingerprint' = [fingerprint EXCEPT ![a] = {FingerprintOf(f)}]
    /\ linked' = [linked EXCEPT ![a] = {f}]
    /\ UNCHANGED <<asset, location>>

create_location(l, a, type) ==
    /\ a \in asset
    /\ location[l] = NoLocation
    /\ location' = [location EXCEPT ![l] = [asset |-> a, location_type |-> type,
                                            availability |-> "available"]]
    /\ UNCHANGED <<asset, fingerprint, linked>>

\* The first location on a local device becomes available; without one the match is
\* still reported.
relink_media(a, f) ==
    LET local == {l \in Locations : location[l].asset = a /\ location[l].location_type = "local_device"}
    IN  /\ a \in asset
        /\ \E row \in fingerprint[a] : match_fingerprints(f, row)
        /\ linked' = [linked EXCEPT ![a] = @ \cup {f}]
        /\ \/ local = {} /\ UNCHANGED location
           \/ \E l \in local : location' = [location EXCEPT ![l].availability = "available"]
        /\ UNCHANGED <<asset, fingerprint>>

\* A drive is unplugged or a file moves; no code of the repository notices by itself.
LocationLost(l) ==
    /\ location[l] # NoLocation
    /\ location' = [location EXCEPT ![l].availability = "needs_relink"]
    /\ UNCHANGED <<asset, fingerprint, linked>>

\* The asset is deleted elsewhere: its rows here go with it.
AssetDeleted(a) ==
    /\ a \in asset
    /\ asset' = asset \ {a}
    /\ location' = [l \in Locations |-> IF location[l].asset = a THEN NoLocation ELSE location[l]]
    /\ fingerprint' = [fingerprint EXCEPT ![a] = {}]
    /\ linked' = [linked EXCEPT ![a] = {}]
    /\ project' = [project EXCEPT !.clips = @ \ {a},
                     !.sync_points = {pt \in @ : a \notin {pt.asset1, pt.asset2}}]
    /\ UNCHANGED plan

Available(a) == {l \in Locations : location[l].asset = a /\ location[l].availability = "available"}

preference_order == <<"local_device", "external_drive", "local_network", "cloud_original",
                      "cloud_proxy", "remote_url">>

\* The available locations of the first type in the order that has any; generated media
\* are never found.
get_location_for_asset(a) ==
    LET ofType(i) == {l \in Available(a) : location[l].location_type = preference_order[i]}
        found == {i \in 1..Len(preference_order) : ofType(i) # {}}
    IN  IF found = {} THEN {} ELSE ofType(CHOOSE i \in found : \A k \in found : i <= k)

----------------------------------------------------------------------------
(* Projects and plans.                                                     *)

\* PATCH of a project; the other columns follow the canvas.
PatchProject(canvas) ==
    /\ project' = [project EXCEPT !.canvas = canvas]
    /\ UNCHANGED plan

\* The editor's front end places clips, cuts and sync points; a cut names its camera
\* without a foreign key.
ArrangeTimeline(t) ==
    /\ t.clips \subseteq asset
    /\ \A pt \in t.sync_points : {pt.asset1, pt.asset2} \subseteq asset
    /\ project' = [project EXCEPT !.clips = t.clips, !.cuts = t.cuts,
                                 !.sync_points = t.sync_points]
    /\ UNCHANGED plan

\* An edit takes the next revision.
increment_revision ==
    /\ project.current_revision < LastRevision
    /\ project' = [project EXCEPT !.current_revision = @ + 1,
                     !.operations = @ \cup {[revision |-> project.current_revision + 1, applied |-> TRUE]}]
    /\ UNCHANGED plan

Undo(op) ==
    /\ op.applied
    /\ project' = [project EXCEPT !.operations = (@ \ {op}) \cup {[op EXCEPT !.applied = FALSE]}]
    /\ UNCHANGED plan

AppliedUpTo(r) == {op.revision : op \in {o \in project.operations : o.applied /\ o.revision <= r}}

Selected(p) == Range(plan[p].asset_selections)

\* The offset of an asset is that of any of the points it is second in: their rows come in
\* the database's order, and the last one stays in the dictionary.
SyncOffsets(points) ==
    {offsets \in [{pt.asset2 : pt \in points} -> {pt.offset : pt \in points}] :
        \A a \in DOMAIN offsets : \E pt \in points : pt.asset2 = a /\ pt.offset = offsets[a]}

\* The operations are those of the revision; clips, cuts, sync points and canvas are those
\* of now. The distinct assets of the clips come in the database's order, too.
create_render_plan(p, r) ==
    /\ plan[p] = NoPlan
    /\ \E selections \in SetToSeqs(project.clips), offsets \in SyncOffsets(project.sync_points) :
         plan' = [plan EXCEPT ![p] = [exists |-> TRUE, revision |-> r,
                                      asset_selections |-> selections,
                                      operations |-> AppliedUpTo(r),
                                      camera_cuts |-> project.cuts,
                                      sync_offsets |-> offsets,
                                      loudness_preset |-> "broadcast",
                                      canvas |-> project.canvas]]
    /\ UNCHANGED project

validate_render_plan(p) ==
    /\ Selected(p) \subseteq asset
    /\ \A a \in Selected(p) : Available(a) # {}
    /\ plan[p].canvas = "valid"

\* The i-th cut is input i of the filter; without cuts the first input is scaled. The
\* blueprint carries the id and the revision of its plan.
plan_to_ffmpeg_blueprint(p) ==
    [inputs |-> plan[p].asset_selections,
     filter |-> IF plan[p].camera_cuts # <<>> THEN 0..(Len(plan[p].camera_cuts) - 1) ELSE {0},
     canvas |-> plan[p].canvas,
     sync_offsets |-> plan[p].sync_offsets,
     loudness_preset |-> plan[p].loudness_preset,
     plan_id |-> p,
     revision |-> plan[p].revision]

\* Defect: the offsets are not compared.
is_plan_deterministic_NoSync(p, q) ==
    /\ plan[p].asset_selections = plan[q].asset_selections
    /\ plan[p].operations = plan[q].operations
    /\ plan[p].camera_cuts = plan[q].camera_cuts
    /\ plan[p].canvas = plan[q].canvas

is_plan_deterministic(p, q) ==
    /\ plan[p].asset_selections = plan[q].asset_selections
    /\ plan[p].operations = plan[q].operations
    /\ plan[p].camera_cuts = plan[q].camera_cuts
    /\ plan[p].sync_offsets = plan[q].sync_offsets
    /\ plan[p].canvas = plan[q].canvas

----------------------------------------------------------------------------
LibraryNext ==
    \/ /\ \/ \E l \in Locations, a \in Assets, type \in LocationTypes : create_location(l, a, type)
          \/ \E l \in Locations : LocationLost(l)
       /\ UNCHANGED planVars
    \/ \E a \in Assets : AssetDeleted(a)

FilesNext ==
    /\ \E a \in Assets, f \in Files : fingerprint_media(a, f) \/ relink_media(a, f)
    /\ UNCHANGED planVars

ProjectNext ==
    /\ \/ \E canvas \in Canvases : PatchProject(canvas)
       \/ \E t \in Timelines : ArrangeTimeline(t)
       \/ increment_revision
       \/ \E op \in project.operations : Undo(op)
       \/ \E p \in Plans, r \in 0..project.current_revision : create_render_plan(p, r)
    /\ UNCHANGED mediaVars

MediaNext == LibraryNext \/ FilesNext \/ ProjectNext

MediaSpec == MediaInit /\ [][MediaNext]_spliceMediaVars

----------------------------------------------------------------------------
(* Properties.                                                             *)

MediaTypeOK ==
    /\ asset \subseteq Assets
    /\ location \in [Locations -> LocationRows]
    /\ \A a \in Assets : /\ linked[a] \subseteq Files
                      /\ fingerprint[a] \subseteq FingerprintRows
                      /\ Cardinality(fingerprint[a]) <= 1
    /\ plan \in [Plans -> PlanRows]
    /\ project.operations \subseteq Operations

\* Sizes whose partial hash is the hash of nothing.
Unreadable(size) == size \div Tenth \in 1..DigestSize

\* An asset is relinked only to the bytes it was fingerprinted from, whatever files of
\* the same size, duration and codecs are offered; the exception is a file so small
\* that its partial hash covers no byte.
RelinkedIsOriginal ==
    \A a \in Assets : \A f, g \in linked[a] : f = g \/ Unreadable(Len(f))

\* What a renderer is told apart from which plan told it.
Unlabelled(blueprint) ==
    [field \in DOMAIN blueprint \ {"plan_id", "revision"} |-> blueprint[field]]

\* A plan that validates can be rendered: all of its media are found, unless they were
\* generated. And a plan that compares as equal to it, made of another revision or after
\* clips, cuts, sync points and media have changed, validates and renders identically, as
\* is_plan_deterministic says: the two blueprints differ in the id and the revision of
\* their plans only.
SoundPlans ==
    \A p \in Plans : plan[p].exists /\ validate_render_plan(p) =>
        /\ \A a \in Selected(p) :
              \/ get_location_for_asset(a) # {}
              \/ \E l \in Available(a) : location[l].location_type = "generated"
        /\ \A q \in Plans : plan[q].exists /\ is_plan_deterministic(p, q) =>
              /\ validate_render_plan(q)
              /\ Unlabelled(plan_to_ffmpeg_blueprint(q)) = Unlabelled(plan_to_ffmpeg_blueprint(p))
=============================================================================
