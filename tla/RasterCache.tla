---------------------------- MODULE RasterCache ----------------------------
(***************************************************************************)
(* The rasters the jobs of a bundle share: LambdaGISProcessor.cache        *)
(* (build_common_cache and watershed_common in app/geoworker.py), the DEM  *)
(* tiles and the field's shapefile it leaves under /tmp, and the warm      *)
(* container that runs one bundle after another over the same /tmp.        *)
(*                                                                         *)
(* The ground is a set of cells, each in one 1-degree tile. A raster is    *)
(* the set of the cells it holds data for: what a clip pads with nodata is *)
(* not in it.                                                              *)
(***************************************************************************)
EXTENDS Naturals, Sequences

CONSTANTS
    Fields,       \* the fields jobs are for
    Areas,        \* the analysis areas a job may carry
    Cells,        \* cells of the ground
    Tiles,        \* DEM tiles
    TileOf,       \* TileOf[c]: the tile that has cell c
    FieldExtent,  \* FieldExtent[f]: the cells of field f's buffered box
    AreaExtent,   \* AreaExtent[w]: the cells of area w's box
    Bundles,      \* the bundles the container may be given
    NoField,      \* field_boundary.shp is missing or broken
    NoArea        \* a job without a watershed_boundary

(* "elev" reads the merged DEM, "local" its clip to the field, "flow" its  *)
(* clip to the analysis area, "maps" what r.watershed makes of the latter; *)
(* "grid" (rasterize_and_colorize) brings its own data.                    *)
Readers == {"elev", "local", "flow", "maps"}

Job == [fn : Readers \union {"grid"}, field : Fields, area : Areas \union {NoArea}]

ASSUME GroundAssumption ==
    /\ TileOf \in [Cells -> Tiles]
    /\ FieldExtent \in [Fields -> SUBSET Cells]
    /\ AreaExtent \in [Areas -> SUBSET Cells]

ASSUME NoneAssumption == NoField \notin Fields /\ NoArea \notin Areas

ASSUME BundlesAssumption == Bundles \subseteq Seq(Job)

VARIABLES
    bundle,   \* the bundle the container works on
    pc,       \* where process_payload is
    outcome,  \* how each job so far ended
    cached,   \* the keys of self.cache
    raster,   \* raster[k]: the cells of the raster under key k
    shp,      \* the field whose polygon is in field_boundary.shp
    tiles,    \* tiles[t]: the cells of tile t on disk, {} if it is not there
    todo,     \* the tiles still to be fetched for the current build
    lost,     \* the tiles that could not be fetched in this invocation
    posted    \* the artifacts made: the job, the polygon and the raster used

vars == <<bundle, pc, outcome, cached, raster, shp, tiles, todo, lost, posted>>

Keys == {"dem_raster", "clipped_raster", "watershed_raster", "watershed"}
Outcomes == {"posted", "raised", "nokey"}
Points == {"idle", "job", "tiles", "clip", "area", "use"}

Artifact == [job : Nat, cut : Fields, cells : SUBSET Cells]

(* The key a job function reads. *)
KeyOf == [elev |-> "dem_raster", local |-> "clipped_raster",
          flow |-> "watershed_raster", maps |-> "watershed"]

(* flow_extent: the analysis area if there is one, else the buffered field. *)
FlowExtent(job) == IF job.area = NoArea THEN FieldExtent[job.field] ELSE AreaExtent[job.area]

(* The extent the merged DEM is fetched for. *)
FetchExtent(job) == FieldExtent[job.field] \union FlowExtent(job)

TilesOf(cells) == {TileOf[c] : c \in cells}
CellsIn(t, cells) == {c \in cells : TileOf[c] = t}

Current == bundle[Len(outcome) + 1]

AtJob(fns) == pc = "job" /\ Len(outcome) < Len(bundle) /\ Current.fn \in fns

(* The current job has ended: process_payload moves to the next. *)
EndJob(how) == outcome' = Append(outcome, how) /\ pc' = "job"

NoTiles == [t \in Tiles |-> {}]
NoRasters == [k \in Keys |-> {}]

Init ==
    /\ bundle = <<>>
    /\ pc = "idle"
    /\ outcome = <<>>
    /\ cached = {}
    /\ raster = NoRasters
    /\ shp = NoField
    /\ tiles = NoTiles
    /\ todo = {}
    /\ lost = {}
    /\ posted = {}

-----------------------------------------------------------------------------
(* Mutant: the processor outlives its bundle, and /tmp with it. *)
InvokeStale(b) ==
    /\ pc = "idle"
    /\ pc' = "job"
    /\ bundle' = b
    /\ outcome' = <<>>
    /\ lost' = {}
    /\ posted' = {}
    /\ UNCHANGED <<cached, raster, shp, tiles, todo>>

(* Mutant: /tmp is not wiped first. *)
InvokeUnwiped(b) ==
    /\ pc = "idle"
    /\ pc' = "job"
    /\ bundle' = b
    /\ outcome' = <<>>
    /\ cached' = {}
    /\ raster' = NoRasters
    /\ todo' = {}
    /\ lost' = {}
    /\ posted' = {}
    /\ UNCHANGED <<shp, tiles>>

(* process_payload begins: a new processor, and /tmp is wiped. *)
Invoke(b) ==
    /\ pc = "idle"
    /\ pc' = "job"
    /\ bundle' = b
    /\ outcome' = <<>>
    /\ cached' = {}
    /\ raster' = NoRasters
    /\ shp' = NoField
    /\ tiles' = NoTiles
    /\ todo' = {}
    /\ lost' = {}
    /\ posted' = {}

(* The bundle is done: the handler wipes /tmp as well. *)
Finish ==
    /\ pc = "job"
    /\ Len(outcome) = Len(bundle)
    /\ pc' = "idle"
    /\ shp' = NoField
    /\ tiles' = NoTiles
    /\ UNCHANGED <<bundle, outcome, cached, raster, todo, lost, posted>>

(* The invocation dies; what it wrote under /tmp stays there. *)
Die ==
    /\ pc # "idle"
    /\ pc' = "idle"
    /\ UNCHANGED <<bundle, outcome, cached, raster, shp, tiles, todo, lost, posted>>

-----------------------------------------------------------------------------
(* build_common_cache. *)

(* get_shapefile_from_geojson_ogr, in a job that then fails: it may raise  *)
(* before it deletes the old shapefile, before it has written the new one, *)
(* or not at all.                                                          *)
Rewrite == shp' \in {shp, NoField, Current.field}

(* Mutant: every job builds. *)
BuildAlways ==
    /\ AtJob(Readers)
    /\ todo' = TilesOf(FetchExtent(Current))
    /\ \/ shp' = Current.field /\ pc' = "tiles" /\ UNCHANGED outcome
       \/ Rewrite /\ EndJob("raised")
    /\ UNCHANGED <<bundle, cached, raster, tiles, lost, posted>>

(* The cache is empty: the field's shapefile is rewritten and the tiles to *)
(* fetch are known.                                                        *)
Build ==
    /\ AtJob(Readers)
    /\ cached = {}
    /\ todo' = TilesOf(FetchExtent(Current))
    /\ \/ shp' = Current.field /\ pc' = "tiles" /\ UNCHANGED outcome
       \/ Rewrite /\ EndJob("raised")
    /\ UNCHANGED <<bundle, cached, raster, tiles, lost, posted>>

(* "if self.cache: return". *)
SkipBuild ==
    /\ AtJob(Readers)
    /\ cached # {}
    /\ pc' = "use"
    /\ UNCHANGED <<bundle, outcome, cached, raster, shp, tiles, todo, lost, posted>>

(* get_dem: a tile on disk is taken as it is, another is fetched and       *)
(* clipped to the extent; a fetch that fails is swallowed.                 *)
FetchTile(t) ==
    /\ pc = "tiles"
    /\ t \in todo
    /\ todo' = todo \ {t}
    /\ \/ tiles[t] # {} /\ UNCHANGED <<tiles, lost>>
       \/ /\ tiles[t] = {}
          /\ tiles' = [tiles EXCEPT ![t] = CellsIn(t, FetchExtent(Current))]
          /\ UNCHANGED lost
       \/ /\ tiles[t] = {}
          /\ lost' = lost \union {t}
          /\ UNCHANGED tiles
    /\ UNCHANGED <<bundle, pc, outcome, cached, raster, shp, posted>>

(* The tiles of the current extent that get_dem_raster_set returns. *)
Found == {t \in TilesOf(FetchExtent(Current)) : tiles[t] # {}}

(* get_elev_raster: no tile at all raises, several are combined. *)
Merge ==
    /\ pc = "tiles"
    /\ todo = {}
    /\ \/ /\ Found # {}
          /\ cached' = {"dem_raster"}
          /\ raster' = [raster EXCEPT !["dem_raster"] = UNION {tiles[t] : t \in Found}]
          /\ pc' = "clip"
          /\ UNCHANGED outcome
       \/ /\ ~ \E t \in Found : Found = {t}
          /\ EndJob("raised")
          /\ UNCHANGED <<cached, raster>>
    /\ UNCHANGED <<bundle, shp, tiles, todo, lost, posted>>

(* clipped_raster, of which watershed_raster is an alias without an area. *)
ClipField ==
    /\ pc = "clip"
    /\ LET clip == raster["dem_raster"] \intersect FieldExtent[Current.field]
       IN  \/ /\ Current.area = NoArea
              /\ cached' = cached \union {"clipped_raster", "watershed_raster"}
              /\ raster' = [raster EXCEPT !["clipped_raster"] = clip, !["watershed_raster"] = clip]
              /\ pc' = "use"
              /\ UNCHANGED outcome
           \/ /\ Current.area # NoArea
              /\ cached' = cached \union {"clipped_raster"}
              /\ raster' = [raster EXCEPT !["clipped_raster"] = clip]
              /\ pc' = "area"
              /\ UNCHANGED outcome
           \/ EndJob("raised") /\ UNCHANGED <<cached, raster>>
    /\ UNCHANGED <<bundle, shp, tiles, todo, lost, posted>>

(* Mutant: the clip goes under a key nobody reads. *)
ClipAreaMisnamed ==
    /\ pc = "area"
    /\ \/ /\ cached' = cached \union {"flow_raster"}
          /\ pc' = "use"
          /\ UNCHANGED <<outcome, raster>>
       \/ EndJob("raised") /\ UNCHANGED <<cached, raster>>
    /\ UNCHANGED <<bundle, shp, tiles, todo, lost, posted>>

(* watershed_raster, clipped to the analysis area. *)
ClipArea ==
    /\ pc = "area"
    /\ \/ /\ cached' = cached \union {"watershed_raster"}
          /\ raster' = [raster EXCEPT !["watershed_raster"] =
                          raster["dem_raster"] \intersect AreaExtent[Current.area]]
          /\ pc' = "use"
          /\ UNCHANGED outcome
       \/ EndJob("raised") /\ UNCHANGED <<cached, raster>>
    /\ UNCHANGED <<bundle, shp, tiles, todo, lost, posted>>

-----------------------------------------------------------------------------
(* The job functions. *)

(* watershed_common runs r.watershed once for all the maps of a bundle. *)
MakeMaps ==
    /\ pc = "use"
    /\ Current.fn = "maps"
    /\ "watershed" \notin cached
    /\ "watershed_raster" \in cached
    /\ \/ /\ cached' = cached \union {"watershed"}
          /\ raster' = [raster EXCEPT !["watershed"] = raster["watershed_raster"]]
          /\ UNCHANGED <<pc, outcome>>
       \/ EndJob("raised") /\ UNCHANGED <<cached, raster>>
    /\ UNCHANGED <<bundle, shp, tiles, todo, lost, posted>>

(* The raster the job reads is not in the cache: a KeyError. *)
MissKey ==
    /\ pc = "use"
    /\ KeyOf[Current.fn] \notin cached
    /\ Current.fn = "maps" => "watershed_raster" \notin cached
    /\ EndJob("nokey")
    /\ UNCHANGED <<bundle, cached, raster, shp, tiles, todo, lost, posted>>

(* The raster is clipped with the shapefile and posted; any part of that   *)
(* may raise, also after a first output was posted.                        *)
Post ==
    /\ pc = "use"
    /\ KeyOf[Current.fn] \in cached
    /\ \/ /\ shp # NoField
          /\ posted' = posted \union
                {[job |-> Len(outcome) + 1, cut |-> shp, cells |-> raster[KeyOf[Current.fn]]]}
          /\ \E how \in {"posted", "raised"} : EndJob(how)
       \/ EndJob("raised") /\ UNCHANGED posted
    /\ UNCHANGED <<bundle, cached, raster, shp, tiles, todo, lost>>

(* rasterize_and_colorize rewrites the shapefile the others clip with. *)
Grid ==
    /\ AtJob({"grid"})
    /\ \/ Rewrite /\ EndJob("raised")
       \/ shp' = Current.field /\ EndJob("posted")
    /\ UNCHANGED <<bundle, cached, raster, tiles, todo, lost, posted>>

Next ==
    \/ \E b \in Bundles : Invoke(b)
    \/ Build
    \/ SkipBuild
    \/ \E t \in Tiles : FetchTile(t)
    \/ Merge
    \/ ClipField
    \/ ClipArea
    \/ MakeMaps
    \/ MissKey
    \/ Post
    \/ Grid
    \/ Finish
    \/ Die

Spec == Init /\ [][Next]_vars

-----------------------------------------------------------------------------
(* Properties. *)

(* Every variable keeps to the values the code gives it. *)
TypeOK ==
    /\ bundle \in Bundles \union {<<>>}
    /\ pc \in Points
    /\ outcome \in Seq(Outcomes) /\ Len(outcome) <= Len(bundle)
    /\ cached \subseteq Keys
    /\ raster \in [Keys -> SUBSET Cells]
    /\ shp \in Fields \union {NoField}
    /\ tiles \in [Tiles -> SUBSET Cells]
    /\ todo \subseteq Tiles
    /\ lost \subseteq Tiles
    /\ posted \subseteq Artifact

(* What the cache is written for: a bundle about one field and one area. *)
Uniform(b) ==
    \A i, j \in 1 .. Len(b) : b[i].field = b[j].field /\ b[i].area = b[j].area

(* The cells the artifact of this job should be made from. *)
Wanted(job) == IF job.fn \in {"flow", "maps"} THEN FlowExtent(job) ELSE FieldExtent[job.field]

(* On a warm container that has served other fields, whatever failed or    *)
(* died before, an artifact is cut with its own job's field and made of    *)
(* cells of its own job's extent.                                          *)
OwnGround ==
    Uniform(bundle) =>
        \A p \in posted : /\ p.cut = bundle[p.job].field
                          /\ p.cells \subseteq FetchExtent(bundle[p.job])

(* An artifact lacks only ground whose tile could not be fetched in this   *)
(* very invocation: neither a tile left over from another extent nor a     *)
(* build that was cut short leaves any other hole.                         *)
LacksOnlyLost ==
    Uniform(bundle) =>
        \A p \in posted : \A c \in Wanted(bundle[p.job]) \ p.cells : TileOf[c] \in lost

(* "Field shapefile + DEM rasters shared across every job in a batch":     *)
(* while a bundle runs, a raster once cached is neither rebuilt nor        *)
(* dropped, so all the bundle's artifacts stand on the same ground.        *)
SharedRasters ==
    [][ pc # "idle" =>
          cached \subseteq cached' /\ \A k \in cached : raster'[k] = raster[k] ]_vars

-----------------------------------------------------------------------------
(* What the repository says and the code does not keep: see the README.    *)

(* "So one bad job does not deny its siblings their run": no job fails     *)
(* because a sibling's build was cut short.                                *)
NoSiblingDenied == \A i \in 1 .. Len(outcome) : outcome[i] # "nokey"

=============================================================================
