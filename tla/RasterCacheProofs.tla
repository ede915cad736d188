------------------------- MODULE RasterCacheProofs -------------------------
(***************************************************************************)
(* Theorems of RasterCache, for any ground, any tiles and any bundles.     *)
(***************************************************************************)
EXTENDS RasterCache, SequenceTheorems, TLAPS

Building == {"tiles", "clip", "area", "use"}

(* While the cache is built or read, a job that reads it is current. *)
Placed == pc \in Building => Len(outcome) < Len(bundle) /\ Current.fn \in Readers

(* How far a build has come is how far the cache is filled. *)
Stage ==
    /\ pc = "tiles" => cached = {}
    /\ pc = "clip" => cached = {"dem_raster"}
    /\ pc = "area" => cached = {"dem_raster", "clipped_raster"} /\ Current.area # NoArea

Typing == TypeOK /\ Placed /\ Stage

-----------------------------------------------------------------------------
(* A job of the bundle has a field, and extents made of cells. *)
LEMMA JobAt ==
    ASSUME TypeOK, NEW i \in 1 .. Len(bundle)
    PROVE  /\ bundle[i] \in Job
           /\ bundle[i].field \in Fields
           /\ FieldExtent[bundle[i].field] \in SUBSET Cells
           /\ FlowExtent(bundle[i]) \in SUBSET Cells
           /\ FetchExtent(bundle[i]) \in SUBSET Cells
           /\ TilesOf(FetchExtent(bundle[i])) \subseteq Tiles
  <1>1. bundle \in Seq(Job)
    <2>1. <<>> \in Seq(Job)
      BY EmptySeq
    <2> QED
      BY <2>1, BundlesAssumption DEF TypeOK
  <1>2. bundle[i] \in Job
    BY <1>1, ElementOfSeq
  <1>3. bundle[i].field \in Fields /\ bundle[i].area \in Areas \union {NoArea}
    BY <1>2 DEF Job
  <1>4. FieldExtent[bundle[i].field] \in SUBSET Cells
    BY <1>3, GroundAssumption
  <1>5. FlowExtent(bundle[i]) \in SUBSET Cells
    BY <1>3, <1>4, GroundAssumption DEF FlowExtent
  <1>6. FetchExtent(bundle[i]) \in SUBSET Cells
    BY <1>4, <1>5 DEF FetchExtent
  <1>7. TilesOf(FetchExtent(bundle[i])) \subseteq Tiles
    BY <1>6, GroundAssumption DEF TilesOf
  <1> QED
    BY <1>2, <1>3, <1>4, <1>5, <1>6, <1>7

(* The current job is a job of the bundle. *)
LEMMA CurrentAt ==
    ASSUME TypeOK, Len(outcome) < Len(bundle)
    PROVE  Len(outcome) + 1 \in 1 .. Len(bundle)
  <1>1. bundle \in Seq(Job)
    <2>1. <<>> \in Seq(Job)
      BY EmptySeq
    <2> QED
      BY <2>1, BundlesAssumption DEF TypeOK
  <1>2. Len(outcome) \in Nat /\ Len(bundle) \in Nat
    BY <1>1, LenProperties DEF TypeOK
  <1> QED
    BY <1>2

(* Ending a job keeps the record of outcomes within the bundle. *)
LEMMA EndJobTyping ==
    ASSUME TypeOK, Len(outcome) < Len(bundle), NEW how \in Outcomes, EndJob(how)
    PROVE  outcome' \in Seq(Outcomes) /\ Len(outcome') <= Len(bundle) /\ pc' = "job"
  <1>1. outcome' = Append(outcome, how) /\ pc' = "job"
    BY DEF EndJob
  <1>2. outcome' \in Seq(Outcomes) /\ Len(outcome') = Len(outcome) + 1
    BY <1>1, AppendProperties DEF TypeOK
  <1>3. Len(outcome) + 1 \in 1 .. Len(bundle)
    BY CurrentAt
  <1> QED
    BY <1>1, <1>2, <1>3

LEMMA InitTyping == Init => Typing
  <1> SUFFICES ASSUME Init PROVE Typing
    OBVIOUS
  <1>1. outcome \in Seq(Outcomes) /\ Len(outcome) <= Len(bundle)
    <2>1. outcome = <<>> /\ bundle = <<>> /\ Len(<<>>) = 0
      BY EmptySeq DEF Init
    <2> QED
      BY <2>1, EmptySeq
  <1>2. TypeOK
    BY <1>1 DEF Init, TypeOK, Points, NoRasters, NoTiles
  <1>3. Placed /\ Stage
    BY DEF Init, Placed, Stage, Building
  <1> QED
    BY <1>2, <1>3 DEF Typing

LEMMA NextTyping == Typing /\ [Next]_vars => Typing'
  <1> SUFFICES ASSUME Typing, [Next]_vars PROVE Typing'
    OBVIOUS
  <1>0. TypeOK /\ Placed /\ Stage
    BY DEF Typing
  <1>1. ASSUME NEW b \in Bundles, Invoke(b) PROVE Typing'
    <2>1. b \in Seq(Job) /\ Len(b) \in Nat
      BY BundlesAssumption, LenProperties
    <2>2. outcome' \in Seq(Outcomes) /\ Len(outcome') <= Len(bundle')
      <3>1. outcome' = <<>> /\ bundle' = b /\ Len(<<>>) = 0
        BY <1>1, EmptySeq DEF Invoke
      <3> QED
        BY <2>1, <3>1, EmptySeq
    <2>3. TypeOK'
      BY <1>0, <1>1, <2>2 DEF Invoke, TypeOK, Points, NoRasters, NoTiles
    <2>4. Placed' /\ Stage'
      BY <1>1 DEF Invoke, Placed, Stage, Building
    <2> QED
      BY <2>3, <2>4 DEF Typing
  <1>2. CASE Build
    <2>1. Len(outcome) < Len(bundle) /\ Current.fn \in Readers /\ cached = {}
      BY <1>2 DEF Build, AtJob
    <2>2. /\ Current.field \in Fields
          /\ TilesOf(FetchExtent(Current)) \subseteq Tiles
      BY <1>0, <2>1, CurrentAt, JobAt DEF Current
    <2>3. CASE shp' = Current.field /\ pc' = "tiles" /\ UNCHANGED outcome
      <3>1. TypeOK'
        BY <1>0, <1>2, <2>2, <2>3 DEF Build, TypeOK, Points
      <3>2. Placed' /\ Stage'
        BY <1>2, <2>1, <2>3 DEF Build, Placed, Stage, Current
      <3> QED
        BY <3>1, <3>2 DEF Typing
    <2>4. CASE Rewrite /\ EndJob("raised")
      <3>1. outcome' \in Seq(Outcomes) /\ Len(outcome') <= Len(bundle) /\ pc' = "job"
        BY <1>0, <2>1, <2>4, EndJobTyping DEF Outcomes
      <3>2. TypeOK'
        BY <1>0, <1>2, <2>2, <2>4, <3>1 DEF Build, Rewrite, TypeOK, Points
      <3> QED
        BY <3>1, <3>2 DEF Typing, Placed, Stage, Building
    <2> QED
      BY <1>2, <2>3, <2>4 DEF Build
  <1>3. CASE SkipBuild
    <2>1. TypeOK'
      BY <1>0, <1>3 DEF SkipBuild, TypeOK, Points
    <2>2. Placed' /\ Stage'
      BY <1>3 DEF SkipBuild, AtJob, Placed, Stage, Current
    <2> QED
      BY <2>1, <2>2 DEF Typing
  <1>4. ASSUME NEW t \in Tiles, FetchTile(t) PROVE Typing'
    <2>1. Len(outcome) < Len(bundle) /\ pc = "tiles"
      BY <1>0, <1>4 DEF FetchTile, Placed, Building
    <2>2. CellsIn(t, FetchExtent(Current)) \in SUBSET Cells
      BY <1>0, <2>1, CurrentAt, JobAt DEF Current, CellsIn
    <2>3. TypeOK'
      BY <1>0, <1>4, <2>2 DEF FetchTile, TypeOK
    <2>4. Placed' /\ Stage'
      BY <1>0, <1>4 DEF FetchTile, Placed, Stage, Current
    <2> QED
      BY <2>3, <2>4 DEF Typing
  <1>5. CASE Merge
    <2>1. Len(outcome) < Len(bundle) /\ pc = "tiles" /\ Current.fn \in Readers
      BY <1>0, <1>5 DEF Merge, Placed, Building
    <2>2. CASE cached' = {"dem_raster"} /\ pc' = "clip" /\ UNCHANGED outcome
               /\ raster' = [raster EXCEPT !["dem_raster"] = UNION {tiles[t] : t \in Found}]
      <3>1. UNION {tiles[t] : t \in Found} \in SUBSET Cells
        <4>1. Found \subseteq Tiles
          BY <1>0, <2>1, CurrentAt, JobAt DEF Current, Found
        <4> QED
          BY <1>0, <4>1 DEF TypeOK
      <3>2. TypeOK'
        BY <1>0, <1>5, <2>2, <3>1 DEF Merge, TypeOK, Points, Keys
      <3>3. Placed' /\ Stage'
        BY <1>5, <2>1, <2>2 DEF Merge, Placed, Stage, Current
      <3> QED
        BY <3>2, <3>3 DEF Typing
    <2>3. CASE EndJob("raised") /\ UNCHANGED <<cached, raster>>
      <3>1. outcome' \in Seq(Outcomes) /\ Len(outcome') <= Len(bundle) /\ pc' = "job"
        BY <1>0, <2>1, <2>3, EndJobTyping DEF Outcomes
      <3>2. TypeOK'
        BY <1>0, <1>5, <2>3, <3>1 DEF Merge, TypeOK, Points
      <3> QED
        BY <3>1, <3>2 DEF Typing, Placed, Stage, Building
    <2> QED
      BY <1>5, <2>2, <2>3 DEF Merge
  <1>6. CASE ClipField
    <2>1. /\ Len(outcome) < Len(bundle) /\ pc = "clip" /\ Current.fn \in Readers
          /\ cached = {"dem_raster"}
      BY <1>0, <1>6 DEF ClipField, Placed, Stage, Building
    <2> DEFINE clip == raster["dem_raster"] \intersect FieldExtent[Current.field]
    <2>2. clip \in SUBSET Cells
      BY <1>0, <2>1, CurrentAt, JobAt DEF Current
    <2>3. CASE /\ cached' = cached \union {"clipped_raster", "watershed_raster"}
               /\ raster' = [raster EXCEPT !["clipped_raster"] = clip, !["watershed_raster"] = clip]
               /\ pc' = "use" /\ UNCHANGED outcome
      <3>1. TypeOK'
        BY <1>0, <1>6, <2>2, <2>3 DEF ClipField, TypeOK, Points, Keys
      <3>2. Placed' /\ Stage'
        BY <1>6, <2>1, <2>3 DEF ClipField, Placed, Stage, Current
      <3> QED
        BY <3>1, <3>2 DEF Typing
    <2>4. CASE /\ cached' = cached \union {"clipped_raster"}
               /\ raster' = [raster EXCEPT !["clipped_raster"] = clip]
               /\ Current.area # NoArea /\ pc' = "area" /\ UNCHANGED outcome
      <3>1. TypeOK'
        BY <1>0, <1>6, <2>2, <2>4 DEF ClipField, TypeOK, Points, Keys
      <3>2. Placed' /\ Stage'
        BY <1>6, <2>1, <2>4 DEF ClipField, Placed, Stage, Current
      <3> QED
        BY <3>1, <3>2 DEF Typing
    <2>5. CASE EndJob("raised") /\ UNCHANGED <<cached, raster>>
      <3>1. outcome' \in Seq(Outcomes) /\ Len(outcome') <= Len(bundle) /\ pc' = "job"
        BY <1>0, <2>1, <2>5, EndJobTyping DEF Outcomes
      <3>2. TypeOK'
        BY <1>0, <1>6, <2>5, <3>1 DEF ClipField, TypeOK, Points
      <3> QED
        BY <3>1, <3>2 DEF Typing, Placed, Stage, Building
    <2> QED
      BY <1>6, <2>3, <2>4, <2>5 DEF ClipField
  <1>7. CASE ClipArea
    <2>1. /\ Len(outcome) < Len(bundle) /\ pc = "area" /\ Current.fn \in Readers
      BY <1>0, <1>7 DEF ClipArea, Placed, Building
    <2> DEFINE clip == raster["dem_raster"] \intersect AreaExtent[Current.area]
    <2>2. clip \in SUBSET Cells
      BY <1>0 DEF TypeOK, Keys
    <2>3. CASE /\ cached' = cached \union {"watershed_raster"}
               /\ raster' = [raster EXCEPT !["watershed_raster"] = clip]
               /\ pc' = "use" /\ UNCHANGED outcome
      <3>1. TypeOK'
        BY <1>0, <1>7, <2>2, <2>3 DEF ClipArea, TypeOK, Points, Keys
      <3>2. Placed' /\ Stage'
        BY <1>7, <2>1, <2>3 DEF ClipArea, Placed, Stage, Current
      <3> QED
        BY <3>1, <3>2 DEF Typing
    <2>4. CASE EndJob("raised") /\ UNCHANGED <<cached, raster>>
      <3>1. outcome' \in Seq(Outcomes) /\ Len(outcome') <= Len(bundle) /\ pc' = "job"
        BY <1>0, <2>1, <2>4, EndJobTyping DEF Outcomes
      <3>2. TypeOK'
        BY <1>0, <1>7, <2>4, <3>1 DEF ClipArea, TypeOK, Points
      <3> QED
        BY <3>1, <3>2 DEF Typing, Placed, Stage, Building
    <2> QED
      BY <1>7, <2>3, <2>4 DEF ClipArea
  <1>8. CASE MakeMaps
    <2>1. /\ Len(outcome) < Len(bundle) /\ pc = "use" /\ Current.fn \in Readers
      BY <1>0, <1>8 DEF MakeMaps, Placed, Building
    <2>2. CASE /\ cached' = cached \union {"watershed"}
               /\ raster' = [raster EXCEPT !["watershed"] = raster["watershed_raster"]]
               /\ UNCHANGED <<pc, outcome>>
      <3>1. TypeOK'
        BY <1>0, <1>8, <2>2 DEF MakeMaps, TypeOK, Keys
      <3>2. Placed' /\ Stage'
        BY <1>8, <2>1, <2>2 DEF MakeMaps, Placed, Stage, Current
      <3> QED
        BY <3>1, <3>2 DEF Typing
    <2>3. CASE EndJob("raised") /\ UNCHANGED <<cached, raster>>
      <3>1. outcome' \in Seq(Outcomes) /\ Len(outcome') <= Len(bundle) /\ pc' = "job"
        BY <1>0, <2>1, <2>3, EndJobTyping DEF Outcomes
      <3>2. TypeOK'
        BY <1>0, <1>8, <2>3, <3>1 DEF MakeMaps, TypeOK, Points
      <3> QED
        BY <3>1, <3>2 DEF Typing, Placed, Stage, Building
    <2> QED
      BY <1>8, <2>2, <2>3 DEF MakeMaps
  <1>9. CASE MissKey
    <2>1. Len(outcome) < Len(bundle)
      BY <1>0, <1>9 DEF MissKey, Placed, Building
    <2>2. outcome' \in Seq(Outcomes) /\ Len(outcome') <= Len(bundle) /\ pc' = "job"
      BY <1>0, <1>9, <2>1, EndJobTyping DEF Outcomes, MissKey
    <2>3. TypeOK'
      BY <1>0, <1>9, <2>2 DEF MissKey, TypeOK, Points
    <2> QED
      BY <2>2, <2>3 DEF Typing, Placed, Stage, Building
  <1>10. CASE Post
    <2>1. Len(outcome) < Len(bundle) /\ Current.fn \in Readers
      BY <1>0, <1>10 DEF Post, Placed, Building
    <2>2. outcome' \in Seq(Outcomes) /\ Len(outcome') <= Len(bundle) /\ pc' = "job"
      <3>1. CASE EndJob("posted")
        BY <1>0, <2>1, <3>1, EndJobTyping DEF Outcomes
      <3>2. CASE EndJob("raised")
        BY <1>0, <2>1, <3>2, EndJobTyping DEF Outcomes
      <3> QED
        BY <1>10, <3>1, <3>2 DEF Post
    <2>3. posted' \subseteq Artifact
      <3>1. Len(outcome) + 1 \in Nat
        BY <1>0, <2>1, CurrentAt
      <3>2. KeyOf[Current.fn] \in Keys
        BY <2>1 DEF KeyOf, Keys, Readers
      <3>3. raster[KeyOf[Current.fn]] \in SUBSET Cells
        BY <1>0, <3>2 DEF TypeOK
      <3>4. shp # NoField => shp \in Fields
        BY <1>0 DEF TypeOK
      <3>5. ASSUME shp # NoField
            PROVE  [job |-> Len(outcome) + 1, cut |-> shp, cells |-> raster[KeyOf[Current.fn]]]
                      \in Artifact
        BY <3>1, <3>3, <3>4, <3>5 DEF Artifact
      <3> QED
        BY <1>0, <1>10, <3>5 DEF Post, TypeOK
    <2>4. TypeOK'
      BY <1>0, <1>10, <2>2, <2>3 DEF Post, TypeOK, Points
    <2> QED
      BY <2>2, <2>4 DEF Typing, Placed, Stage, Building
  <1>11. CASE Grid
    <2>1. Len(outcome) < Len(bundle)
      BY <1>11 DEF Grid, AtJob
    <2>2. outcome' \in Seq(Outcomes) /\ Len(outcome') <= Len(bundle) /\ pc' = "job"
      <3>1. CASE EndJob("posted")
        BY <1>0, <2>1, <3>1, EndJobTyping DEF Outcomes
      <3>2. CASE EndJob("raised")
        BY <1>0, <2>1, <3>2, EndJobTyping DEF Outcomes
      <3> QED
        BY <1>11, <3>1, <3>2 DEF Grid
    <2>3. shp' \in Fields \union {NoField}
      BY <1>0, <1>11, <2>1, CurrentAt, JobAt DEF Grid, Rewrite, Current, TypeOK
    <2>4. TypeOK'
      BY <1>0, <1>11, <2>2, <2>3 DEF Grid, TypeOK, Points
    <2> QED
      BY <2>2, <2>4 DEF Typing, Placed, Stage, Building
  <1>12. CASE Finish
    BY <1>0, <1>12 DEF Finish, Typing, TypeOK, Points, NoTiles, Placed, Stage, Building
  <1>13. CASE Die
    BY <1>0, <1>13 DEF Die, Typing, TypeOK, Points, Placed, Stage, Building
  <1>14. CASE UNCHANGED vars
    BY <1>0, <1>14 DEF vars, Typing, TypeOK, Placed, Stage, Current
  <1> QED
    BY <1>1, <1>2, <1>3, <1>4, <1>5, <1>6, <1>7, <1>8, <1>9, <1>10, <1>11, <1>12, <1>13,
       <1>14 DEF Next

LEMMA SpecTyping == Spec => []Typing
  BY InitTyping, NextTyping, PTL DEF Spec

(* Every variable keeps to its type. *)
THEOREM TypeCorrect == Spec => []TypeOK
  <1>1. Typing => TypeOK
    BY DEF Typing
  <1> QED
    BY <1>1, SpecTyping, PTL

-----------------------------------------------------------------------------
(* While a bundle runs, no raster of its cache is rebuilt or dropped.      *)
THEOREM CacheIsShared == Spec => SharedRasters
  <1>1. ASSUME Typing, [Next]_vars
        PROVE  pc # "idle" =>
                  cached \subseteq cached' /\ \A k \in cached : raster'[k] = raster[k]
    <2> SUFFICES ASSUME pc # "idle"
                 PROVE  cached \subseteq cached' /\ \A k \in cached : raster'[k] = raster[k]
      OBVIOUS
    <2>0. TypeOK /\ Stage
      BY <1>1 DEF Typing
    <2>1. CASE Merge
      BY <2>0, <2>1 DEF Merge, Stage, TypeOK
    <2>2. CASE ClipField
      BY <2>0, <2>2 DEF ClipField, Stage, TypeOK
    <2>3. CASE ClipArea
      BY <2>0, <2>3 DEF ClipArea, Stage, TypeOK
    <2>4. CASE MakeMaps
      BY <2>0, <2>4 DEF MakeMaps, TypeOK
    <2>5. CASE UNCHANGED <<cached, raster>>
      BY <2>5
    <2>6. UNCHANGED <<cached, raster>> \/ Merge \/ ClipField \/ ClipArea \/ MakeMaps
      BY <1>1 DEF Next, vars, Invoke, Build, SkipBuild, FetchTile, MissKey, Post, Grid, Finish, Die
    <2> QED
      BY <2>1, <2>2, <2>3, <2>4, <2>5, <2>6
  <1> QED
    BY <1>1, SpecTyping, PTL DEF Spec, SharedRasters

-----------------------------------------------------------------------------
(* What a raster under this key should hold for this job. *)
KeyWant(k, job) ==
    IF k = "dem_raster" THEN FetchExtent(job)
    ELSE IF k = "clipped_raster" THEN FieldExtent[job.field]
    ELSE FlowExtent(job)

(* The cells lack only ground whose tile was lost in this invocation. *)
Covers(cells, want) == \A c \in want \ cells : TileOf[c] \in lost

(* The polygon on disk, if any, is the bundle's field. *)
ShpSound == shp # NoField => \A i \in 1 .. Len(bundle) : shp = bundle[i].field

(* A tile on disk is all of the tile that the bundle's jobs need. *)
TilesSound ==
    \A i \in 1 .. Len(bundle), t \in Tiles :
        tiles[t] # {} => tiles[t] = CellsIn(t, FetchExtent(bundle[i]))

(* A tile that is no longer to be fetched is on disk or lost. *)
FetchSound ==
    pc = "tiles" =>
        \A t \in TilesOf(FetchExtent(Current)) \ todo : tiles[t] # {} \/ t \in lost

RastersSound ==
    \A i \in 1 .. Len(bundle), k \in cached :
        raster[k] \subseteq FetchExtent(bundle[i]) /\ Covers(raster[k], KeyWant(k, bundle[i]))

PostedSound ==
    \A p \in posted :
        /\ p.job \in 1 .. Len(bundle)
        /\ p.cut = bundle[p.job].field
        /\ p.cells \subseteq FetchExtent(bundle[p.job])
        /\ Covers(p.cells, Wanted(bundle[p.job]))

Sound == ShpSound /\ TilesSound /\ FetchSound /\ RastersSound /\ PostedSound

IInv == Typing /\ (Uniform(bundle) => Sound)

(* The jobs of a uniform bundle are about the same ground. *)
LEMMA SameGround ==
    ASSUME Uniform(bundle), NEW i \in 1 .. Len(bundle), NEW j \in 1 .. Len(bundle)
    PROVE  /\ bundle[i].field = bundle[j].field
           /\ bundle[i].area = bundle[j].area
           /\ FlowExtent(bundle[i]) = FlowExtent(bundle[j])
           /\ FetchExtent(bundle[i]) = FetchExtent(bundle[j])
           /\ \A k : KeyWant(k, bundle[i]) = KeyWant(k, bundle[j])
  BY DEF Uniform, FlowExtent, FetchExtent, KeyWant

LEMMA InitSound == Init => Sound
  <1> SUFFICES ASSUME Init PROVE Sound
    OBVIOUS
  <1>1. Len(bundle) = 0
    BY EmptySeq DEF Init
  <1> QED
    BY <1>1 DEF Init, Sound, ShpSound, TilesSound, FetchSound, RastersSound, PostedSound

(* An action that leaves the bundle, the ground on disk and in the cache,  *)
(* and the artifacts alone keeps what they stand for.                      *)
LEMMA FrameSound ==
    ASSUME Sound, UNCHANGED <<bundle, cached, raster, tiles, lost, posted>>, ShpSound', FetchSound'
    PROVE  Sound'
  <1>1. TilesSound'
    BY DEF Sound, TilesSound
  <1>2. RastersSound'
    BY DEF Sound, RastersSound, Covers
  <1>3. PostedSound'
    BY DEF Sound, PostedSound, Covers
  <1> QED
    BY <1>1, <1>2, <1>3 DEF Sound

LEMMA NextSound ==
    ASSUME Typing, Uniform(bundle) => Sound, [Next]_vars, Uniform(bundle')
    PROVE  Sound'
  <1>0. TypeOK /\ Placed /\ Stage
    BY DEF Typing
  <1>1. ASSUME NEW b \in Bundles, Invoke(b) PROVE Sound'
    <2>1. posted' = {} /\ cached' = {} /\ pc' = "job" /\ shp' = NoField /\ tiles' = NoTiles
      BY <1>1 DEF Invoke
    <2> QED
      BY <2>1 DEF Sound, ShpSound, TilesSound, FetchSound, RastersSound, PostedSound, NoTiles
  <1> SUFFICES ASSUME UNCHANGED bundle, Sound, Uniform(bundle), ~ \E b \in Bundles : Invoke(b)
               PROVE  Sound'
    <2>1. (\E b \in Bundles : Invoke(b)) \/ UNCHANGED bundle
      BY DEF Next, vars, Build, SkipBuild, FetchTile, Merge, ClipField, ClipArea, MakeMaps,
             MissKey, Post, Grid, Finish, Die
    <2>2. UNCHANGED bundle => Uniform(bundle)
      BY DEF Uniform
    <2> QED
      BY <1>1, <2>1, <2>2
  <1> USE DEF Sound
  <1>2. CASE Build
    <2>1. Len(outcome) < Len(bundle)
      BY <1>2 DEF Build, AtJob
    <2>2. Len(outcome) + 1 \in 1 .. Len(bundle)
      BY <1>0, <2>1, CurrentAt
    <2>3. UNCHANGED <<bundle, cached, raster, tiles, lost, posted>>
      BY <1>2 DEF Build
    <2>4. ShpSound'
      <3>1. CASE shp' = Current.field
        BY <2>2, <3>1, SameGround DEF ShpSound, Current
      <3> QED
        BY <1>2, <3>1 DEF Build, Rewrite, ShpSound
    <2>5. FetchSound'
      <3>1. CASE pc' = "tiles" /\ UNCHANGED outcome
        BY <1>2, <3>1 DEF Build, FetchSound, Current
      <3> QED
        BY <1>2, <3>1 DEF Build, FetchSound, EndJob
    <2> QED
      BY <2>3, <2>4, <2>5, FrameSound
  <1>3. CASE SkipBuild
    BY <1>3, FrameSound DEF SkipBuild, ShpSound, FetchSound
  <1>4. ASSUME NEW t \in Tiles, FetchTile(t) PROVE Sound'
    <2>1. Len(outcome) + 1 \in 1 .. Len(bundle) /\ pc = "tiles"
      BY <1>0, <1>4, CurrentAt DEF FetchTile, Placed, Building
    <2>2. lost \subseteq lost'
      BY <1>4 DEF FetchTile
    <2>3. TilesSound'
      <3> SUFFICES ASSUME NEW i \in 1 .. Len(bundle), NEW u \in Tiles, tiles'[u] # {}
                   PROVE  tiles'[u] = CellsIn(u, FetchExtent(bundle[i]))
        BY DEF TilesSound
      <3>1. FetchExtent(bundle[i]) = FetchExtent(Current)
        BY <2>1, SameGround DEF Current
      <3>2. CASE tiles' = [tiles EXCEPT ![t] = CellsIn(t, FetchExtent(Current))]
        BY <1>0, <3>1, <3>2 DEF TypeOK, TilesSound
      <3> QED
        BY <1>4, <3>2 DEF FetchTile, TilesSound
    <2>4. FetchSound'
      <3>1. UNCHANGED <<outcome, pc>>
        BY <1>4 DEF FetchTile
      <3> SUFFICES ASSUME NEW u \in TilesOf(FetchExtent(Current)) \ todo'
                   PROVE  tiles'[u] # {} \/ u \in lost'
        BY <3>1 DEF FetchSound, Current
      <3>2. CASE u = t
        <4>1. CASE tiles' = [tiles EXCEPT ![t] = CellsIn(t, FetchExtent(Current))]
          <5>1. CellsIn(t, FetchExtent(Current)) # {}
            BY <3>2 DEF TilesOf, CellsIn
          <5> QED
            BY <1>0, <3>2, <4>1, <5>1 DEF TypeOK
        <4> QED
          BY <1>4, <3>2, <4>1 DEF FetchTile
      <3>3. CASE u # t
        <4>1. u \in TilesOf(FetchExtent(Current)) \ todo
          BY <1>4, <3>3 DEF FetchTile
        <4>2. tiles[u] # {} \/ u \in lost
          BY <2>1, <4>1 DEF FetchSound
        <4>3. u \in Tiles
          BY <1>0, <2>1, JobAt DEF Current
        <4>4. tiles'[u] = tiles[u]
          BY <1>0, <1>4, <3>3, <4>3 DEF FetchTile, TypeOK
        <4> QED
          BY <2>2, <4>2, <4>4
      <3> QED
        BY <3>2, <3>3
    <2>5. RastersSound' /\ PostedSound' /\ ShpSound'
      BY <1>4, <2>2 DEF FetchTile, RastersSound, PostedSound, ShpSound, Covers
    <2> QED
      BY <2>3, <2>4, <2>5
  <1>5. CASE Merge
    <2>1. Len(outcome) + 1 \in 1 .. Len(bundle) /\ pc = "tiles" /\ cached = {}
      BY <1>0, <1>5, CurrentAt DEF Merge, Placed, Stage, Building
    <2>2. CASE UNCHANGED cached
      <3>1. UNCHANGED <<cached, raster>> /\ pc' = "job"
        BY <1>5, <2>1, <2>2 DEF Merge, EndJob
      <3> QED
        BY <1>5, <3>1, FrameSound DEF Merge, ShpSound, FetchSound
    <2>3. CASE /\ cached' = {"dem_raster"}
               /\ raster' = [raster EXCEPT !["dem_raster"] = UNION {tiles[t] : t \in Found}]
               /\ pc' = "clip"
      <3> DEFINE dem == UNION {tiles[t] : t \in Found}
      <3>1. raster'["dem_raster"] = dem
        BY <1>0, <2>3 DEF TypeOK, Keys
      <3>2. todo = {} /\ UNCHANGED <<bundle, shp, tiles, todo, lost, posted>>
        BY <1>5 DEF Merge
      <3>3. Found \subseteq Tiles
        BY <1>0, <2>1, JobAt DEF Found, Current
      <3>4. \A t \in Found : tiles[t] = CellsIn(t, FetchExtent(Current))
        BY <2>1, <3>3 DEF TilesSound, Found, Current
      <3>5. dem \subseteq FetchExtent(Current)
        BY <3>4 DEF CellsIn
      <3>6. ASSUME NEW c \in FetchExtent(Current) \ dem PROVE TileOf[c] \in lost
        <4>1. TileOf[c] \in TilesOf(FetchExtent(Current))
          BY DEF TilesOf
        <4>2. tiles[TileOf[c]] # {} \/ TileOf[c] \in lost
          BY <2>1, <3>2, <4>1 DEF FetchSound
        <4>3. ASSUME tiles[TileOf[c]] # {} PROVE c \in dem
          <5>1. TileOf[c] \in Found
            BY <4>1, <4>3 DEF Found
          <5>2. c \in tiles[TileOf[c]]
            BY <3>4, <5>1 DEF CellsIn
          <5> QED
            BY <5>1, <5>2
        <4> QED
          BY <3>6, <4>2, <4>3
      <3>7. RastersSound'
        <4> SUFFICES ASSUME NEW i \in 1 .. Len(bundle)
                     PROVE  /\ dem \subseteq FetchExtent(bundle[i])
                            /\ \A c \in FetchExtent(bundle[i]) \ dem : TileOf[c] \in lost
          BY <2>3, <3>1, <3>2 DEF RastersSound, Covers, KeyWant
        <4>1. FetchExtent(bundle[i]) = FetchExtent(Current)
          BY <2>1, SameGround DEF Current
        <4> QED
          BY <3>5, <3>6, <4>1
      <3> QED
        BY <2>3, <3>2, <3>7 DEF ShpSound, TilesSound, FetchSound, PostedSound, Covers
    <2> QED
      BY <1>5, <2>2, <2>3 DEF Merge
  <1>6. CASE ClipField
    <2>1. Len(outcome) + 1 \in 1 .. Len(bundle) /\ pc = "clip" /\ cached = {"dem_raster"}
      BY <1>0, <1>6, CurrentAt DEF ClipField, Placed, Stage, Building
    <2>2. UNCHANGED <<bundle, shp, tiles, todo, lost, posted>> /\ pc' # "tiles"
      BY <1>6 DEF ClipField, EndJob
    <2>3. ShpSound' /\ TilesSound' /\ FetchSound' /\ PostedSound'
      BY <2>2 DEF ShpSound, TilesSound, FetchSound, PostedSound, Covers
    <2> DEFINE clip == raster["dem_raster"] \intersect FieldExtent[Current.field]
    <2>4. ASSUME NEW i \in 1 .. Len(bundle)
          PROVE  /\ FieldExtent[bundle[i].field] = FieldExtent[Current.field]
                 /\ clip \subseteq FetchExtent(bundle[i])
                 /\ Covers(clip, FieldExtent[bundle[i].field])
      <3>1. FieldExtent[bundle[i].field] = FieldExtent[Current.field]
        BY <2>1, SameGround DEF Current
      <3>2. FieldExtent[bundle[i].field] \subseteq FetchExtent(bundle[i])
        BY DEF FetchExtent
      <3>3. /\ raster["dem_raster"] \subseteq FetchExtent(bundle[i])
            /\ Covers(raster["dem_raster"], FetchExtent(bundle[i]))
        BY <2>1 DEF RastersSound, KeyWant
      <3> QED
        BY <3>1, <3>2, <3>3 DEF Covers
    <2>5. RastersSound'
      <3>1. CASE /\ Current.area = NoArea
                 /\ cached' = cached \union {"clipped_raster", "watershed_raster"}
                 /\ raster' = [raster EXCEPT !["clipped_raster"] = clip, !["watershed_raster"] = clip]
        <4>1. /\ raster'["dem_raster"] = raster["dem_raster"]
              /\ raster'["clipped_raster"] = clip
              /\ raster'["watershed_raster"] = clip
          BY <1>0, <3>1 DEF TypeOK, Keys
        <4>2. \A i \in 1 .. Len(bundle) : FlowExtent(bundle[i]) = FieldExtent[bundle[i].field]
          BY <2>1, <3>1, SameGround DEF FlowExtent, Current
        <4>3. ASSUME NEW i \in 1 .. Len(bundle), NEW k \in cached'
              PROVE  /\ raster'[k] \subseteq FetchExtent(bundle[i])
                     /\ Covers(raster'[k], KeyWant(k, bundle[i]))
          <5>1. CASE k = "dem_raster"
            BY <2>1, <4>1, <5>1 DEF RastersSound
          <5>2. CASE k = "clipped_raster" \/ k = "watershed_raster"
            <6>1. KeyWant(k, bundle[i]) = FieldExtent[bundle[i].field]
              BY <4>2, <5>2 DEF KeyWant
            <6>2. raster'[k] = clip
              BY <4>1, <5>2
            <6> QED
              BY <2>4, <6>1, <6>2
          <5> QED
            BY <2>1, <3>1, <5>1, <5>2
        <4> QED
          BY <2>2, <4>3 DEF RastersSound, Covers
      <3>2. CASE /\ cached' = cached \union {"clipped_raster"}
                 /\ raster' = [raster EXCEPT !["clipped_raster"] = clip]
        <4>1. raster'["dem_raster"] = raster["dem_raster"] /\ raster'["clipped_raster"] = clip
          BY <1>0, <3>2 DEF TypeOK, Keys
        <4> QED
          BY <2>1, <2>2, <2>4, <3>2, <4>1 DEF RastersSound, Covers, KeyWant
      <3>3. CASE UNCHANGED <<cached, raster>>
        BY <2>2, <3>3 DEF RastersSound, Covers
      <3> QED
        BY <1>6, <3>1, <3>2, <3>3 DEF ClipField
    <2> QED
      BY <2>3, <2>5
  <1>7. CASE ClipArea
    <2>1. /\ Len(outcome) + 1 \in 1 .. Len(bundle) /\ pc = "area"
          /\ cached = {"dem_raster", "clipped_raster"}
      BY <1>0, <1>7, CurrentAt DEF ClipArea, Placed, Stage, Building
    <2>2. UNCHANGED <<bundle, shp, tiles, todo, lost, posted>> /\ pc' # "tiles"
      BY <1>7 DEF ClipArea, EndJob
    <2>3. ShpSound' /\ TilesSound' /\ FetchSound' /\ PostedSound'
      BY <2>2 DEF ShpSound, TilesSound, FetchSound, PostedSound, Covers
    <2> DEFINE clip == raster["dem_raster"] \intersect AreaExtent[Current.area]
    <2>4. RastersSound'
      <3>1. CASE /\ cached' = cached \union {"watershed_raster"}
                 /\ raster' = [raster EXCEPT !["watershed_raster"] = clip]
        <4>1. /\ raster'["dem_raster"] = raster["dem_raster"]
              /\ raster'["clipped_raster"] = raster["clipped_raster"]
              /\ raster'["watershed_raster"] = clip
          BY <1>0, <3>1 DEF TypeOK, Keys
        <4>2. ASSUME NEW i \in 1 .. Len(bundle)
              PROVE  clip \subseteq FetchExtent(bundle[i]) /\ Covers(clip, FlowExtent(bundle[i]))
          <5>1. AreaExtent[Current.area] = FlowExtent(bundle[i])
            <6>1. FlowExtent(Current) = FlowExtent(bundle[i])
              BY <2>1, SameGround DEF Current
            <6>2. FlowExtent(Current) = AreaExtent[Current.area]
              BY <1>0, <2>1 DEF Stage, FlowExtent
            <6> QED
              BY <6>1, <6>2
          <5>2. FlowExtent(bundle[i]) \subseteq FetchExtent(bundle[i])
            BY DEF FetchExtent
          <5>3. /\ raster["dem_raster"] \subseteq FetchExtent(bundle[i])
                /\ Covers(raster["dem_raster"], FetchExtent(bundle[i]))
            BY <2>1 DEF RastersSound, KeyWant
          <5> QED
            BY <5>1, <5>2, <5>3 DEF Covers
        <4> QED
          BY <2>1, <2>2, <3>1, <4>1, <4>2 DEF RastersSound, Covers, KeyWant
      <3>2. CASE UNCHANGED <<cached, raster>>
        BY <2>2, <3>2 DEF RastersSound, Covers
      <3> QED
        BY <1>7, <3>1, <3>2 DEF ClipArea
    <2> QED
      BY <2>3, <2>4
  <1>8. CASE MakeMaps
    <2>1. UNCHANGED <<bundle, shp, tiles, todo, lost, posted>> /\ pc' # "tiles"
      BY <1>8 DEF MakeMaps, EndJob
    <2>2. ShpSound' /\ TilesSound' /\ FetchSound' /\ PostedSound'
      BY <2>1 DEF ShpSound, TilesSound, FetchSound, PostedSound, Covers
    <2>3. RastersSound'
      <3>1. CASE /\ cached' = cached \union {"watershed"}
                 /\ raster' = [raster EXCEPT !["watershed"] = raster["watershed_raster"]]
        <4>1. "watershed_raster" \in cached
          BY <1>8 DEF MakeMaps
        <4>2. \A k \in cached' :
                 raster'[k] = raster[IF k = "watershed" THEN "watershed_raster" ELSE k]
          BY <1>0, <3>1 DEF TypeOK, Keys
        <4>3. \A i \in 1 .. Len(bundle) :
                 KeyWant("watershed", bundle[i]) = KeyWant("watershed_raster", bundle[i])
          BY DEF KeyWant
        <4> QED
          BY <2>1, <3>1, <4>1, <4>2, <4>3 DEF RastersSound, Covers
      <3>2. CASE UNCHANGED <<cached, raster>>
        BY <2>1, <3>2 DEF RastersSound, Covers
      <3> QED
        BY <1>8, <3>1, <3>2 DEF MakeMaps
    <2> QED
      BY <2>2, <2>3
  <1>9. CASE MissKey
    BY <1>9, FrameSound DEF MissKey, EndJob, ShpSound, FetchSound
  <1>10. CASE Post
    <2>1. Len(outcome) + 1 \in 1 .. Len(bundle) /\ Current.fn \in Readers
      BY <1>0, <1>10, CurrentAt DEF Post, Placed, Building
    <2>2. UNCHANGED <<bundle, cached, raster, shp, tiles, todo, lost>> /\ pc' # "tiles"
      BY <1>10 DEF Post, EndJob
    <2>3. ShpSound' /\ TilesSound' /\ FetchSound' /\ RastersSound'
      BY <2>2 DEF ShpSound, TilesSound, FetchSound, RastersSound, Covers
    <2>4. PostedSound'
      <3>1. CASE UNCHANGED posted
        BY <2>2, <3>1 DEF PostedSound, Covers
      <3>2. CASE /\ shp # NoField
                 /\ posted' = posted \union
                      {[job |-> Len(outcome) + 1, cut |-> shp, cells |-> raster[KeyOf[Current.fn]]]}
        <4> DEFINE j == Len(outcome) + 1
                   k == KeyOf[Current.fn]
        <4>1. shp = bundle[j].field
          BY <2>1, <3>2 DEF ShpSound
        <4>2. raster[k] \subseteq FetchExtent(bundle[j]) /\ Covers(raster[k], KeyWant(k, bundle[j]))
          BY <1>10, <2>1 DEF Post, RastersSound
        <4>3. Wanted(bundle[j]) \subseteq KeyWant(k, bundle[j])
          BY <2>1 DEF Wanted, KeyWant, KeyOf, Readers, Current, FetchExtent
        <4>4. Covers(raster[k], Wanted(bundle[j]))
          BY <4>2, <4>3 DEF Covers
        <4> QED
          BY <2>1, <2>2, <3>2, <4>1, <4>2, <4>4 DEF PostedSound, Covers
      <3> QED
        BY <1>10, <3>1, <3>2 DEF Post
    <2> QED
      BY <2>3, <2>4
  <1>11. CASE Grid
    <2>1. Len(outcome) + 1 \in 1 .. Len(bundle)
      BY <1>0, <1>11, CurrentAt DEF Grid, AtJob
    <2>2. ShpSound'
      BY <1>11, <2>1, SameGround DEF Grid, Rewrite, ShpSound, Current
    <2> QED
      BY <1>11, <2>2, FrameSound DEF Grid, EndJob, FetchSound
  <1>12. CASE Finish
    <2>1. UNCHANGED <<bundle, cached, raster, lost, posted>> /\ pc' = "idle" /\ shp' = NoField
          /\ tiles' = NoTiles
      BY <1>12 DEF Finish
    <2> QED
      BY <2>1 DEF ShpSound, TilesSound, FetchSound, RastersSound, PostedSound, Covers, NoTiles
  <1>13. CASE Die
    BY <1>13, FrameSound DEF Die, ShpSound, FetchSound
  <1>14. CASE UNCHANGED vars
    BY <1>14, FrameSound DEF vars, ShpSound, FetchSound, Current
  <1> QED
    BY <1>2, <1>3, <1>4, <1>5, <1>6, <1>7, <1>8, <1>9, <1>10, <1>11, <1>12, <1>13, <1>14 DEF Next

LEMMA SpecInvariant == Spec => []IInv
  <1>1. Init => IInv
    BY InitTyping, InitSound DEF IInv
  <1>2. IInv /\ [Next]_vars => IInv'
    BY NextTyping, NextSound DEF IInv
  <1> QED
    BY <1>1, <1>2, PTL DEF Spec

(* An artifact is cut with its own job's field and made of its own ground. *)
THEOREM GroundCorrect == Spec => []OwnGround
  <1>1. IInv => OwnGround
    BY DEF IInv, OwnGround, Sound, PostedSound
  <1> QED
    BY <1>1, SpecInvariant, PTL

(* An artifact lacks only ground whose tile this invocation lost.          *)
THEOREM HolesCorrect == Spec => []LacksOnlyLost
  <1>1. IInv => LacksOnlyLost
    BY DEF IInv, LacksOnlyLost, Sound, PostedSound, Covers
  <1> QED
    BY <1>1, SpecInvariant, PTL

=============================================================================
