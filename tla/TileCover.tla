----------------------------- MODULE TileCover -----------------------------
(***************************************************************************)
(* Which 1-degree DEM tiles a request needs: the worker's way from field   *)
(* and analysis area to get_dem_raster_set (app/geoworker.py), and         *)
(* tiles_for_bbox with its limit in render_elevation                       *)
(* (app/sync_elevation.py). One behaviour is one request on one path.      *)
(*                                                                         *)
(* Coordinates are integers, Deg to the degree; longitudes are negative    *)
(* west of Greenwich, where all USGS tiles lie. A tile is <<lat, lng>>,    *)
(* its north-west corner with the sign of the longitude dropped.           *)
(***************************************************************************)
EXTENDS Integers, Sequences, FiniteSets

CONSTANTS
    Deg,          \* coordinate units in a degree
    FieldBuffer,  \* _FALLBACK_BUFFER_DEG
    SyncBuffer,   \* _BUFFER_DEG
    MaxTiles,     \* MAX_TILES
    Boxes,        \* envelopes of the polygons a request may bring
    Boundaries,   \* field boundaries: the envelopes of their features
    Areas,        \* watershed_boundary: its features, some without geometry
    NoBox         \* no geometry, or no extent yet

Box == [w : Int, s : Int, e : Int, n : Int]

(* Every box lies on the ground the tiles cover: north of 9 degrees, west  *)
(* of 9 degrees west, with room for the buffers.                           *)
ASSUME GroundAssumption ==
    /\ Deg \in Nat \ {0} /\ FieldBuffer \in Nat /\ SyncBuffer \in Nat /\ MaxTiles \in Nat
    /\ Boxes \subseteq Box /\ NoBox \notin Box
    /\ \A b \in Boxes :
          /\ b.w <= b.e /\ b.s <= b.n
          /\ \A pad \in {FieldBuffer, SyncBuffer} :
                /\ 9 * Deg < b.s - pad /\ b.n + pad <= 99 * Deg
                /\ 9 * Deg < -(b.e + pad) /\ -(b.w - pad) <= 999 * Deg

ASSUME RequestsAssumption ==
    Boundaries \subseteq Seq(Boxes) /\ Areas \subseteq Seq(Boxes \union {NoBox})

VARIABLES
    path,      \* "worker" or "sync"
    boundary,  \* the field_boundary of the request
    area,      \* its watershed_boundary, <<>> if there is none
    pc,        \* where the code is
    seen,      \* the features looked at so far
    span,      \* the union of their envelopes, NoBox if there is none
    box,       \* the extent the tiles are wanted for
    tile,      \* the next tile of the nested loops
    asked      \* the tiles asked for, in order

vars == <<path, boundary, area, pc, seen, span, box, tile, asked>>

Points == {"field", "features", "tiles", "done", "refused", "failed"}

(* _buffer_extent. *)
Buffer(b, pad) == [w |-> b.w - pad, s |-> b.s - pad, e |-> b.e + pad, n |-> b.n + pad]

Lesser(a, b) == IF a <= b THEN a ELSE b
Greater(a, b) == IF a <= b THEN b ELSE a

(* _union_extent, also the min and max of the feature loops. *)
UnionExtent(a, b) ==
    [w |-> Lesser(a.w, b.w), s |-> Lesser(a.s, b.s),
     e |-> Greater(a.e, b.e), n |-> Greater(a.n, b.n)]

(* math.ceil of a coordinate, in degrees. *)
Ceil(x) == (x + Deg - 1) \div Deg

(* _round_higher: the sign is dropped. *)
RoundHigher(x) == Ceil(IF x < 0 THEN -x ELSE x)

(* Mutant: range() without the + 1. *)
SpanOrOneShort(lo, hi) == IF hi - lo > 0 THEN lo .. hi - 1 ELSE {hi}

(* range(lo, hi + 1) if hi - lo > 0 else [hi]. *)
SpanOrOne(lo, hi) == IF hi - lo > 0 THEN lo .. hi ELSE {hi}

(* The ranges of the nested loops: latitudes, longitudes. *)
WorkerLats(b) == SpanOrOne(RoundHigher(b.s), RoundHigher(b.n))
WorkerLngs(b) == SpanOrOne(RoundHigher(b.e), RoundHigher(b.w))
SyncLats(b) == Ceil(b.s) .. Ceil(b.n)

(* Mutant: the sign of the longitude is dropped after rounding, not before. *)
SyncLngsLate(b) == -Ceil(b.e) .. -Ceil(b.w)

SyncLngs(b) == Ceil(-b.e) .. Ceil(-b.w)

Lats(b) == IF path = "worker" THEN WorkerLats(b) ELSE SyncLats(b)
Lngs(b) == IF path = "worker" THEN WorkerLngs(b) ELSE SyncLngs(b)

First(S) == CHOOSE x \in S : \A y \in S : x <= y
Last(S) == CHOOSE x \in S : \A y \in S : y <= x

(* The features the path takes the union of. *)
Features == IF path = "worker" THEN area ELSE boundary

Init ==
    /\ path \in {"worker", "sync"}
    /\ boundary \in Boundaries
    /\ area \in IF path = "worker" THEN Areas ELSE {<<>>}
    /\ pc = IF path = "worker" THEN "field" ELSE "features"
    /\ seen = 0
    /\ span = NoBox
    /\ box = NoBox
    /\ tile = <<0, 0>>
    /\ asked = <<>>

-----------------------------------------------------------------------------
(* get_field_extent: the first feature of the boundary is the field; with  *)
(* no feature at all it raises.                                            *)
Field ==
    /\ pc = "field"
    /\ pc' = IF boundary = <<>> THEN "failed" ELSE "features"
    /\ UNCHANGED <<path, boundary, area, seen, span, box, tile, asked>>

(* Mutant: the feature after one without geometry is skipped with it. *)
FeatureSkips ==
    /\ pc = "features"
    /\ seen < Len(Features)
    /\ LET f == Features[seen + 1]
       IN  /\ seen' = IF f = NoBox THEN seen + 2 ELSE seen + 1
           /\ \/ f = NoBox /\ UNCHANGED span
              \/ f # NoBox /\ span = NoBox /\ span' = f
              \/ f # NoBox /\ span # NoBox /\ span' = UnionExtent(span, f)
    /\ UNCHANGED <<path, boundary, area, pc, box, tile, asked>>

(* One feature of _watershed_extent's loop, or of bbox_of_geojson's: a     *)
(* feature without a usable geometry is skipped.                           *)
Feature ==
    /\ pc = "features"
    /\ seen < Len(Features)
    /\ seen' = seen + 1
    /\ LET f == Features[seen + 1]
       IN  \/ f = NoBox /\ UNCHANGED span
           \/ f # NoBox /\ span = NoBox /\ span' = f
           \/ f # NoBox /\ span # NoBox /\ span' = UnionExtent(span, f)
    /\ UNCHANGED <<path, boundary, area, pc, box, tile, asked>>

(* The loops over the tiles begin. *)
Loop(b) ==
    /\ box' = b
    /\ tile' = <<First(Lats(b)), First(Lngs(b))>>
    /\ pc' = "tiles"
    /\ UNCHANGED <<path, boundary, area, seen, span, asked>>

(* build_common_cache: the merged DEM is fetched for the buffered field    *)
(* and the analysis area together.                                         *)
WorkerExtent ==
    /\ path = "worker" /\ pc = "features" /\ seen = Len(Features)
    /\ LET field == Buffer(boundary[1], FieldBuffer)
       IN  Loop(UnionExtent(field, IF span = NoBox THEN field ELSE span))

(* render_elevation pads the boundary's bbox. *)
SyncExtent ==
    /\ path = "sync" /\ pc = "features" /\ seen = Len(Features) /\ span # NoBox
    /\ Loop(Buffer(span, SyncBuffer))

(* Mutant: only looked for after a feature was read. *)
NoCoordinatesLate ==
    /\ path = "sync" /\ pc = "features" /\ seen = Len(Features) /\ span = NoBox
    /\ seen > 0
    /\ pc' = "refused"
    /\ UNCHANGED <<path, boundary, area, seen, span, box, tile, asked>>

(* "boundary contained no coordinates". *)
NoCoordinates ==
    /\ path = "sync" /\ pc = "features" /\ seen = Len(Features) /\ span = NoBox
    /\ pc' = "refused"
    /\ UNCHANGED <<path, boundary, area, seen, span, box, tile, asked>>

(* One turn of the inner loop. *)
NextTile ==
    /\ pc = "tiles"
    /\ tile[1] \in Lats(box)
    /\ asked' = Append(asked, tile)
    /\ tile' = IF tile[2] < Last(Lngs(box)) THEN <<tile[1], tile[2] + 1>>
                                            ELSE <<tile[1] + 1, First(Lngs(box))>>
    /\ UNCHANGED <<path, boundary, area, pc, seen, span, box>>

(* Mutant: a boundary at the limit is refused too. *)
FinishTight ==
    /\ pc = "tiles"
    /\ tile[1] \notin Lats(box)
    /\ pc' = IF path = "sync" /\ Len(asked) >= MaxTiles THEN "refused" ELSE "done"
    /\ UNCHANGED <<path, boundary, area, seen, span, box, tile, asked>>

(* Mutant: the analysis area's tiles are asked for in loops of their own. *)
FinishAgain ==
    /\ pc = "tiles"
    /\ tile[1] \notin Lats(box)
    /\ IF path = "worker" /\ span \notin {NoBox, box}
         THEN Loop(span)
         ELSE pc' = "done" /\ UNCHANGED <<path, boundary, area, seen, span, box, tile, asked>>

(* The loops are over; the sync path refuses what is too large for it.     *)
Finish ==
    /\ pc = "tiles"
    /\ tile[1] \notin Lats(box)
    /\ pc' = IF path = "sync" /\ Len(asked) > MaxTiles THEN "refused" ELSE "done"
    /\ UNCHANGED <<path, boundary, area, seen, span, box, tile, asked>>

Next ==
    \/ Field
    \/ Feature
    \/ WorkerExtent
    \/ SyncExtent
    \/ NoCoordinates
    \/ NextTile
    \/ Finish

Spec == Init /\ [][Next]_vars /\ WF_vars(Next)

-----------------------------------------------------------------------------
(* File names: the number and the digits each part is written with.        *)

Digits(n) == IF n < 10 THEN 1 ELSE IF n < 100 THEN 2 ELSE 3

(* Mutant: the longitude is written as it is. *)
WorkerNameBare(t) == <<t[1], Digits(t[1]), t[2], Digits(t[2])>>

(* n{lat}w{("0" + str(lng))[-3:]}: one zero is put before the longitude,   *)
(* and the last three characters are kept.                                 *)
WorkerName(t) == <<t[1], Digits(t[1]), t[2] % 1000, Lesser(3, Digits(t[2]) + 1)>>

(* n{lat:02d}w{lng:03d}. *)
SyncName(t) == <<t[1], Greater(2, Digits(t[1])), t[2], Greater(3, Digits(t[2]))>>

-----------------------------------------------------------------------------
(* Properties. *)

(* Every variable keeps to the values the code gives it. *)
TypeOK ==
    /\ path \in {"worker", "sync"}
    /\ boundary \in Seq(Boxes)
    /\ area \in Seq(Boxes \union {NoBox})
    /\ pc \in Points
    /\ seen \in 0 .. Len(Features)
    /\ span \in Box \union {NoBox}
    /\ box \in Box \union {NoBox}
    /\ tile \in Int \X Int
    /\ asked \in Seq(Int \X Int)

(* What will be cut out of the tiles: the worker's two clips, the sync     *)
(* path's padded features.                                                 *)
Windows ==
    IF path = "worker"
      THEN ({Buffer(boundary[1], FieldBuffer)} \union {area[i] : i \in 1 .. Len(area)}) \ {NoBox}
      ELSE {Buffer(boundary[i], SyncBuffer) : i \in 1 .. Len(boundary)}

(* Where a tile lies: tile (41, 88) covers 40-41 N, 88-87 W.               *)
Covers(t, x, y) ==
    /\ (t[1] - 1) * Deg <= y /\ y <= t[1] * Deg
    /\ -t[2] * Deg <= x /\ x <= (1 - t[2]) * Deg

(* No hole at a degree line: every point of every window that will be cut  *)
(* out lies in a tile that was asked for, be the window in one tile, across *)
(* several, ending on a line, or only carried over one by its buffer.      *)
EveryPointCovered ==
    pc = "done" =>
        \A b \in Windows : \A x \in b.w .. b.e, y \in b.s .. b.n :
            \E i \in 1 .. Len(asked) : Covers(asked[i], x, y)

(* A tile owns its northern and western edge. It is needed if it owns a    *)
(* point of the smallest box around the windows.                           *)
Needed(t) ==
    /\ \E b \in Windows : (t[1] - 1) * Deg < b.n
    /\ \E b \in Windows : b.s <= t[1] * Deg
    /\ \E b \in Windows : b.w < (1 - t[2]) * Deg
    /\ \E b \in Windows : -t[2] * Deg <= b.e

(* No tile is fetched for nothing: the worker waits for each one and the   *)
(* sync path counts them against its limit.                                *)
NoIdleTile == \A i \in 1 .. Len(asked) : Needed(asked[i])

(* No tile is fetched, or counted, twice. *)
NoTileTwice == \A i, j \in 1 .. Len(asked) : asked[i] = asked[j] => i = j

(* The rows and columns of tiles that own a point of the extent. *)
Rows(b) == {k \in 0 .. 99 : (k - 1) * Deg < b.n /\ b.s <= k * Deg}
Columns(b) == {k \in 0 .. 999 : b.w < (1 - k) * Deg /\ -k * Deg <= b.e}

(* A synchronous render is refused exactly if its extent, buffer included, *)
(* lies in more than MaxTiles tiles, or there is nothing to render.        *)
LimitIsExact ==
    path = "sync" =>
        LET count == Cardinality(Rows(box)) * Cardinality(Columns(box))
        IN  /\ pc = "refused" => boundary = <<>> \/ count > MaxTiles
            /\ pc = "done" => count <= MaxTiles

(* The two paths have their own arithmetic and their own file names: on    *)
(* the same extent they read the same files.                               *)
SameFiles ==
    pc = "done" =>
        {WorkerName(t) : t \in WorkerLats(box) \X WorkerLngs(box)}
            = {SyncName(t) : t \in SyncLats(box) \X SyncLngs(box)}

(* Every request is decided. *)
Decided == <>(pc \in {"done", "refused", "failed"})

=============================================================================
