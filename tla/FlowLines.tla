----------------------------- MODULE FlowLines -----------------------------
(***************************************************************************)
(* get_mfd_flowlines_raw (app/grass_handler.py) once GRASS has routed the  *)
(* flow: one representative hillslope per half-basin, widest first, and    *)
(* the network of draws. One behaviour is one call; each turn of a loop is *)
(* a step.                                                                 *)
(***************************************************************************)
EXTENDS D8

CONSTANTS
    Terrains,    \* the terrains a call may be about
    Options,     \* the options of the jobs
    MaxSteps,    \* max_steps = 4 * (rows + cols)
    RidgeCap,    \* 3000: candidate walks on a large unit
    Corridor,    \* 3: draws within so many cells of a kept draw are it
    Never        \* 10 ** 9: no accumulation reaches it

(* max_lines, channel_threshold, draw_threshold, max_draws; the other two  *)
(* options are lengths, here the score a hillslope must reach and the new  *)
(* cells a draw must add.                                                  *)
Option == [maxLines : Int, channel : Int, minScore : Int,
           draw : Int, maxDraws : Int, minUnique : Int]

ASSUME TerrainsAssumption ==
    /\ Terrains \subseteq Terrain /\ Options \subseteq Option
    /\ MaxSteps \in Nat \ {0} /\ RidgeCap \in Nat \ {0} /\ Corridor \in Nat /\ Never \in Int
    /\ \A t \in Terrains : \A c \in Cells : Magnitude(t.acc[c]) < Never

VARIABLES
    terrain,  \* the arrays
    opts,     \* the options
    pc,       \* which loop the call is in
    todo,     \* half-basins not yet considered
    unit,     \* the half-basin under consideration
    starts,   \* cells still to walk from: its ridge cells, or channel heads
    path,     \* the walk under way, <<>> between two
    best,     \* the best walk of the unit so far, <<>> if there is none
    lines,    \* the hillslope records: half-basin and path
    traced,   \* traces of the channel heads not yet judged
    draws     \* the draws kept

vars == <<terrain, opts, pc, todo, unit, starts, path, best, lines, traced, draws>>

Phases == {"rank", "unit", "walk", "heads", "trace", "keep", "done"}

Init ==
    /\ terrain \in Terrains
    /\ opts \in Options
    /\ pc = "rank"
    /\ todo = {}
    /\ unit = 0
    /\ starts = {}
    /\ path = <<>>
    /\ best = <<>>
    /\ lines = <<>>
    /\ traced = {}
    /\ draws = <<>>

-----------------------------------------------------------------------------
(* The walk. *)

Last(p) == p[Len(p)]
Flow(c) == Magnitude(terrain.acc[c])

(* Mutant: without the loop guard. *)
OnwardUnguarded(p) == {d \in Cells : Drains(terrain, Last(p), d)}

(* Mutant: without the test of the map's edge. *)
OnwardOffMap(p) == {d \in ((-1 .. Rows) \X (-1 .. Cols)) \ CellsOf(p) : Points(terrain, Last(p), d)}

(* Where a walk may go on: not off the map, nor to a visited cell. *)
Onward(p) == {d \in Cells \ CellsOf(p) : Drains(terrain, Last(p), d)}

(* _trace_d8_path goes no further: it has made max_steps turns, is in a    *)
(* channel, or has no cell to go to.                                       *)
Stops(p, threshold) ==
    \/ Len(p) > MaxSteps
    \/ Len(p) > 1 /\ Flow(Last(p)) >= threshold
    \/ Onward(p) = {}

(* The threshold of the walk under way: traces of draws never stop at one. *)
Threshold == IF pc = "walk" THEN opts.channel ELSE Never

(* The next cell to walk from, in row-major order. *)
Start ==
    /\ pc \in {"walk", "trace"}
    /\ path = <<>>
    /\ \E c \in starts :
          /\ \A d \in starts : ~Earlier(d, c)
          /\ path' = <<c>>
          /\ starts' = starts \ {c}
    /\ UNCHANGED <<terrain, opts, pc, todo, unit, best, lines, traced, draws>>

(* One turn of the walk. *)
Step ==
    /\ pc \in {"walk", "trace"}
    /\ path # <<>>
    /\ ~Stops(path, Threshold)
    /\ \E d \in Onward(path) : path' = Append(path, d)
    /\ UNCHANGED <<terrain, opts, pc, todo, unit, starts, best, lines, traced, draws>>

-----------------------------------------------------------------------------
(* Hillslopes. *)

(* The cells that count for a unit: those of the field, if it is known. *)
InField(c) == terrain.field = NoMask \/ c \in terrain.field

Area(u) == Cardinality({c \in Cells : terrain.unit[c] = u /\ InField(c)})

(* A path is worth its cells in the field, or its length if the field is   *)
(* not known.                                                              *)
Score(p) ==
    IF terrain.field = NoMask
      THEN PathLength(p)
      ELSE Straight * Cardinality({i \in 1 .. Len(p) : p[i] \in terrain.field})

(* Mutant: divides the cap by the cells. *)
SampledThin(ridge) ==
    LET n == Cardinality(ridge)
        k == IF n > RidgeCap THEN n ELSE 1
    IN  {c \in ridge : Cardinality({d \in ridge : Earlier(d, c)}) % k = 0}

(* ridge_cells[:: n // 3000] once there are more than 3000. *)
Sampled(ridge) ==
    LET n == Cardinality(ridge)
        k == IF n > RidgeCap THEN n \div RidgeCap ELSE 1
    IN  {c \in ridge : Cardinality({d \in ridge : Earlier(d, c)}) % k = 0}

Ridge(u) == {c \in Divides(terrain) : terrain.unit[c] = u}

(* The half-basins the field has cells of; with none the call is over,     *)
(* draws included.                                                         *)
Rank ==
    /\ pc = "rank"
    /\ todo' = {terrain.unit[c] : c \in {d \in Cells : terrain.unit[d] >= 1 /\ InField(d)}}
    /\ pc' = IF todo' = {} THEN "done" ELSE "unit"
    /\ UNCHANGED <<terrain, opts, unit, starts, path, best, lines, traced, draws>>

(* Mutant: the units are taken in any order, the widest or not. *)
PickUnitAny ==
    /\ pc = "unit"
    /\ Len(lines) < opts.maxLines
    /\ \E u \in todo :
          /\ unit' = u
          /\ todo' = todo \ {u}
          /\ starts' = Sampled(Ridge(u))
          /\ pc' = IF Ridge(u) = {} THEN "unit" ELSE "walk"
    /\ UNCHANGED <<terrain, opts, path, best, lines, traced, draws>>

(* The next half-basin, by area; argsort leaves ties to chance. One        *)
(* without a divide is passed over.                                        *)
PickUnit ==
    /\ pc = "unit"
    /\ Len(lines) < opts.maxLines
    /\ \E u \in todo :
          /\ \A v \in todo : Area(v) <= Area(u)
          /\ unit' = u
          /\ todo' = todo \ {u}
          /\ starts' = Sampled(Ridge(u))
          /\ pc' = IF Ridge(u) = {} THEN "unit" ELSE "walk"
    /\ UNCHANGED <<terrain, opts, path, best, lines, traced, draws>>

(* A walk has ended: a single cell is no path, and only a better path      *)
(* replaces the best.                                                      *)
ScoreWalk ==
    /\ pc = "walk"
    /\ path # <<>>
    /\ Stops(path, Threshold)
    /\ best' = IF Len(path) >= 2 /\ (best = <<>> \/ Score(path) > Score(best)) THEN path ELSE best
    /\ path' = <<>>
    /\ UNCHANGED <<terrain, opts, pc, todo, unit, starts, lines, traced, draws>>

(* Mutant: best_path is not reset for the next unit. *)
JudgeCarried ==
    /\ pc = "walk"
    /\ path = <<>>
    /\ starts = {}
    /\ lines' = IF best # <<>> /\ Score(best) >= opts.minScore
                  THEN Append(lines, [unit |-> unit, path |-> best])
                  ELSE lines
    /\ pc' = "unit"
    /\ UNCHANGED <<terrain, opts, todo, unit, starts, path, best, traced, draws>>

(* The unit's representative is kept if it is long enough. *)
Judge ==
    /\ pc = "walk"
    /\ path = <<>>
    /\ starts = {}
    /\ lines' = IF best # <<>> /\ Score(best) >= opts.minScore
                  THEN Append(lines, [unit |-> unit, path |-> best])
                  ELSE lines
    /\ best' = <<>>
    /\ pc' = "unit"
    /\ UNCHANGED <<terrain, opts, todo, unit, starts, path, traced, draws>>

(* Mutant: looks for max_lines records, however few half-basins there are. *)
EndUnitsFull ==
    /\ pc = "unit"
    /\ Len(lines) >= opts.maxLines
    /\ pc' = "heads"
    /\ UNCHANGED <<terrain, opts, todo, unit, starts, path, best, lines, traced, draws>>

EndUnits ==
    /\ pc = "unit"
    /\ Len(lines) >= opts.maxLines \/ todo = {}
    /\ pc' = "heads"
    /\ UNCHANGED <<terrain, opts, todo, unit, starts, path, best, lines, traced, draws>>

-----------------------------------------------------------------------------
(* Draws. *)

ChannelMask == {c \in Cells : Flow(c) >= opts.draw}

Heads ==
    /\ pc = "heads"
    /\ starts' = ChannelHeads(terrain, ChannelMask)
    /\ pc' = "trace"
    /\ UNCHANGED <<terrain, opts, todo, unit, path, best, lines, traced, draws>>

EndTrace ==
    /\ pc = "trace"
    /\ path # <<>>
    /\ Stops(path, Threshold)
    /\ traced' = IF Len(path) >= 2 THEN traced \union {path} ELSE traced
    /\ path' = <<>>
    /\ UNCHANGED <<terrain, opts, pc, todo, unit, starts, best, lines, draws>>

EndHeads ==
    /\ pc = "trace"
    /\ path = <<>>
    /\ starts = {}
    /\ pc' = IF traced = {} THEN "done" ELSE "keep"
    /\ UNCHANGED <<terrain, opts, todo, unit, starts, path, best, lines, traced, draws>>

(* The cells in the corridors of some draws. *)
Covered(ds) ==
    {c \in Cells : \E i \in 1 .. Len(ds) : \E j \in 1 .. Len(ds[i]) : Near(c, ds[i][j], Corridor)}

(* min_unique: at least two cells, whatever the option. *)
MinUnique == IF opts.minUnique < 2 THEN 2 ELSE opts.minUnique

(* The cells a path adds to those already covered. *)
New(p, ds) == Cardinality({i \in 1 .. Len(p) : p[i] \notin Covered(ds)})

(* The order of traced.sort: the longest, then the first head. *)
Leads(p, q) == Len(p) > Len(q) \/ (Len(p) = Len(q) /\ ~Earlier(q[1], p[1]))

(* Mutant: only the path itself is covered, without its corridor. *)
KeepBeside ==
    /\ pc = "keep"
    /\ \E p \in traced :
          /\ \A q \in traced : Leads(p, q)
          /\ LET own == UNION {CellsOf(draws[i]) : i \in 1 .. Len(draws)}
                 kept == IF Cardinality(CellsOf(p) \ own) >= MinUnique
                           THEN Append(draws, p) ELSE draws
             IN  /\ draws' = kept
                 /\ traced' = traced \ {p}
                 /\ pc' = IF Len(kept) >= opts.maxDraws \/ traced' = {} THEN "done" ELSE "keep"
    /\ UNCHANGED <<terrain, opts, todo, unit, starts, path, best, lines>>

(* Mutant: ends at the first trace that adds too little. *)
KeepRun ==
    /\ pc = "keep"
    /\ \E p \in traced :
          /\ \A q \in traced : Leads(p, q)
          /\ draws' = IF New(p, draws) >= MinUnique THEN Append(draws, p) ELSE draws
          /\ traced' = traced \ {p}
          /\ pc' = IF Len(draws') >= opts.maxDraws \/ draws' = draws \/ traced' = {}
                     THEN "done" ELSE "keep"
    /\ UNCHANGED <<terrain, opts, todo, unit, starts, path, best, lines>>

(* The next trace is kept if it adds enough new channel; the cap is looked *)
(* at after each.                                                          *)
Keep ==
    /\ pc = "keep"
    /\ \E p \in traced :
          /\ \A q \in traced : Leads(p, q)
          /\ draws' = IF New(p, draws) >= MinUnique THEN Append(draws, p) ELSE draws
          /\ traced' = traced \ {p}
          /\ pc' = IF Len(draws') >= opts.maxDraws \/ traced' = {} THEN "done" ELSE "keep"
    /\ UNCHANGED <<terrain, opts, todo, unit, starts, path, best, lines>>

Next ==
    \/ Rank
    \/ PickUnit
    \/ Start
    \/ Step
    \/ ScoreWalk
    \/ Judge
    \/ EndUnits
    \/ Heads
    \/ EndTrace
    \/ EndHeads
    \/ Keep

Spec == Init /\ [][Next]_vars /\ WF_vars(Next)

-----------------------------------------------------------------------------
(* Properties. *)

(* Every variable keeps to the values the code gives it. *)
TypeOK ==
    /\ terrain \in Terrain /\ opts \in Option
    /\ pc \in Phases
    /\ todo \subseteq Nat /\ unit \in Nat
    /\ starts \subseteq Cells
    /\ path \in Seq(Cells) /\ best \in Seq(Cells)
    /\ lines \in Seq([unit : Nat, path : Seq(Cells)])
    /\ traced \subseteq Seq(Cells)
    /\ draws \in Seq(Seq(Cells))

(* A path runs downhill: each cell drains into the next, none is visited   *)
(* twice, and it is within the bound on steps.                             *)
RunsDown(p) ==
    /\ \A i \in 1 .. Len(p) - 1 : Drains(terrain, p[i], p[i + 1])
    /\ \A i, j \in 1 .. Len(p) : p[i] = p[j] => i = j
    /\ Len(p) <= MaxSteps + 1

(* "from a drainage divide DOWN to where flow concentrates": a hillslope   *)
(* starts on a divide of its own half-basin, runs downhill without ever    *)
(* crossing concentrated flow, and ends for a reason of the terrain, not   *)
(* in the middle of a slope, unless it has exhausted max_steps. Loops in   *)
(* the directions, pits and the edge of the map included.                  *)
HillslopesSound ==
    \A i \in 1 .. Len(lines) :
        LET p == lines[i].path
        IN  /\ RunsDown(p) /\ Len(p) >= 2
            /\ p[1] \in Divides(terrain) /\ terrain.unit[p[1]] = lines[i].unit
            /\ \A k \in 2 .. Len(p) - 1 : Flow(p[k]) < opts.channel
            /\ \/ Flow(Last(p)) >= opts.channel
               \/ \A d \in Cells : Drains(terrain, Last(p), d) => d \in CellsOf(p)
               \/ Len(p) = MaxSteps + 1

(* A draw, and every trace it is chosen from, is one continuous line from  *)
(* a channel head to where the water leaves the map, sinks or circles.     *)
DrawsSound ==
    \A p \in traced \union CellsOf(draws) :
        /\ RunsDown(p) /\ Len(p) >= 2
        /\ p[1] \in ChannelHeads(terrain, ChannelMask)
        /\ \/ \A d \in Cells : Drains(terrain, Last(p), d) => d \in CellsOf(p)
           \/ Len(p) = MaxSteps + 1

(* Both kinds of record. *)
PathsSound == HillslopesSound /\ DrawsSound

(* Where the water of a cell goes, step by step: the reference the walks   *)
(* are held against. Off the map, or without a direction, it stays.        *)
Downstream(c) ==
    LET at[k \in 0 .. MaxSteps] ==
          IF k = 0 THEN c
          ELSE LET b == at[k - 1]
               IN  IF \E d \in Cells : Drains(terrain, b, d)
                     THEN CHOOSE d \in Cells : Drains(terrain, b, d)
                     ELSE b
    IN  at

(* The walk from a cell, told by where it must end: the first of its       *)
(* steps that is in a channel, or that leads nowhere new.                  *)
WalkFrom(c, threshold) ==
    LET at == Downstream(c)
        ends == {k \in 0 .. MaxSteps :
                    \/ k > 0 /\ Flow(at[k]) >= threshold
                    \/ k < MaxSteps /\ \E j \in 0 .. k : at[k + 1] = at[j]
                    \/ k = MaxSteps}
        last == CHOOSE k \in ends : \A j \in ends : k <= j
    IN  [i \in 1 .. last + 1 |-> at[i - 1]]

(* The score of the best path a half-basin has, -1 if it has none. *)
BestScore(u) ==
    LET scores == {-1} \union {Score(WalkFrom(c, opts.channel)) :
                              c \in {d \in Ridge(u) : Len(WalkFrom(d, opts.channel)) >= 2}}
    IN  CHOOSE s \in scores : \A r \in scores : r <= s

(* A unit whose divides are all walked: under twice the cap none is left   *)
(* out.                                                                    *)
WalkedWhole(u) == Cardinality(Ridge(u)) < 2 * RidgeCap

(* A half-basin's representative is the best its divides have, so that the *)
(* order in which they are tried, and an earlier unit's walks, do not      *)
(* matter; and a half-basin the call has passed over had none long enough. *)
BestOfUnit ==
    pc \in {"unit", "heads"} =>
        /\ \A i \in 1 .. Len(lines) :
              WalkedWhole(lines[i].unit) => Score(lines[i].path) = BestScore(lines[i].unit)
        /\ \A u \in {terrain.unit[c] : c \in {d \in Cells : InField(d)}} \ (todo \union {0}) :
              WalkedWhole(u) =>
                 \/ \E i \in 1 .. Len(lines) : lines[i].unit = u
                 \/ BestScore(u) < opts.minScore \/ BestScore(u) = -1

(* "the largest max_lines by IN-FIELD area are kept": no half-basin is in  *)
(* the records before a wider one, none is there twice, and one that was   *)
(* never looked at is no wider than any that is.                           *)
WidestFirst ==
    /\ Len(lines) <= IF opts.maxLines < 0 THEN 0 ELSE opts.maxLines
    /\ \A i, j \in 1 .. Len(lines) :
          i < j => lines[i].unit # lines[j].unit /\ Area(lines[j].unit) <= Area(lines[i].unit)
    /\ \A i \in 1 .. Len(lines), u \in todo : Area(u) <= Area(lines[i].unit)

(* However large a half-basin, fewer walks than twice the cap are made for *)
(* it, and the cap's worth at least where there are so many divides.       *)
WalksBounded ==
    [][pc = "unit" /\ pc' = "walk" =>
          LET n == Cardinality(starts')
          IN  n < 2 * RidgeCap /\ (n < RidgeCap => starts' = Ridge(unit'))]_vars

(* No two draws are the same draw: each has a run of cells outside the     *)
(* corridors of those before it. The cap holds, but for the first draw,    *)
(* which is kept before the cap is looked at.                              *)
DrawsDistinct ==
    /\ Len(draws) <= IF opts.maxDraws < 1 THEN 1 ELSE opts.maxDraws
    /\ \A i \in 1 .. Len(draws) :
          /\ New(draws[i], SubSeq(draws, 1, i - 1)) >= MinUnique
          /\ \A j \in 1 .. i - 1 : Len(draws[i]) <= Len(draws[j])

(* No draw is lost: where the list is shorter than max_draws, every head   *)
(* left out is a channel of one cell, or the whole of its draw, traced to  *)
(* its end, adds too little to the draws that are kept. Except that a      *)
(* field with cells of no half-basin has no draws at all.                  *)
NoDrawLost ==
    pc = "done" /\ Len(draws) < opts.maxDraws =>
        \/ \A c \in Cells : terrain.unit[c] >= 1 => ~InField(c)
        \/ \A h \in ChannelHeads(terrain, ChannelMask) :
              LET p == WalkFrom(h, Never)
              IN  \/ \E i \in 1 .. Len(draws) : draws[i] = p
                  \/ Len(p) = 1
                  \/ New(p, draws) < MinUnique

(* Every call comes to its end. *)
Ends == <>(pc = "done")

=============================================================================
