-------------------------- MODULE FlowLinesProofs --------------------------
(***************************************************************************)
(* Theorems of FlowLines, for any grid, terrains, options and limits: what *)
(* a hillslope and a draw are, in which order they come, and how many.     *)
(***************************************************************************)
EXTENDS FlowLines, SequenceTheorems, FiniteSetTheorems, TLAPS

(* The operators of the invariant name the terrain and the options they    *)
(* are about, neither of which a step changes.                             *)

(* A walk, under way or ended. *)
Way(t, p) ==
    /\ p \in Seq(Cells) /\ p # <<>>
    /\ \A i \in 1 .. Len(p) - 1 : Drains(t, p[i], p[i + 1])
    /\ \A i, j \in 1 .. Len(p) : p[i] = p[j] => i = j
    /\ Len(p) <= MaxSteps + 1

(* It has crossed no concentrated flow. *)
Quiet(t, limit, p) == \A k \in 2 .. Len(p) - 1 : Magnitude(t.acc[p[k]]) < limit

(* It has nowhere to go. *)
Stuck(t, p) == \A d \in Cells : Drains(t, Last(p), d) => d \in CellsOf(p)

RidgeOf(t, u) == {c \in Divides(t) : t.unit[c] = u}
HeadsOf(t, o) == ChannelHeads(t, {c \in Cells : Magnitude(t.acc[c]) >= o.draw})
AreaOf(t, u) == Cardinality({c \in Cells : t.unit[c] = u /\ (t.field = NoMask \/ c \in t.field)})

(* A walk that may be the record of half-basin u. *)
Hill(t, o, u, p) ==
    /\ Way(t, p) /\ Len(p) >= 2
    /\ p[1] \in RidgeOf(t, u)
    /\ Quiet(t, o.channel, p)
    /\ Magnitude(t.acc[Last(p)]) >= o.channel \/ Stuck(t, p) \/ Len(p) = MaxSteps + 1

(* A walk that may be a draw. *)
Channel(t, o, p) ==
    /\ Way(t, p) /\ Len(p) >= 2
    /\ p[1] \in HeadsOf(t, o)
    /\ Stuck(t, p) \/ Len(p) = MaxSteps + 1

(* The inductive invariant: every walk is one from its first cell on, kept *)
(* or not; the half-basins done come before those to do; so do the draws.  *)
Typing == TypeOK /\ terrain \in Terrains /\ opts \in Options

PathInv ==
    /\ pc \notin {"walk", "trace"} => path = <<>>
    /\ path # <<>> => Way(terrain, path)
    /\ pc = "walk" =>
          /\ starts \subseteq RidgeOf(terrain, unit)
          /\ path # <<>> => path[1] \in RidgeOf(terrain, unit) /\ Quiet(terrain, opts.channel, path)
          /\ best # <<>> => Hill(terrain, opts, unit, best)
    /\ pc # "walk" => best = <<>>
    /\ pc = "trace" =>
          /\ starts \subseteq HeadsOf(terrain, opts)
          /\ path # <<>> => path[1] \in HeadsOf(terrain, opts)
    /\ \A i \in 1 .. Len(lines) : Hill(terrain, opts, lines[i].unit, lines[i].path)
    /\ \A p \in traced : Channel(terrain, opts, p)
    /\ \A i \in 1 .. Len(draws) : Channel(terrain, opts, draws[i])

OrderInv ==
    /\ pc = "rank" => lines = <<>>
    /\ lines = <<>> \/ Len(lines) <= opts.maxLines
    /\ pc = "walk" =>
          /\ Len(lines) < opts.maxLines
          /\ unit \notin todo
          /\ \A i \in 1 .. Len(lines) :
                lines[i].unit # unit /\ AreaOf(terrain, unit) <= AreaOf(terrain, lines[i].unit)
          /\ \A u \in todo : AreaOf(terrain, u) <= AreaOf(terrain, unit)
    /\ \A i, j \in 1 .. Len(lines) :
          i < j => /\ lines[i].unit # lines[j].unit
                   /\ AreaOf(terrain, lines[j].unit) <= AreaOf(terrain, lines[i].unit)
    /\ \A i \in 1 .. Len(lines), u \in todo :
          u # lines[i].unit /\ AreaOf(terrain, u) <= AreaOf(terrain, lines[i].unit)

DrawInv ==
    /\ pc \notin {"keep", "done"} => draws = <<>>
    /\ pc = "keep" => draws = <<>> \/ Len(draws) < opts.maxDraws
    /\ draws = <<>> \/ Len(draws) <= IF opts.maxDraws < 1 THEN 1 ELSE opts.maxDraws
    /\ \A i \in 1 .. Len(draws) :
          /\ New(draws[i], SubSeq(draws, 1, i - 1)) >= MinUnique
          /\ \A j \in 1 .. i - 1 : Len(draws[i]) <= Len(draws[j])
    /\ \A i \in 1 .. Len(draws), p \in traced : Len(p) <= Len(draws[i])

-----------------------------------------------------------------------------
(* Facts about grids and walks. *)

LEMMA RidgeInCells ==
    ASSUME NEW t, NEW u
    PROVE  RidgeOf(t, u) \subseteq Cells
  BY DEF RidgeOf, Divides

LEMMA HeadsInCells ==
    ASSUME NEW t, NEW o
    PROVE  HeadsOf(t, o) \subseteq Cells
  BY DEF HeadsOf, ChannelHeads

LEMMA SampledInRidge ==
    ASSUME NEW S
    PROVE  Sampled(S) \subseteq S
  BY DEF Sampled

(* A walk begins with one cell. *)
LEMMA WayStarts ==
    ASSUME NEW t, NEW c \in Cells, NEW limit
    PROVE  Way(t, <<c>>) /\ Quiet(t, limit, <<c>>) /\ <<c>>[1] = c
  <1>1. <<c>> \in Seq(Cells) /\ Len(<<c>>) = 1 /\ <<c>>[1] = c /\ <<c>> # <<>>
    OBVIOUS
  <1>2. MaxSteps \in Nat \ {0}
    BY TerrainsAssumption
  <1> QED
    BY <1>1, <1>2 DEF Way, Quiet

(* A walk that has not made its turns goes on to a new cell downhill. *)
LEMMA WayGrows ==
    ASSUME NEW t, NEW p, Way(t, p), Len(p) <= MaxSteps,
           NEW d \in Cells, d \notin CellsOf(p), Drains(t, Last(p), d)
    PROVE  Way(t, Append(p, d)) /\ Append(p, d)[1] = p[1] /\ Len(Append(p, d)) = Len(p) + 1
  <1> DEFINE q == Append(p, d)
  <1>1. p \in Seq(Cells) /\ Len(p) \in Nat \ {0} /\ MaxSteps \in Nat
    BY EmptySeq, LenProperties, TerrainsAssumption DEF Way
  <1>2. /\ q \in Seq(Cells) /\ Len(q) = Len(p) + 1 /\ q[Len(p) + 1] = d
        /\ \A i \in 1 .. Len(p) : q[i] = p[i]
    BY <1>1, AppendProperties
  <1>3. q # <<>>
    BY <1>1, <1>2, EmptySeq
  <1>4. ASSUME NEW i \in 1 .. Len(q) - 1 PROVE Drains(t, q[i], q[i + 1])
    <2>1. CASE i = Len(p)
      BY <2>1, <1>1, <1>2 DEF Last
    <2>2. CASE i # Len(p)
      <3>1. i \in 1 .. Len(p) - 1 /\ i \in 1 .. Len(p) /\ i + 1 \in 1 .. Len(p)
        BY <2>2, <1>1, <1>2
      <3> QED
        BY <3>1, <1>2 DEF Way
    <2> QED
      BY <2>1, <2>2
  <1>5. ASSUME NEW i \in 1 .. Len(q), NEW j \in 1 .. Len(q), q[i] = q[j] PROVE i = j
    <2>1. \A k \in 1 .. Len(p) : p[k] # d
      BY DEF CellsOf
    <2>2. (i \in 1 .. Len(p) \/ i = Len(p) + 1) /\ (j \in 1 .. Len(p) \/ j = Len(p) + 1)
      BY <1>1, <1>2
    <2> QED
      BY <1>2, <1>5, <2>1, <2>2 DEF Way
  <1> HIDE DEF q
  <1>6. Way(t, q)
    BY <1>1, <1>2, <1>3, <1>4, <1>5 DEF Way
  <1> QED
    BY <1>1, <1>2, <1>6 DEF q

(* Areas are numbers. *)
LEMMA AreaIsNat ==
    ASSUME NEW t, NEW u
    PROVE  AreaOf(t, u) \in Nat
  <1>1. Rows - 1 \in Int /\ Cols - 1 \in Int
    BY GridAssumption
  <1>2. IsFiniteSet(0 .. Rows - 1) /\ IsFiniteSet(0 .. Cols - 1)
    BY <1>1, FS_Interval
  <1>3. IsFiniteSet(Cells)
    BY <1>2, FS_Product DEF Cells
  <1>4. IsFiniteSet({c \in Cells : t.unit[c] = u /\ (t.field = NoMask \/ c \in t.field)})
    BY <1>3, FS_Subset
  <1> QED
    BY <1>4, FS_CardinalityType DEF AreaOf

-----------------------------------------------------------------------------
(* Types. *)

LEMMA InitTyping == Init => Typing
  <1> SUFFICES ASSUME Init PROVE Typing
    OBVIOUS
  <1>1. terrain \in Terrain /\ opts \in Option
    BY TerrainsAssumption DEF Init
  <1>2. <<>> \in Seq(Cells) /\ <<>> \in Seq([unit : Nat, path : Seq(Cells)]) /\ <<>> \in Seq(Seq(Cells))
    BY EmptySeq
  <1> QED
    BY <1>1, <1>2 DEF Init, Typing, TypeOK, Phases

LEMMA StepTyping == Typing /\ [Next]_vars => Typing'
  <1> SUFFICES ASSUME Typing, [Next]_vars PROVE Typing'
    OBVIOUS
  <1> USE DEF Typing, TypeOK, Phases
  <1>0. \A c \in Cells : terrain.unit[c] \in Nat
    BY DEF Terrain
  <1>1. CASE Rank
    <2>1. todo' \subseteq Nat
      BY <1>0, <1>1 DEF Rank
    <2> QED
      BY <1>1, <2>1 DEF Rank
  <1>2. CASE PickUnit
    <2>1. PICK u \in todo : unit' = u /\ todo' = todo \ {u} /\ starts' = Sampled(Ridge(u)) /\ pc' \in {"unit", "walk"}
      BY <1>2 DEF PickUnit
    <2>2. Sampled(Ridge(u)) \subseteq Cells
      <3>1. Sampled(Ridge(u)) \subseteq Ridge(u)
        BY SampledInRidge
      <3> QED
        BY <3>1 DEF Ridge, Divides
    <2> QED
      BY <1>2, <2>1, <2>2 DEF PickUnit
  <1>3. CASE Start
    <2>1. PICK c \in starts : path' = <<c>> /\ starts' = starts \ {c}
      BY <1>3 DEF Start
    <2>2. <<c>> \in Seq(Cells)
      BY <2>1
    <2> QED
      BY <1>3, <2>1, <2>2 DEF Start
  <1>4. CASE Step
    <2>1. PICK d \in Onward(path) : path' = Append(path, d)
      BY <1>4 DEF Step
    <2>2. Append(path, d) \in Seq(Cells)
      BY <2>1, AppendProperties DEF Onward
    <2> QED
      BY <1>4, <2>1, <2>2 DEF Step
  <1>5. CASE ScoreWalk
    <2>1. best' \in Seq(Cells)
      BY <1>5 DEF ScoreWalk
    <2>2. path' \in Seq(Cells)
      BY <1>5, EmptySeq DEF ScoreWalk
    <2> QED
      BY <1>5, <2>1, <2>2 DEF ScoreWalk
  <1>6. CASE Judge
    <2> DEFINE R == [unit : Nat, path : Seq(Cells)]
    <2>1. [unit |-> unit, path |-> best] \in R
      OBVIOUS
    <2>2. Append(lines, [unit |-> unit, path |-> best]) \in Seq(R)
      <3> HIDE DEF R
      <3> QED
        BY <2>1, AppendProperties DEF R
    <2>3. lines' \in Seq(R) /\ best' \in Seq(Cells)
      BY <1>6, <2>2, EmptySeq DEF Judge
    <2> QED
      BY <1>6, <2>3 DEF Judge
  <1>7. CASE EndUnits
    BY <1>7 DEF EndUnits
  <1>8. CASE Heads
    <2>1. starts' \subseteq Cells
      BY <1>8 DEF Heads, ChannelHeads, ChannelMask
    <2> QED
      BY <1>8, <2>1 DEF Heads
  <1>9. CASE EndTrace
    <2>1. traced' \subseteq Seq(Cells) /\ path' \in Seq(Cells)
      BY <1>9, EmptySeq DEF EndTrace
    <2> QED
      BY <1>9, <2>1 DEF EndTrace
  <1>10. CASE EndHeads
    BY <1>10 DEF EndHeads
  <1>11. CASE Keep
    <2>1. PICK p \in traced : /\ draws' = IF New(p, draws) >= MinUnique THEN Append(draws, p) ELSE draws
                              /\ traced' = traced \ {p}
                              /\ pc' \in {"done", "keep"}
      BY <1>11 DEF Keep
    <2>2. Append(draws, p) \in Seq(Seq(Cells))
      BY <2>1, AppendProperties
    <2> QED
      BY <1>11, <2>1, <2>2 DEF Keep
  <1>12. CASE UNCHANGED vars
    BY <1>12 DEF vars
  <1> QED
    BY <1>1, <1>2, <1>3, <1>4, <1>5, <1>6, <1>7, <1>8, <1>9, <1>10, <1>11, <1>12 DEF Next

(* Every variable keeps to the values the code gives it. *)
THEOREM TypeCorrect == Spec => []TypeOK
  <1>1. Typing => TypeOK
    BY DEF Typing
  <1> QED
    BY InitTyping, StepTyping, <1>1, PTL DEF Spec

-----------------------------------------------------------------------------
(* Walks. *)

(* What a walk that stops, or does not, has in hand. *)
LEMMA StopFacts ==
    ASSUME Typing, path # <<>>, Way(terrain, path)
    PROVE  /\ Stops(path, Threshold) =>
                 \/ Len(path) > 1 /\ Magnitude(terrain.acc[Last(path)]) >= Threshold
                 \/ Stuck(terrain, path)
                 \/ Len(path) = MaxSteps + 1
           /\ ~Stops(path, Threshold) =>
                 /\ Len(path) <= MaxSteps
                 /\ Len(path) > 1 => ~(Magnitude(terrain.acc[Last(path)]) >= Threshold)
  <1>1. Len(path) \in Nat /\ MaxSteps \in Nat /\ Len(path) <= MaxSteps + 1
    BY LenProperties, TerrainsAssumption DEF Way
  <1>2. Onward(path) = {} => Stuck(terrain, path)
    BY DEF Onward, Stuck
  <1> QED
    BY <1>1, <1>2 DEF Stops, Flow

(* No accumulation reaches Never: the traces of draws stop at none. *)
LEMMA NeverReached ==
    ASSUME Typing, path # <<>>, Way(terrain, path)
    PROVE  ~(Magnitude(terrain.acc[Last(path)]) >= Never)
  <1>1. Len(path) \in 1 .. Len(path) /\ path \in Seq(Cells)
    BY EmptySeq, LenProperties DEF Way
  <1>2. Last(path) \in Cells
    BY <1>1, ElementOfSeq DEF Last
  <1>3. terrain.acc[Last(path)] \in Int /\ Magnitude(terrain.acc[Last(path)]) < Never
    BY <1>2, TerrainsAssumption DEF Typing, TypeOK, Terrain
  <1>4. Magnitude(terrain.acc[Last(path)]) \in Int /\ Never \in Int
    BY <1>3, TerrainsAssumption DEF Magnitude
  <1> QED
    BY <1>3, <1>4

LEMMA InitPaths == Init => PathInv
  BY EmptySeq DEF Init, PathInv

LEMMA PickUnitPaths == Typing /\ PathInv /\ PickUnit => PathInv'
  <1> SUFFICES ASSUME Typing, PathInv, PickUnit PROVE PathInv'
    OBVIOUS
  <1>1. PICK u \in todo : unit' = u /\ starts' = Sampled(Ridge(u)) /\ pc' \in {"unit", "walk"}
    BY DEF PickUnit
  <1>2. Sampled(Ridge(u)) \subseteq Ridge(u)
    BY SampledInRidge
  <1>3. Ridge(u) = RidgeOf(terrain, u)
    BY DEF Ridge, RidgeOf
  <1>4. starts' \subseteq RidgeOf(terrain, unit')
    BY <1>1, <1>2, <1>3
  <1>5. path = <<>> /\ best = <<>> /\ pc = "unit"
    BY DEF PickUnit, PathInv
  <1> QED
    BY <1>1, <1>4, <1>5 DEF PickUnit, PathInv

LEMMA StartPaths == Typing /\ PathInv /\ Start => PathInv'
  <1> SUFFICES ASSUME Typing, PathInv, Start PROVE PathInv'
    OBVIOUS
  <1>1. PICK c \in starts : path' = <<c>> /\ starts' = starts \ {c}
    BY DEF Start
  <1>2. c \in Cells
    BY <1>1 DEF Typing, TypeOK
  <1>3. Way(terrain, path') /\ Quiet(terrain, opts.channel, path') /\ path'[1] = c
    BY <1>1, <1>2, WayStarts
  <1> QED
    BY <1>1, <1>3 DEF Start, PathInv

LEMMA StepPaths == Typing /\ PathInv /\ Step => PathInv'
  <1> SUFFICES ASSUME Typing, PathInv, Step PROVE PathInv'
    OBVIOUS
  <1>1. PICK d \in Onward(path) : path' = Append(path, d)
    BY DEF Step
  <1>2. d \in Cells /\ d \notin CellsOf(path) /\ Drains(terrain, Last(path), d)
    BY <1>1 DEF Onward
  <1>3. Way(terrain, path) /\ path # <<>> /\ ~Stops(path, Threshold)
    BY DEF Step, PathInv
  <1>4. Len(path) <= MaxSteps /\ (Len(path) > 1 => ~(Magnitude(terrain.acc[Last(path)]) >= Threshold))
    BY <1>3, StopFacts
  <1>5. Way(terrain, path') /\ path'[1] = path[1] /\ Len(path') = Len(path) + 1
    BY <1>1, <1>2, <1>3, <1>4, WayGrows
  <1>6. ASSUME pc = "walk" PROVE Quiet(terrain, opts.channel, path')
    <2>1. Quiet(terrain, opts.channel, path) /\ Threshold = opts.channel /\ opts.channel \in Int
      BY <1>3, <1>6 DEF PathInv, Threshold, Typing, TypeOK, Option
    <2>2. path \in Seq(Cells) /\ Len(path) \in Nat \ {0}
      BY <1>3, EmptySeq, LenProperties DEF Way
    <2> SUFFICES ASSUME NEW k \in 2 .. Len(path') - 1
                 PROVE  Magnitude(terrain.acc[path'[k]]) < opts.channel
      BY DEF Quiet
    <2>3. k \in 1 .. Len(path) /\ path'[k] = path[k]
      BY <1>1, <1>2, <1>5, <2>2, AppendProperties
    <2>4. CASE k = Len(path)
      <3>1. Len(path) > 1 /\ path[k] = Last(path)
        BY <2>4 DEF Last
      <3>2. Last(path) \in Cells
        BY <2>2, <2>3, <3>1, ElementOfSeq
      <3>3. Magnitude(terrain.acc[Last(path)]) \in Int
        BY <3>2 DEF Typing, TypeOK, Terrain, Magnitude
      <3> QED
        BY <1>4, <2>1, <2>3, <3>1, <3>3
    <2>5. CASE k # Len(path)
      <3>1. k \in 2 .. Len(path) - 1
        BY <1>5, <2>2, <2>5
      <3> QED
        BY <2>1, <2>3, <3>1 DEF Quiet
    <2> QED
      BY <2>4, <2>5
  <1> QED
    BY <1>3, <1>5, <1>6 DEF Step, PathInv

LEMMA ScoreWalkPaths == Typing /\ PathInv /\ ScoreWalk => PathInv'
  <1> SUFFICES ASSUME Typing, PathInv, ScoreWalk PROVE PathInv'
    OBVIOUS
  <1>1. Way(terrain, path) /\ path # <<>> /\ Stops(path, Threshold)
    BY DEF ScoreWalk, PathInv
  <1>2. Threshold = opts.channel
    BY DEF ScoreWalk, Threshold
  <1>3. Len(path) >= 2 => Hill(terrain, opts, unit, path)
    BY <1>1, <1>2, StopFacts DEF ScoreWalk, PathInv, Hill
  <1>4. best' # <<>> => Hill(terrain, opts, unit, best')
    BY <1>3 DEF ScoreWalk, PathInv
  <1> QED
    BY <1>4 DEF ScoreWalk, PathInv

LEMMA JudgePaths == Typing /\ PathInv /\ Judge => PathInv'
  <1> SUFFICES ASSUME Typing, PathInv, Judge PROVE PathInv'
    OBVIOUS
  <1> DEFINE R == [unit : Nat, path : Seq(Cells)]
             r == [unit |-> unit, path |-> best]
  <1>1. r \in R /\ r.unit = unit /\ r.path = best /\ lines \in Seq(R)
    BY DEF Typing, TypeOK
  <1>2. best # <<>> => Hill(terrain, opts, unit, best)
    BY DEF Judge, PathInv
  <1>3. lines' = lines \/ (best # <<>> /\ lines' = Append(lines, r))
    BY DEF Judge
  <1>4. ASSUME NEW i \in 1 .. Len(lines') PROVE Hill(terrain, opts, lines'[i].unit, lines'[i].path)
    <2>1. CASE lines' = lines
      BY <1>4, <2>1 DEF PathInv
    <2>2. CASE best # <<>> /\ lines' = Append(lines, r)
      <3> HIDE DEF R, r
      <3>1. /\ Len(lines') = Len(lines) + 1 /\ lines'[Len(lines) + 1] = r /\ Len(lines) \in Nat
            /\ \A k \in 1 .. Len(lines) : lines'[k] = lines[k]
        BY <1>1, <2>2, AppendProperties, LenProperties
      <3>2. i \in 1 .. Len(lines) \/ i = Len(lines) + 1
        BY <1>4, <3>1
      <3> QED
        BY <1>1, <1>2, <2>2, <3>1, <3>2 DEF PathInv
    <2> QED
      BY <1>3, <2>1, <2>2
  <1> HIDE DEF R, r
  <1> QED
    BY <1>4 DEF Judge, PathInv

LEMMA HeadsPaths == Typing /\ PathInv /\ Heads => PathInv'
  <1> SUFFICES ASSUME Typing, PathInv, Heads PROVE PathInv'
    OBVIOUS
  <1>1. starts' = HeadsOf(terrain, opts)
    BY DEF Heads, HeadsOf, ChannelMask, Flow
  <1>2. path = <<>> /\ best = <<>>
    BY DEF Heads, PathInv
  <1> QED
    BY <1>1, <1>2 DEF Heads, PathInv

LEMMA EndTracePaths == Typing /\ PathInv /\ EndTrace => PathInv'
  <1> SUFFICES ASSUME Typing, PathInv, EndTrace PROVE PathInv'
    OBVIOUS
  <1>1. Way(terrain, path) /\ path # <<>> /\ Stops(path, Threshold) /\ Threshold = Never
    BY DEF EndTrace, PathInv, Threshold
  <1>2. Stuck(terrain, path) \/ Len(path) = MaxSteps + 1
    BY <1>1, StopFacts, NeverReached
  <1>3. Len(path) >= 2 => Channel(terrain, opts, path)
    BY <1>1, <1>2 DEF EndTrace, PathInv, Channel
  <1>4. \A p \in traced' : Channel(terrain, opts, p)
    BY <1>3 DEF EndTrace, PathInv
  <1> QED
    BY <1>4 DEF EndTrace, PathInv

LEMMA KeepPaths == Typing /\ PathInv /\ Keep => PathInv'
  <1> SUFFICES ASSUME Typing, PathInv, Keep PROVE PathInv'
    OBVIOUS
  <1>1. PICK p \in traced : /\ draws' = draws \/ draws' = Append(draws, p)
                            /\ traced' = traced \ {p}
                            /\ pc' \in {"done", "keep"}
    BY DEF Keep
  <1>2. draws \in Seq(Seq(Cells)) /\ p \in Seq(Cells) /\ Channel(terrain, opts, p)
    BY <1>1 DEF Typing, TypeOK, PathInv
  <1>3. ASSUME NEW i \in 1 .. Len(draws') PROVE Channel(terrain, opts, draws'[i])
    <2>1. CASE draws' = draws
      BY <1>3, <2>1 DEF PathInv
    <2>2. CASE draws' = Append(draws, p)
      <3>1. /\ Len(draws') = Len(draws) + 1 /\ draws'[Len(draws) + 1] = p /\ Len(draws) \in Nat
            /\ \A k \in 1 .. Len(draws) : draws'[k] = draws[k]
        BY <1>2, <2>2, AppendProperties, LenProperties
      <3>2. i \in 1 .. Len(draws) \/ i = Len(draws) + 1
        BY <1>3, <3>1
      <3> QED
        BY <1>2, <3>1, <3>2 DEF PathInv
    <2> QED
      BY <1>1, <2>1, <2>2
  <1>4. path = <<>> /\ best = <<>> /\ (\A q \in traced' : Channel(terrain, opts, q))
    BY <1>1 DEF Keep, PathInv
  <1> QED
    BY <1>1, <1>3, <1>4 DEF Keep, PathInv

LEMMA StepsPaths == Typing /\ PathInv /\ [Next]_vars => PathInv'
  <1> SUFFICES ASSUME Typing, PathInv, [Next]_vars PROVE PathInv'
    OBVIOUS
  <1>1. CASE Rank
    BY <1>1 DEF Rank, PathInv
  <1>2. CASE EndUnits
    BY <1>2 DEF EndUnits, PathInv
  <1>3. CASE EndHeads
    BY <1>3 DEF EndHeads, PathInv
  <1>4. CASE UNCHANGED vars
    BY <1>4 DEF vars, PathInv
  <1> QED
    BY <1>1, <1>2, <1>3, <1>4, PickUnitPaths, StartPaths, StepPaths, ScoreWalkPaths, JudgePaths,
       HeadsPaths, EndTracePaths, KeepPaths DEF Next

(* Every hillslope runs from a divide of its half-basin down to            *)
(* concentrated flow, every draw from a channel head to its end, without   *)
(* crossing a channel, visiting a cell twice or exceeding max_steps.       *)
THEOREM PathsCorrect == Spec => []PathsSound
  <1>1. ASSUME Typing, PathInv PROVE PathsSound
    <2>1. ASSUME NEW i \in 1 .. Len(lines) PROVE Hill(terrain, opts, lines[i].unit, lines[i].path)
      BY <1>1 DEF PathInv
    <2>2. HillslopesSound
      BY <2>1 DEF HillslopesSound, Hill, Way, RunsDown, Quiet, Stuck, RidgeOf, Flow
    <2>3. ASSUME NEW p \in traced \union CellsOf(draws) PROVE Channel(terrain, opts, p)
      BY <1>1, <2>3 DEF PathInv, CellsOf
    <2>4. HeadsOf(terrain, opts) = ChannelHeads(terrain, ChannelMask)
      BY DEF HeadsOf, ChannelMask, Flow
    <2>5. DrawsSound
      BY <2>3, <2>4 DEF DrawsSound, Channel, Way, RunsDown, Stuck
    <2> QED
      BY <2>2, <2>5 DEF PathsSound
  <1> QED
    BY InitTyping, StepTyping, InitPaths, StepsPaths, <1>1, PTL DEF Spec

-----------------------------------------------------------------------------
(* The order of the half-basins. *)

LEMMA InitOrder == Init => OrderInv
  BY LenProperties, EmptySeq DEF Init, OrderInv

LEMMA PickUnitOrder == Typing /\ OrderInv /\ PickUnit => OrderInv'
  <1> SUFFICES ASSUME Typing, OrderInv, PickUnit PROVE OrderInv'
    OBVIOUS
  <1>1. PICK u \in todo : /\ \A v \in todo : Area(v) <= Area(u)
                          /\ unit' = u /\ todo' = todo \ {u} /\ pc' \in {"unit", "walk"}
    BY DEF PickUnit
  <1>2. \A v \in todo : AreaOf(terrain, v) <= AreaOf(terrain, u)
    BY <1>1 DEF Area, AreaOf, InField
  <1> QED
    BY <1>1, <1>2 DEF PickUnit, OrderInv

LEMMA JudgeOrder == Typing /\ OrderInv /\ Judge => OrderInv'
  <1> SUFFICES ASSUME Typing, OrderInv, Judge PROVE OrderInv'
    OBVIOUS
  <1> DEFINE R == [unit : Nat, path : Seq(Cells)]
             r == [unit |-> unit, path |-> best]
  <1>1. r \in R /\ r.unit = unit /\ lines \in Seq(R)
    BY DEF Typing, TypeOK
  <1>2. lines' = lines \/ lines' = Append(lines, r)
    BY DEF Judge
  <1>3. CASE lines' = lines
    BY <1>3 DEF Judge, OrderInv
  <1>4. CASE lines' = Append(lines, r)
    <2> HIDE DEF R, r
    <2>1. /\ Len(lines') = Len(lines) + 1 /\ lines'[Len(lines) + 1] = r /\ Len(lines) \in Nat
          /\ \A k \in 1 .. Len(lines) : lines'[k] = lines[k]
      BY <1>1, <1>4, AppendProperties, LenProperties
    <2>2. \A i \in 1 .. Len(lines') : i \in 1 .. Len(lines) \/ i = Len(lines) + 1
      BY <2>1
    <2>3. /\ pc = "walk" /\ pc' = "unit" /\ todo' = todo /\ terrain' = terrain /\ opts' = opts
      BY DEF Judge
    <2>4. opts.maxLines \in Int
      BY DEF Typing, TypeOK, Option
    <2>5. Len(lines') <= opts.maxLines
      BY <2>1, <2>3, <2>4 DEF OrderInv
    <2>6. ASSUME NEW i \in 1 .. Len(lines'), NEW j \in 1 .. Len(lines'), i < j
          PROVE  /\ lines'[i].unit # lines'[j].unit
                 /\ AreaOf(terrain, lines'[j].unit) <= AreaOf(terrain, lines'[i].unit)
      <3>1. i \in 1 .. Len(lines)
        BY <2>1, <2>6
      <3> QED
        BY <1>1, <2>1, <2>2, <2>3, <2>6, <3>1 DEF OrderInv
    <2>7. ASSUME NEW i \in 1 .. Len(lines'), NEW u \in todo
          PROVE  u # lines'[i].unit /\ AreaOf(terrain, u) <= AreaOf(terrain, lines'[i].unit)
      BY <1>1, <2>1, <2>2, <2>3 DEF OrderInv
    <2> QED
      BY <2>3, <2>5, <2>6, <2>7 DEF OrderInv
  <1> QED
    BY <1>2, <1>3, <1>4

LEMMA StepsOrder == Typing /\ OrderInv /\ [Next]_vars => OrderInv'
  <1> SUFFICES ASSUME Typing, OrderInv, [Next]_vars PROVE OrderInv'
    OBVIOUS
  <1>1. CASE Rank
    <2>1. lines' = <<>> /\ pc' # "walk" /\ Len(<<>>) = 0
      BY <1>1, LenProperties, EmptySeq DEF Rank, OrderInv
    <2> QED
      BY <2>1 DEF OrderInv
  <1>2. CASE Start
    BY <1>2 DEF Start, OrderInv
  <1>3. CASE Step
    BY <1>3 DEF Step, OrderInv
  <1>4. CASE ScoreWalk
    BY <1>4 DEF ScoreWalk, OrderInv
  <1>5. CASE EndUnits
    BY <1>5 DEF EndUnits, OrderInv
  <1>6. CASE Heads
    BY <1>6 DEF Heads, OrderInv
  <1>7. CASE EndTrace
    BY <1>7 DEF EndTrace, OrderInv
  <1>8. CASE EndHeads
    BY <1>8 DEF EndHeads, OrderInv
  <1>9. CASE Keep
    BY <1>9 DEF Keep, OrderInv
  <1>10. CASE UNCHANGED vars
    BY <1>10 DEF vars, OrderInv
  <1> QED
    BY <1>1, <1>2, <1>3, <1>4, <1>5, <1>6, <1>7, <1>8, <1>9, <1>10, PickUnitOrder, JudgeOrder DEF Next

(* The records are of different half-basins, widest first, no more than    *)
(* max_lines, and none is left that is wider.                              *)
THEOREM WidestCorrect == Spec => []WidestFirst
  <1>1. ASSUME Typing, OrderInv PROVE WidestFirst
    <2>1. opts.maxLines \in Int /\ Len(<<>>) = 0 /\ Len(lines) \in Nat
      BY <1>1, LenProperties DEF Typing, TypeOK, Option
    <2>2. Len(lines) <= IF opts.maxLines < 0 THEN 0 ELSE opts.maxLines
      BY <1>1, <2>1 DEF OrderInv
    <2>3. \A u : Area(u) = AreaOf(terrain, u)
      BY DEF Area, AreaOf, InField
    <2> QED
      BY <1>1, <2>2, <2>3 DEF OrderInv, WidestFirst
  <1> QED
    BY InitTyping, StepTyping, InitOrder, StepsOrder, <1>1, PTL DEF Spec

-----------------------------------------------------------------------------
(* Draws. *)

LEMMA InitDraws == Init => DrawInv
  BY LenProperties, EmptySeq DEF Init, DrawInv

LEMMA KeepDraws == Typing /\ DrawInv /\ Keep => DrawInv'
  <1> SUFFICES ASSUME Typing, DrawInv, Keep PROVE DrawInv'
    OBVIOUS
  <1>1. PICK p \in traced :
            /\ \A q \in traced : Leads(p, q)
            /\ draws' = IF New(p, draws) >= MinUnique THEN Append(draws, p) ELSE draws
            /\ traced' = traced \ {p}
            /\ pc' = IF Len(draws') >= opts.maxDraws \/ traced' = {} THEN "done" ELSE "keep"
    BY DEF Keep
  <1>2. draws \in Seq(Seq(Cells)) /\ traced \subseteq Seq(Cells) /\ opts.maxDraws \in Int
    BY DEF Typing, TypeOK, Option
  <1>3. /\ pc = "keep" /\ opts' = opts /\ Len(draws) \in Nat /\ MinUnique' = MinUnique
        /\ draws = <<>> \/ Len(draws) < opts.maxDraws
    BY <1>2, LenProperties DEF Keep, DrawInv, MinUnique
  <1>4. \A q \in traced : Len(q) \in Nat /\ Len(q) <= Len(p)
    <2>1. \A q \in traced : Len(q) \in Nat
      BY <1>2, LenProperties
    <2> QED
      BY <1>1, <2>1 DEF Leads
  <1>5. CASE draws' = draws
    <2>1. pc' = "keep" => Len(draws) < opts.maxDraws
      BY <1>1, <1>2, <1>3, <1>5
    <2> QED
      BY <1>1, <1>3, <1>5, <2>1 DEF DrawInv, Keep
  <1>6. CASE New(p, draws) >= MinUnique /\ draws' = Append(draws, p)
    <2>1. /\ Len(draws') = Len(draws) + 1 /\ draws'[Len(draws) + 1] = p
          /\ \A k \in 1 .. Len(draws) : draws'[k] = draws[k]
      BY <1>2, <1>6, AppendProperties
    <2>2. ASSUME NEW k \in 0 .. Len(draws) PROVE SubSeq(draws', 1, k) = SubSeq(draws, 1, k)
      BY <1>2, <1>3, <2>1
    <2>3. SubSeq(draws, 1, Len(draws)) = draws
      BY <1>2
    <2>4. Len(draws') <= IF opts.maxDraws < 1 THEN 1 ELSE opts.maxDraws
      <3>1. draws = <<>> => Len(draws) = 0
        BY EmptySeq, LenProperties
      <3> QED
        BY <1>2, <1>3, <2>1, <3>1
    <2>5. ASSUME NEW i \in 1 .. Len(draws')
          PROVE  /\ New(draws'[i], SubSeq(draws', 1, i - 1)) >= MinUnique
                 /\ \A j \in 1 .. i - 1 : Len(draws'[i]) <= Len(draws'[j])
      <3>1. CASE i = Len(draws) + 1
        <4>1. i - 1 = Len(draws) /\ draws'[i] = p
          BY <1>3, <2>1, <3>1
        <4>2. SubSeq(draws', 1, i - 1) = draws
          BY <1>3, <2>2, <2>3, <4>1
        <4>3. \A j \in 1 .. i - 1 : draws'[j] = draws[j] /\ Len(p) <= Len(draws[j])
          BY <2>1, <4>1 DEF DrawInv
        <4> QED
          BY <1>6, <4>1, <4>2, <4>3
      <3>2. CASE i # Len(draws) + 1
        <4>1. i \in 1 .. Len(draws) /\ i - 1 \in 0 .. Len(draws) /\ (\A j \in 1 .. i - 1 : j \in 1 .. Len(draws))
          BY <1>3, <2>1, <3>2
        <4>2. SubSeq(draws', 1, i - 1) = SubSeq(draws, 1, i - 1) /\ draws'[i] = draws[i]
          BY <2>1, <2>2, <4>1
        <4>3. \A j \in 1 .. i - 1 : draws'[j] = draws[j]
          BY <2>1, <4>1
        <4> QED
          BY <4>1, <4>2, <4>3 DEF DrawInv
      <3> QED
        BY <3>1, <3>2
    <2>6. ASSUME NEW i \in 1 .. Len(draws'), NEW q \in traced' PROVE Len(q) <= Len(draws'[i])
      <3>1. q \in traced
        BY <1>1
      <3>2. i \in 1 .. Len(draws) \/ i = Len(draws) + 1
        BY <1>3, <2>1
      <3> QED
        BY <1>4, <2>1, <3>1, <3>2 DEF DrawInv
    <2>7. pc' = "keep" => Len(draws') < opts.maxDraws
      BY <1>1, <1>2, <1>3, <2>1
    <2>8. pc' \in {"keep", "done"}
      BY <1>1
    <2> QED
      BY <1>3, <2>4, <2>5, <2>6, <2>7, <2>8 DEF DrawInv
  <1> QED
    BY <1>1, <1>5, <1>6

LEMMA StepsDraws == Typing /\ DrawInv /\ [Next]_vars => DrawInv'
  <1> SUFFICES ASSUME Typing, DrawInv, [Next]_vars PROVE DrawInv'
    OBVIOUS
  <1>1. ASSUME UNCHANGED <<opts, draws, traced>>, (pc # "keep" /\ pc' # "keep") \/ pc' = pc, pc \in {"keep", "done"} => pc' = pc
        PROVE  DrawInv'
    BY <1>1 DEF DrawInv, MinUnique
  <1>2. CASE EndTrace
    <2>1. draws = <<>> /\ draws' = <<>> /\ Len(<<>>) = 0 /\ pc' = "trace"
      BY <1>2, EmptySeq, LenProperties DEF EndTrace, DrawInv
    <2> QED
      BY <2>1 DEF DrawInv
  <1>3. CASE EndHeads
    <2>1. draws = <<>> /\ draws' = <<>> /\ Len(<<>>) = 0
      BY <1>3, EmptySeq, LenProperties DEF EndHeads, DrawInv
    <2> QED
      BY <2>1 DEF DrawInv
  <1>4. CASE UNCHANGED vars
    BY <1>1, <1>4 DEF vars
  <1>5. CASE Rank
    BY <1>1, <1>5 DEF Rank
  <1>6. CASE PickUnit
    <2>1. pc' \in {"unit", "walk"} /\ pc = "unit"
      BY <1>6 DEF PickUnit
    <2> QED
      BY <1>1, <1>6, <2>1 DEF PickUnit
  <1>7. CASE Start
    BY <1>1, <1>7 DEF Start
  <1>8. CASE Step
    BY <1>1, <1>8 DEF Step
  <1>9. CASE ScoreWalk
    BY <1>1, <1>9 DEF ScoreWalk
  <1>10. CASE Judge
    BY <1>1, <1>10 DEF Judge
  <1>11. CASE EndUnits
    BY <1>1, <1>11 DEF EndUnits
  <1>12. CASE Heads
    BY <1>1, <1>12 DEF Heads
  <1> QED
    BY <1>2, <1>3, <1>4, <1>5, <1>6, <1>7, <1>8, <1>9, <1>10, <1>11, <1>12, KeepDraws DEF Next

(* However many heads there are, the draws kept are no more than           *)
(* max_draws, or the one that is kept before the cap is looked at, longest *)
(* first, each with enough channel outside the corridors of the others.    *)
THEOREM DistinctCorrect == Spec => []DrawsDistinct
  <1>1. ASSUME Typing, DrawInv PROVE DrawsDistinct
    <2>1. opts.maxDraws \in Int /\ Len(<<>>) = 0
      BY <1>1, LenProperties, EmptySeq DEF Typing, TypeOK, Option
    <2> QED
      BY <1>1, <2>1 DEF DrawInv, DrawsDistinct
  <1> QED
    BY InitTyping, StepTyping, InitDraws, StepsDraws, <1>1, PTL DEF Spec

=============================================================================
