------------------------------ MODULE Profile ------------------------------
(***************************************************************************)
(* The slope profile of a hillslope, from ridge to channel:                *)
(* _simplify_profile and _classify_profile_shape of app/geoworker.py, as   *)
(* mfd_flowlines calls them for each line. Points are named by their       *)
(* place in the profile, segments by the point they start from. Lengths    *)
(* and elevations are whole units; where the code compares distances in    *)
(* floats, this compares exact squares.                                    *)
(***************************************************************************)
EXTENDS Integers, Sequences, FiniteSets

CONSTANTS
    Profiles,   \* (cum_length_ft, elev_ft) sequences
    Options,    \* profile_segment_max_count and profile_segment_min_length_ft
    EpsNum,     \* epsilon_ft squared, EpsNum / EpsDen: 0.25
    EpsDen,
    Rounds,     \* 20: how many times epsilon is raised
    Grain       \* slopes are rounded to 1 / Grain: 10000, for two digits of per cent

Vertex == [x : Int, z : Int]
Option == [maxSegments : Int, minLength : Int]

(* The lengths of a profile increase: no walk visits a cell twice. *)
ASSUME ProfileAssumption ==
    /\ Profiles \subseteq Seq(Vertex)
    /\ \A p \in Profiles : \A i, j \in 1 .. Len(p) : i < j => p[i].x < p[j].x
    /\ Options \subseteq Option
    /\ EpsNum \in Nat /\ EpsDen \in Nat \ {0} /\ Rounds \in Nat /\ Grain \in Nat \ {0}

VARIABLES
    profile,  \* profile_ft
    opts,     \* the options
    pc,       \* what the call is at
    round,    \* how many times epsilon has been raised
    eps,      \* the square of epsilon now, as a fraction
    spans,    \* stretches Douglas-Peucker has still to look at
    kept,     \* the points of the simplified profile
    shape     \* profile_shape

vars == <<profile, opts, pc, round, eps, spans, kept, shape>>

Shapes == {"uniform", "convex", "concave", "complex"}

Init ==
    /\ profile \in Profiles
    /\ opts \in Options
    /\ pc = "start"
    /\ round = 0
    /\ eps = [num |-> EpsNum, den |-> EpsDen]
    /\ spans = {}
    /\ kept = {}
    /\ shape = "uniform"

N == Len(profile)
X(i) == profile[i].x
Z(i) == profile[i].z
Square(n) == n * n

(* Nothing to simplify: no segments, which counts as uniform. *)
Begin ==
    /\ pc = "start"
    /\ IF N < 2 THEN pc' = "done" /\ UNCHANGED spans
                ELSE pc' = "cut" /\ spans' = {<<1, N>>}
    /\ UNCHANGED <<profile, opts, round, eps, kept, shape>>

-----------------------------------------------------------------------------
(* Douglas-Peucker. *)

(* Twice the area between point m and the line from i to j. *)
Cross(i, j, m) ==
    LET n == (X(j) - X(i)) * (Z(i) - Z(m)) - (X(i) - X(m)) * (Z(j) - Z(i))
    IN  IF n < 0 THEN -n ELSE n

(* Point m is farther than epsilon from the line from i to j. *)
Far(i, j, m) ==
    Square(Cross(i, j, m)) * eps.den > eps.num * (Square(X(j) - X(i)) + Square(Z(j) - Z(i)))

(* Mutant: the last of the stretch's points counts as its farthest. *)
FarthestLast(i, j, m) == m = j - 1

(* The first of the points farthest from the line. *)
Farthest(i, j, m) ==
    /\ \A l \in i + 1 .. j - 1 : Cross(i, j, l) <= Cross(i, j, m)
    /\ \A l \in i + 1 .. m - 1 : Cross(i, j, l) < Cross(i, j, m)

(* The leftmost stretch: split at the point farthest from its line, if     *)
(* that is beyond epsilon, and else replaced by the line.                  *)
Cut ==
    /\ pc = "cut"
    /\ \E s \in spans :
          /\ \A t \in spans : s[1] <= t[1]
          /\ \/ \E m \in s[1] + 1 .. s[2] - 1 :
                   /\ Farthest(s[1], s[2], m)
                   /\ Far(s[1], s[2], m)
                   /\ spans' = (spans \ {s}) \union {<<s[1], m>>, <<m, s[2]>>}
                   /\ UNCHANGED kept
             \/ /\ \A m \in s[1] + 1 .. s[2] - 1 : Farthest(s[1], s[2], m) => ~Far(s[1], s[2], m)
                /\ spans' = spans \ {s}
                /\ kept' = kept \union {s[1], s[2]}
    /\ UNCHANGED <<profile, opts, pc, round, eps, shape>>

(* Mutant: one round too many. *)
RaisePast ==
    /\ pc = "cut"
    /\ spans = {}
    /\ round <= Rounds /\ Cardinality(kept) - 1 > opts.maxSegments
    /\ round' = round + 1
    /\ eps' = [num |-> 9 * eps.num, den |-> 4 * eps.den]
    /\ spans' = {<<1, N>>}
    /\ kept' = {}
    /\ UNCHANGED <<profile, opts, pc, shape>>

(* More than max_segments: again, with an epsilon half as large again. *)
Raise ==
    /\ pc = "cut"
    /\ spans = {}
    /\ round < Rounds /\ Cardinality(kept) - 1 > opts.maxSegments
    /\ round' = round + 1
    /\ eps' = [num |-> 9 * eps.num, den |-> 4 * eps.den]
    /\ spans' = {<<1, N>>}
    /\ kept' = {}
    /\ UNCHANGED <<profile, opts, pc, shape>>

Settle ==
    /\ pc = "cut"
    /\ spans = {}
    /\ round = Rounds \/ Cardinality(kept) - 1 <= opts.maxSegments
    /\ pc' = "merge"
    /\ UNCHANGED <<profile, opts, round, eps, spans, kept, shape>>

-----------------------------------------------------------------------------
(* Short segments. *)

(* The segments, by the points they start from, and the next point. *)
Segments == kept \ {N}
Ends(i, j) == j \in kept /\ i < j /\ \A k \in kept : ~(i < k /\ k < j)
After(i) == CHOOSE j \in kept : Ends(i, j)

Length(i) == X(After(i)) - X(i)
Short == {i \in Segments : Length(i) < opts.minLength}

(* Which point a short segment loses: its end, or its start if its end is  *)
(* the profile's.                                                          *)
Dropped(i) == IF After(i) = N THEN i ELSE After(i)

(* Mutant: a short segment alone is merged too. *)
MergeAlone ==
    /\ pc = "merge"
    /\ \E i \in Short :
          /\ \A j \in Short : i <= j
          /\ kept' = kept \ {Dropped(i)}
    /\ UNCHANGED <<profile, opts, pc, round, eps, spans, shape>>

(* The first short segment is merged with a neighbour. *)
Merge ==
    /\ pc = "merge"
    /\ Cardinality(kept) > 2
    /\ \E i \in Short :
          /\ \A j \in Short : i <= j
          /\ kept' = kept \ {Dropped(i)}
    /\ UNCHANGED <<profile, opts, pc, round, eps, spans, shape>>

-----------------------------------------------------------------------------
(* The shape. *)

(* round(a / b) with ties to the even. *)
Nearest(a, b) ==
    LET q == (2 * a + b) \div (2 * b)
    IN  IF (2 * a + b) % (2 * b) = 0 /\ q % 2 = 1 THEN q - 1 ELSE q

SlopePct(i) == Nearest(Grain * (Z(After(i)) - Z(i)), Length(i))

(* The change of slope at the end of a segment that is not the last. *)
Bends == {i \in Segments : After(i) # N}
Bend(i) == SlopePct(After(i)) - SlopePct(i)

(* Its sign changes: pairs of bends to opposite sides, none but straight   *)
(* ones between.                                                           *)
Turns ==
    {b \in Bends \X Bends :
        /\ b[1] < b[2] /\ Bend(b[1]) * Bend(b[2]) < 0
        /\ \A k \in Bends : b[1] < k /\ k < b[2] => Bend(k) = 0}

(* The sums of the slopes and of their squares. *)
Sums ==
    LET upTo[i \in 0 .. N] ==
          IF i = 0 THEN [one |-> 0, two |-> 0]
          ELSE IF i \notin Segments THEN upTo[i - 1]
          ELSE [one |-> upTo[i - 1].one + SlopePct(i),
                two |-> upTo[i - 1].two + Square(SlopePct(i))]
    IN  upTo[N]

(* The variance, times the square of the number of segments. *)
Spread == Cardinality(Segments) * Sums.two - Square(Sums.one)

(* Mutant: the label is read off the first and the last slope alone. *)
ShapeByEnds ==
    LET last == CHOOSE i \in Segments : After(i) = N
    IN  IF Spread = 0 \/ 400 * Spread < 9 * Square(Sums.one) THEN "uniform"
        ELSE IF Cardinality(Turns) >= 2 THEN "complex"
        ELSE IF SlopePct(last) >= SlopePct(1) THEN "convex" ELSE "concave"

(* Uniform if the slopes deviate by less than 0.15 of their mean. *)
Shape ==
    IF Spread = 0 \/ 400 * Spread < 9 * Square(Sums.one) THEN "uniform"
    ELSE IF Cardinality(Turns) >= 2 THEN "complex"
    ELSE IF \A i \in Bends : Bend(i) >= 0 THEN "convex"
    ELSE IF \A i \in Bends : Bend(i) <= 0 THEN "concave"
    ELSE "complex"

Classify ==
    /\ pc = "merge"
    /\ Cardinality(kept) <= 2 \/ Short = {}
    /\ pc' = "done"
    /\ shape' = Shape
    /\ UNCHANGED <<profile, opts, round, eps, spans, kept>>

Next == Begin \/ Cut \/ Raise \/ Settle \/ Merge \/ Classify

Spec == Init /\ [][Next]_vars

-----------------------------------------------------------------------------
(* Properties. *)

(* Every variable keeps to the values the code gives it. *)
TypeOK ==
    /\ profile \in Seq(Vertex) /\ opts \in Option
    /\ pc \in {"start", "cut", "merge", "done"}
    /\ round \in 0 .. Rounds
    /\ eps \in [num : Nat, den : Nat \ {0}]
    /\ spans \subseteq (1 .. N) \X (1 .. N)
    /\ kept \subseteq 1 .. N
    /\ shape \in Shapes

(* What Douglas-Peucker promises, in whichever round it ends: the first    *)
(* and last points are kept, and every point left out is within epsilon of *)
(* the segment that replaces it, not only of the line it was first         *)
(* measured against.                                                       *)
WithinTolerance ==
    pc = "cut" /\ spans = {} =>
        /\ {1, N} \subseteq kept
        /\ \A i, j \in kept : Ends(i, j) => \A m \in i + 1 .. j - 1 : ~Far(i, j, m)

(* The promise of _simplify_profile's docstring: the profile still runs    *)
(* from the ridge to the channel, so that its length and its fall are      *)
(* those of the hillslope; no segment is short unless it is the only one;  *)
(* and there are at most max_segments, if one is allowed, unless it is     *)
(* still uneven at the last epsilon.                                       *)
MeetsBrief ==
    pc = "done" /\ N >= 2 =>
        /\ {1, N} \subseteq kept
        /\ Cardinality(kept) = 2 \/ Short = {}
        /\ \/ Cardinality(Segments) <= opts.maxSegments
           \/ opts.maxSegments < 1
           \/ \E m \in 2 .. N - 1 : Far(1, N, m)

(* Point m of the simplified profile, against the chord of the whole: the  *)
(* height above it, times the length.                                      *)
Above(m) == (X(N) - X(m)) * (Z(m) - Z(1)) - (X(m) - X(1)) * (Z(N) - Z(m))

(* What a label says of the profile as a curve, whatever the merges did    *)
(* and up to what rounding the slopes can hide: a convex one lies nowhere  *)
(* above its chord, a concave one nowhere below. That is convexity as a    *)
(* function; the docstring uses the two words for the ground the other way *)
(* round, which is ConvexSteepens.                                         *)
ShapeOfCurve ==
    pc = "done" =>
        \A m \in kept :
            LET slack == (X(m) - X(1)) * (X(N) - X(m))
            IN  /\ shape = "convex" => Grain * Above(m) <= slack
                /\ shape = "concave" => -Grain * Above(m) <= slack

(* "convex: slope monotonically INCREASES downhill (terrain steepens)": on *)
(* a hillslope that falls all the way, the last segment of a convex        *)
(* profile is no less steep than the first.                                *)
ConvexSteepens ==
    pc = "done" /\ shape = "convex" /\ (\A i \in 1 .. N - 1 : Z(i) >= Z(i + 1)) =>
        \A i \in Segments : After(i) = N => -SlopePct(i) >= -SlopePct(1)

=============================================================================
