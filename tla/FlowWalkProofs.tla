--------------------------- MODULE FlowWalkProofs ---------------------------
(***************************************************************************)
(* More theorems of FlowLines: the walks the call makes are those of the   *)
(* reference, so that each half-basin is represented by the best its       *)
(* divides have, and no channel head is lost.                              *)
(***************************************************************************)
EXTENDS FlowLinesProofs, FunctionTheorems, WellFoundedInduction

(* What induction over the turns of a loop rests on. *)
LEMMA Least ==
    ASSUME NEW S \in SUBSET Nat, S # {}
    PROVE  \E n \in S : \A k \in S : n <= k
  <1>1. PICK n \in S : \A k \in S : <<k, n>> \notin OpToRel(<, Nat)
    BY WFMin, NatLessThanWellFounded, Zenon
  <1>2. \A k \in S : ~(k < n)
    BY <1>1, Zenon DEF OpToRel
  <1> QED
    BY <1>2

(* A recursive definition over 0 .. n has a solution. *)
LEMMA Recursion ==
    ASSUME NEW T, NEW c \in T, NEW n \in Nat, NEW G \in [1 .. n -> [T -> T]]
    PROVE  \E f \in [0 .. n -> T] : f[0] = c /\ \A k \in 1 .. n : f[k] = G[k][f[k - 1]]
  <1> DEFINE Solves(m, f) ==
        f \in [0 .. m -> T] /\ f[0] = c /\ \A k \in 1 .. m : f[k] = G[k][f[k - 1]]
             S == {m \in 0 .. n : ~ \E f : Solves(m, f)}
  <1>1. S = {}
    <2> SUFFICES ASSUME S # {} PROVE FALSE
      OBVIOUS
    <2>1. S \in SUBSET Nat
      OBVIOUS
    <2>2. PICK m \in S : \A k \in S : m <= k
      <3> HIDE DEF S
      <3> QED
        BY <2>1, Least
    <2>3. CASE m = 0
      <3>1. Solves(0, [k \in 0 .. 0 |-> c])
        OBVIOUS
      <3> HIDE DEF Solves
      <3> QED
        BY <2>2, <2>3, <3>1
    <2>4. CASE m # 0
      <3>0. m \in 1 .. n /\ m - 1 \in 0 .. n /\ ~(m <= m - 1)
        BY <2>2, <2>4
      <3>1. m \in 1 .. n /\ m - 1 \in 0 .. n /\ m - 1 \notin S
        <4> HIDE DEF S
        <4> QED
          BY <2>2, <3>0
      <3>2. PICK f : Solves(m - 1, f)
        BY <3>1
      <3> DEFINE g == [k \in 0 .. m |-> IF k = m THEN G[m][f[m - 1]] ELSE f[k]]
      <3>3. G[m][f[m - 1]] \in T
        BY <3>1, <3>2
      <3>4. g \in [0 .. m -> T] /\ g[0] = c
        BY <3>1, <3>2, <3>3
      <3>5. ASSUME NEW k \in 1 .. m PROVE g[k] = G[k][g[k - 1]]
        BY <3>1, <3>2
      <3>6. Solves(m, g)
        BY <3>4, <3>5
      <3> HIDE DEF Solves, g
      <3> QED
        BY <2>2, <3>6
    <2> QED
      BY <2>3, <2>4
  <1>2. n \notin S /\ n \in 0 .. n
    BY <1>1
  <1>3. PICK f : Solves(n, f)
    BY <1>2
  <1> QED
    BY <1>3

(* Where the water of cell b goes next. *)
NextCell(t, b) ==
    IF \E d \in Cells : Drains(t, b, d) THEN CHOOSE d \in Cells : Drains(t, b, d) ELSE b

LEMMA DrainsOnce ==
    ASSUME NEW t, NEW b \in Cells, NEW d \in Cells, Drains(t, b, d)
    PROVE  NextCell(t, b) = d
  <1>1. \A e \in Cells : Drains(t, b, e) => e = d
    BY DEF Drains, Points
  <1> QED
    BY <1>1 DEF NextCell

LEMMA DownstreamSteps ==
    ASSUME NEW c \in Cells
    PROVE  /\ Downstream(c) \in [0 .. MaxSteps -> Cells]
           /\ Downstream(c)[0] = c
           /\ \A k \in 1 .. MaxSteps : Downstream(c)[k] = NextCell(terrain, Downstream(c)[k - 1])
  <1> DEFINE Eq(f) == f = [k \in 0 .. MaxSteps |->
                             IF k = 0 THEN c
                             ELSE IF \E d \in Cells : Drains(terrain, f[k - 1], d)
                                    THEN CHOOSE d \in Cells : Drains(terrain, f[k - 1], d)
                                    ELSE f[k - 1]]
             next == [b \in Cells |-> NextCell(terrain, b)]
  <1>0. MaxSteps \in Nat
    BY TerrainsAssumption
  <1>1. Downstream(c) = CHOOSE f : Eq(f)
    BY DEF Downstream
  <1>2. next \in [Cells -> Cells]
    BY DEF NextCell
  <1>3. PICK g \in [0 .. MaxSteps -> Cells] :
           g[0] = c /\ \A k \in 1 .. MaxSteps : g[k] = next[g[k - 1]]
    <2> DEFINE G == [k \in 1 .. MaxSteps |-> next]
    <2>1. G \in [1 .. MaxSteps -> [Cells -> Cells]]
      BY <1>2
    <2>2. PICK g \in [0 .. MaxSteps -> Cells] :
             g[0] = c /\ \A k \in 1 .. MaxSteps : g[k] = G[k][g[k - 1]]
      <3> HIDE DEF G
      <3> QED
        BY <1>0, <2>1, Recursion
    <2> HIDE DEF next
    <2> QED
      BY <2>2
  <1>4. \A k \in 1 .. MaxSteps : g[k - 1] \in Cells /\ g[k] = NextCell(terrain, g[k - 1])
    <2>1. ASSUME NEW k \in 1 .. MaxSteps PROVE g[k - 1] \in Cells /\ g[k] = next[g[k - 1]]
      <3>1. k - 1 \in 0 .. MaxSteps
        BY <1>0
      <3> HIDE DEF next
      <3> QED
        BY <1>3, <3>1
    <2>2. \A b \in Cells : next[b] = NextCell(terrain, b)
      OBVIOUS
    <2> QED
      BY <2>1, <2>2
  <1>5. Eq(g)
    <2>1. ASSUME NEW k \in 0 .. MaxSteps, k # 0
          PROVE  g[k] = IF \E d \in Cells : Drains(terrain, g[k - 1], d)
                          THEN CHOOSE d \in Cells : Drains(terrain, g[k - 1], d)
                          ELSE g[k - 1]
      BY <1>4, <2>1 DEF NextCell
    <2> QED
      BY <1>3, <2>1
  <1> HIDE DEF Eq
  <1>6. Eq(Downstream(c))
    BY <1>1, <1>5
  <1> DEFINE f == Downstream(c)
  <1>7. f = [k \in 0 .. MaxSteps |-> IF k = 0 THEN c ELSE NextCell(terrain, f[k - 1])]
    BY <1>6 DEF Eq, NextCell
  <1> HIDE DEF f
  <1>8. f[0] = c
    BY <1>0, <1>7
  <1>9. ASSUME NEW k \in 1 .. MaxSteps PROVE f[k] = NextCell(terrain, f[k - 1])
    <2>1. k \in 0 .. MaxSteps /\ k # 0
      BY <1>0
    <2> QED
      BY <1>7, <2>1
  <1>10. \A k \in 0 .. MaxSteps : f[k] \in Cells
    <2> DEFINE S == {k \in 0 .. MaxSteps : f[k] \notin Cells}
    <2>1. S = {}
      <3> SUFFICES ASSUME S # {} PROVE FALSE
        OBVIOUS
      <3>1. PICK m \in S : \A k \in S : m <= k
        <4>1. S \in SUBSET Nat
          OBVIOUS
        <4> HIDE DEF S
        <4> QED
          BY <4>1, Least
      <3>0. m \in 0 .. MaxSteps /\ f[m] \notin Cells
        BY <3>1
      <3>7. m # 0
        BY <1>8, <3>0
      <3>2. m \in 1 .. MaxSteps /\ m - 1 \in 0 .. MaxSteps /\ ~(m <= m - 1)
        BY <1>0, <3>0, <3>7
      <3>3. f[m - 1] \in Cells
        BY <3>1, <3>2
      <3> QED
        BY <1>9, <3>0, <3>2, <3>3 DEF NextCell
    <2> QED
      BY <2>1
  <1> QED
    BY <1>7, <1>8, <1>9, <1>10 DEF f

-----------------------------------------------------------------------------
(* Walks and their reference. *)

(* A walk that is over. *)
Over(t, limit, p) ==
    \/ Len(p) > 1 /\ Magnitude(t.acc[Last(p)]) >= limit
    \/ Stuck(t, p)
    \/ Len(p) = MaxSteps + 1

(* The walk from cell c, from its first cell to its end. *)
IsWalk(t, c, limit, p) == Way(t, p) /\ p[1] = c /\ Quiet(t, limit, p) /\ Over(t, limit, p)

(* Water flows the way a walk goes. *)
LEMMA WayFollows ==
    ASSUME NEW c \in Cells, NEW p, Way(terrain, p), p[1] = c
    PROVE  \A i \in 1 .. Len(p) : i - 1 \in 0 .. MaxSteps /\ Downstream(c)[i - 1] = p[i]
  <1> DEFINE at == Downstream(c)
             S == {i \in 1 .. Len(p) : at[i - 1] # p[i]}
  <1>1. p \in Seq(Cells) /\ Len(p) \in Nat /\ Len(p) <= MaxSteps + 1 /\ MaxSteps \in Nat
    BY LenProperties, TerrainsAssumption DEF Way
  <1>2. \A i \in 1 .. Len(p) : i - 1 \in 0 .. MaxSteps
    BY <1>1
  <1>3. S = {}
    <2> SUFFICES ASSUME S # {} PROVE FALSE
      OBVIOUS
    <2>1. PICK m \in S : \A k \in S : m <= k
      <3>1. S \in SUBSET Nat
        BY <1>1
      <3> HIDE DEF S
      <3> QED
        BY <3>1, Least
    <2>2. m \in 1 .. Len(p) /\ at[m - 1] # p[m]
      BY <2>1
    <2>3. m # 1
      BY <2>2, DownstreamSteps
    <2>4. /\ m - 1 \in 1 .. Len(p) /\ m - 1 \in 1 .. Len(p) - 1 /\ m - 1 \in 1 .. MaxSteps
          /\ (m - 1) + 1 = m /\ ~(m <= m - 1)
      BY <1>1, <2>2, <2>3
    <2>5. at[(m - 1) - 1] = p[m - 1]
      BY <2>1, <2>4
    <2>6. Drains(terrain, p[m - 1], p[m])
      BY <2>4 DEF Way
    <2>7. p[m - 1] \in Cells /\ p[m] \in Cells
      BY <1>1, <2>2, <2>4, ElementOfSeq
    <2>8. at[m - 1] = NextCell(terrain, at[(m - 1) - 1])
      <3> HIDE DEF at
      <3>1. \A k \in 1 .. MaxSteps : at[k] = NextCell(terrain, at[k - 1])
        BY DownstreamSteps DEF at
      <3> QED
        BY <2>4, <3>1
    <2> QED
      BY <2>2, <2>5, <2>6, <2>7, <2>8, DrainsOnce
  <1> QED
    BY <1>2, <1>3

(* There is one walk from a cell: the reference. *)
LEMMA WalkUnique ==
    ASSUME NEW c \in Cells, NEW limit \in Int, NEW p, IsWalk(terrain, c, limit, p), Typing
    PROVE  WalkFrom(c, limit) = p
  <1> DEFINE at == Downstream(c)
             ends == {k \in 0 .. MaxSteps :
                        \/ k > 0 /\ Flow(at[k]) >= limit
                        \/ k < MaxSteps /\ \E j \in 0 .. k : at[k + 1] = at[j]
                        \/ k = MaxSteps}
             last == CHOOSE k \in ends : \A j \in ends : k <= j
             e == Len(p) - 1
  <1>1. WalkFrom(c, limit) = [i \in 1 .. last + 1 |-> at[i - 1]]
    BY DEF WalkFrom
  <1>2. Way(terrain, p) /\ p[1] = c /\ Quiet(terrain, limit, p) /\ Over(terrain, limit, p)
    BY DEF IsWalk
  <1>3. p \in Seq(Cells) /\ Len(p) \in Nat \ {0} /\ Len(p) <= MaxSteps + 1 /\ MaxSteps \in Nat
    BY <1>2, LenProperties, EmptySeq, TerrainsAssumption DEF Way
  <1>4. \A i \in 1 .. Len(p) : at[i - 1] = p[i]
    BY <1>2, WayFollows
  <1>5. \A k \in 1 .. MaxSteps : at[k] = NextCell(terrain, at[k - 1])
    BY DownstreamSteps
  <1> HIDE DEF at
  <1>6. /\ e \in 0 .. MaxSteps /\ Last(p) \in Cells /\ p[Len(p)] = Last(p)
        /\ at[e] = Last(p)
    BY <1>3, <1>4, ElementOfSeq DEF Last
  <1>7. e \in ends
    <2>1. CASE Len(p) > 1 /\ Magnitude(terrain.acc[Last(p)]) >= limit
      BY <1>3, <1>6, <2>1 DEF Flow
    <2>2. CASE Len(p) = MaxSteps + 1
      BY <1>3, <1>6, <2>2
    <2>3. CASE Stuck(terrain, p) /\ Len(p) # MaxSteps + 1
      <3>1. e < MaxSteps /\ e + 1 \in 1 .. MaxSteps /\ (e + 1) - 1 = e
        BY <1>3, <2>3
      <3>2. at[e + 1] = NextCell(terrain, Last(p))
        BY <1>5, <1>6, <3>1
      <3>3. \E j \in 0 .. e : at[e + 1] = at[j]
        <4>1. CASE \E d \in Cells : Drains(terrain, Last(p), d)
          <5>1. PICK d \in Cells : Drains(terrain, Last(p), d)
            BY <4>1
          <5>2. at[e + 1] = d
            BY <1>6, <3>2, <5>1, DrainsOnce
          <5>3. PICK i \in 1 .. Len(p) : p[i] = d
            BY <2>3, <5>1 DEF Stuck, CellsOf
          <5>4. i - 1 \in 0 .. e /\ at[i - 1] = d
            BY <1>3, <1>4, <5>3
          <5> QED
            BY <5>2, <5>4
        <4>2. CASE ~ \E d \in Cells : Drains(terrain, Last(p), d)
          <5>1. at[e + 1] = at[e] /\ e \in 0 .. e
            BY <1>6, <3>2, <4>2 DEF NextCell
          <5> QED
            BY <5>1
        <4> QED
          BY <4>1, <4>2
      <3> QED
        BY <1>6, <3>1, <3>3
    <2> QED
      BY <1>2, <2>1, <2>2, <2>3 DEF Over
  <1>8. ASSUME NEW j \in ends, j < e PROVE FALSE
    <2>1. j \in 0 .. MaxSteps /\ j # MaxSteps /\ j + 1 \in 1 .. Len(p) /\ j + 2 \in 1 .. Len(p)
      BY <1>3, <1>6, <1>8
    <2>2. ASSUME j > 0, Flow(at[j]) >= limit PROVE FALSE
      <3>1. j + 1 \in 2 .. Len(p) - 1 /\ (j + 1) - 1 = j
        BY <1>3, <1>8, <2>1, <2>2
      <3>2. at[j] = p[j + 1]
        BY <1>4, <2>1, <3>1
      <3>3. p[j + 1] \in Cells
        BY <1>3, <2>1, ElementOfSeq
      <3>4. Magnitude(terrain.acc[p[j + 1]]) \in Int
        BY <3>3 DEF Typing, TypeOK, Terrain, Magnitude
      <3>5. Magnitude(terrain.acc[p[j + 1]]) < limit
        BY <1>2, <3>1 DEF Quiet
      <3>6. Magnitude(terrain.acc[p[j + 1]]) >= limit
        BY <2>2, <3>2 DEF Flow
      <3> QED
        BY <3>4, <3>5, <3>6
    <2>3. ASSUME NEW k \in 0 .. j, at[j + 1] = at[k] PROVE FALSE
      <3>1. /\ k + 1 \in 1 .. Len(p) /\ (k + 1) - 1 = k /\ (j + 2) - 1 = j + 1 /\ k + 1 # j + 2
        BY <1>3, <2>1, <2>3
      <3>2. at[k] = p[k + 1]
        BY <1>4, <3>1
      <3>3. at[j + 1] = p[j + 2]
        BY <1>4, <2>1, <3>1
      <3> QED
        BY <1>2, <2>1, <2>3, <3>1, <3>2, <3>3 DEF Way
    <2> QED
      BY <1>8, <2>1, <2>2, <2>3
  <1>9. last = e
    <2>1. \A j \in ends : j \in Int
      OBVIOUS
    <2>2. e \in Int
      BY <1>6
    <2> HIDE DEF ends
    <2> HIDE DEF e
    <2>3. \A j \in ends : e <= j
      BY <1>8, <2>1, <2>2
    <2>4. last \in ends /\ \A j \in ends : last <= j
      BY <1>7, <2>3
    <2> HIDE DEF last
    <2> QED
      BY <1>7, <2>1, <2>2, <2>3, <2>4
  <1>10. p = [i \in 1 .. e + 1 |-> at[i - 1]]
    <2>1. e + 1 = Len(p) /\ p = [i \in 1 .. Len(p) |-> p[i]]
      BY <1>3
    <2> QED
      BY <1>4, <2>1
  <1> QED
    BY <1>1, <1>9, <1>10

(* Sums of numbers. *)
LEMMA Counting ==
    ASSUME NEW m \in Nat
    PROVE  \A H \in [1 .. m -> [Nat -> Nat]] :
              \E g \in [0 .. m -> Nat] : g[0] = 0 /\ \A k \in 1 .. m : g[k] = H[k][g[k - 1]]
  <1> DEFINE Solved(T, z) ==
        \A H \in [1 .. m -> [T -> T]] :
           \E g \in [0 .. m -> T] : g[0] = z /\ \A k \in 1 .. m : g[k] = H[k][g[k - 1]]
  <1>1. ASSUME NEW T, NEW z \in T PROVE Solved(T, z)
    BY Recursion
  <1>2. Solved(Nat, 0)
    <2> HIDE DEF Solved
    <2> QED
      BY <1>1
  <1> QED
    BY <1>2

LEMMA Sums ==
    ASSUME NEW m \in Nat, NEW x \in [1 .. m -> Nat]
    PROVE  \E g \in [0 .. m -> Nat] : g[0] = 0 /\ \A k \in 1 .. m : g[k] = g[k - 1] + x[k]
  <1> DEFINE H == [k \in 1 .. m |-> [y \in Nat |-> y + x[k]]]
  <1>1. H \in [1 .. m -> [Nat -> Nat]]
    OBVIOUS
  <1>2. PICK g \in [0 .. m -> Nat] : g[0] = 0 /\ \A k \in 1 .. m : g[k] = H[k][g[k - 1]]
    <2> HIDE DEF H
    <2> QED
      BY <1>1, Counting
  <1>3. ASSUME NEW k \in 1 .. m PROVE g[k] = g[k - 1] + x[k]
    <2>1. k - 1 \in 0 .. m /\ g[k - 1] \in Nat
      BY <1>2
    <2> QED
      BY <1>2, <2>1
  <1> QED
    BY <1>2, <1>3

(* Lengths and scores are numbers. *)
LEMMA LengthIsNat ==
    ASSUME NEW p \in Seq(Cells)
    PROVE  PathLength(p) \in Nat
  <1> DEFINE n == Len(p)
             leap(k) == StepLength(p[k - 1], p[k])
             Eq(f) == f = [i \in 1 .. n |-> IF i = 1 THEN 0 ELSE f[i - 1] + leap(i)]
             upTo == CHOOSE f : Eq(f)
  <1>1. CASE p = <<>>
    BY <1>1 DEF PathLength
  <1>2. CASE p # <<>>
    <2>1. PathLength(p) = upTo[n]
      BY <1>2 DEF PathLength
    <2>2. n \in Nat \ {0}
      BY <1>2, LenProperties, EmptySeq
    <2>3. \A k : leap(k) \in Nat
      BY GridAssumption DEF StepLength
    <2> HIDE DEF n, leap
    <2> DEFINE leaps == [k \in 1 .. n - 1 |-> leap(k + 1)]
    <2>4. PICK g \in [0 .. n - 1 -> Nat] : g[0] = 0 /\ \A k \in 1 .. n - 1 : g[k] = g[k - 1] + leaps[k]
      <3>1. n - 1 \in Nat /\ leaps \in [1 .. n - 1 -> Nat]
        BY <2>2, <2>3
      <3> HIDE DEF leaps, Eq, upTo
      <3> QED
        BY <3>1, Sums
    <2> DEFINE h == [i \in 1 .. n |-> g[i - 1]]
    <2>5. Eq(h)
      <3>1. ASSUME NEW i \in 1 .. n, i # 1 PROVE g[i - 1] = h[i - 1] + leap(i)
        <4>1. i - 1 \in 1 .. n - 1 /\ (i - 1) + 1 = i /\ i - 1 \in 1 .. n
          BY <2>2, <3>1
        <4>2. g[i - 1] = g[(i - 1) - 1] + leaps[i - 1] /\ leaps[i - 1] = leap(i)
          BY <2>4, <4>1
        <4> QED
          BY <4>1, <4>2
      <3>2. \A i \in 1 .. n : h[i] = IF i = 1 THEN 0 ELSE h[i - 1] + leap(i)
        BY <2>4, <3>1
      <3> QED
        BY <3>2
    <2> HIDE DEF Eq
    <2>6. Eq(upTo)
      BY <2>5
    <2> HIDE DEF upTo
    <2>7. upTo = [i \in 1 .. n |-> IF i = 1 THEN 0 ELSE upTo[i - 1] + leap(i)]
      BY <2>6 DEF Eq
    <2> DEFINE S == {i \in 1 .. n : upTo[i] \notin Nat}
    <2>8. S = {}
      <3> SUFFICES ASSUME S # {} PROVE FALSE
        OBVIOUS
      <3>1. PICK m \in S : \A k \in S : m <= k
        <4>1. S \in SUBSET Nat
          BY <2>2
        <4> HIDE DEF S
        <4> QED
          BY <4>1, Least
      <3>2. m \in 1 .. n /\ upTo[m] \notin Nat
        BY <3>1
      <3>3. upTo[m] = IF m = 1 THEN 0 ELSE upTo[m - 1] + leap(m)
        BY <2>7, <3>2
      <3>4. m # 1
        BY <3>2, <3>3
      <3>5. m - 1 \in 1 .. n /\ ~(m <= m - 1)
        BY <2>2, <3>2, <3>4
      <3>6. upTo[m - 1] \in Nat
        BY <3>1, <3>5
      <3> QED
        BY <2>3, <3>2, <3>3, <3>4, <3>6
    <2> QED
      BY <2>1, <2>2, <2>8
  <1> QED
    BY <1>1, <1>2

(* What a path is worth on terrain t. *)
ScoreOf(t, p) ==
    IF t.field = NoMask
      THEN PathLength(p)
      ELSE Straight * Cardinality({i \in 1 .. Len(p) : p[i] \in t.field})

LEMMA ScoreIsNat ==
    ASSUME NEW t, NEW p \in Seq(Cells)
    PROVE  ScoreOf(t, p) \in Nat
  <1> DEFINE I == {i \in 1 .. Len(p) : p[i] \in t.field}
  <1>1. Len(p) \in Nat
    BY LenProperties
  <1>2. IsFiniteSet(1 .. Len(p)) /\ I \subseteq 1 .. Len(p)
    BY <1>1, FS_Interval
  <1> HIDE DEF I
  <1>3. Cardinality(I) \in Nat
    BY <1>2, FS_Subset, FS_CardinalityType
  <1>4. Straight * Cardinality(I) \in Nat
    BY <1>3, GridAssumption
  <1> QED
    BY <1>4, LengthIsNat DEF ScoreOf, I

-----------------------------------------------------------------------------
(* The best of a half-basin. *)

(* The half-basins the field has cells of, 0 if some belong to none. *)
HalfBasins(t) == {t.unit[c] : c \in {d \in Cells : t.field = NoMask \/ d \in t.field}}

(* A half-basin whose divides are all walked. *)
Whole(t, u) == Cardinality(RidgeOf(t, u)) < 2 * RidgeCap

(* The walk from c does no better than b. *)
Tried(t, o, c, b) ==
    \E p \in Seq(Cells) :
        /\ IsWalk(t, c, o.channel, p)
        /\ Len(p) >= 2 => b # <<>> /\ ScoreOf(t, p) <= ScoreOf(t, b)

(* No walk of the half-basin does. *)
NoBetter(t, o, u, b) == Whole(t, u) => \A c \in RidgeOf(t, u) : Tried(t, o, c, b)

(* A half-basin without a record: its best is none, or too short. *)
Passed(t, o, u) ==
    \E b \in Seq(Cells) :
        /\ b = <<>> \/ (Hill(t, o, u, b) /\ ScoreOf(t, b) < o.minScore)
        /\ NoBetter(t, o, u, b)

(* The divides of the half-basin in hand are still to walk, are walked     *)
(* from, or did no better than the best so far; the half-basins behind the *)
(* call have the best as their record, or had none worth one.              *)
BestInv ==
    /\ pc = "walk" /\ Whole(terrain, unit) =>
          \A c \in RidgeOf(terrain, unit) :
              c \in starts \/ (path # <<>> /\ path[1] = c) \/ Tried(terrain, opts, c, best)
    /\ \A i \in 1 .. Len(lines) : NoBetter(terrain, opts, lines[i].unit, lines[i].path)
    /\ pc # "rank" =>
          \A u \in HalfBasins(terrain) \ (todo \union {0}) :
              \/ pc = "walk" /\ u = unit
              \/ \E i \in 1 .. Len(lines) : lines[i].unit = u
              \/ Passed(terrain, opts, u)

(* Division, by what it leaves. *)
LEMMA Quotient ==
    ASSUME NEW n \in Nat, NEW d \in Nat \ {0}
    PROVE  /\ n \div d \in Nat
           /\ d * (n \div d) <= n
           /\ n < d * (n \div d) + d
  OBVIOUS

LEMMA QuotientOne ==
    ASSUME NEW n \in Nat, NEW d \in Nat \ {0}, d < n, n < 2 * d
    PROVE  n \div d = 1
  <1> DEFINE q == n \div d
  <1>1. q \in Nat /\ d * q <= n /\ n < d * q + d
    BY Quotient
  <1> HIDE DEF q
  <1>2. q # 0
    BY <1>1
  <1>3. ASSUME q >= 2 PROVE FALSE
    <2>1. d * q >= 2 * d
      BY <1>1, <1>3
    <2> QED
      BY <1>1, <2>1
  <1>4. q = 1
    BY <1>1, <1>2, <1>3
  <1> QED
    BY <1>4 DEF q

LEMMA CellsFinite == IsFiniteSet(Cells)
  <1>1. IsFiniteSet(0 .. Rows - 1) /\ IsFiniteSet(0 .. Cols - 1)
    BY FS_Interval, GridAssumption
  <1> QED
    BY <1>1, FS_Product DEF Cells

(* Under twice the cap, the sample is the whole. *)
LEMMA SampledWhole ==
    ASSUME NEW S \in SUBSET Cells, Cardinality(S) < 2 * RidgeCap
    PROVE  Sampled(S) = S
  <1> DEFINE n == Cardinality(S)
             k == IF n > RidgeCap THEN n \div RidgeCap ELSE 1
  <1>1. IsFiniteSet(S) /\ n \in Nat /\ RidgeCap \in Nat \ {0}
    BY CellsFinite, FS_Subset, FS_CardinalityType, TerrainsAssumption
  <1>2. k = 1
    BY <1>1, QuotientOne
  <1>3. ASSUME NEW c \in S PROVE Cardinality({d \in S : Earlier(d, c)}) % k = 0
    <2>1. Cardinality({d \in S : Earlier(d, c)}) \in Nat
      BY <1>1, FS_Subset, FS_CardinalityType
    <2> HIDE DEF k
    <2> QED
      BY <1>2, <2>1
  <1> QED
    BY <1>3 DEF Sampled

(* A better best keeps what did no better. *)
LEMMA TriedOnward ==
    ASSUME NEW t, NEW o, NEW c, NEW b \in Seq(Cells), NEW d \in Seq(Cells), Tried(t, o, c, b),
           b # <<>> => d # <<>> /\ ScoreOf(t, b) <= ScoreOf(t, d)
    PROVE  Tried(t, o, c, d)
  <1>1. PICK p \in Seq(Cells) :
            /\ IsWalk(t, c, o.channel, p)
            /\ Len(p) >= 2 => b # <<>> /\ ScoreOf(t, p) <= ScoreOf(t, b)
    BY DEF Tried
  <1>2. ScoreOf(t, p) \in Nat /\ ScoreOf(t, b) \in Nat /\ ScoreOf(t, d) \in Nat
    BY ScoreIsNat
  <1>3. Len(p) >= 2 => d # <<>> /\ ScoreOf(t, p) <= ScoreOf(t, d)
    BY <1>1, <1>2
  <1> QED
    BY <1>1, <1>3 DEF Tried

LEMMA InitBest == Init => BestInv
  BY LenProperties, EmptySeq DEF Init, BestInv

LEMMA RankBest == Typing /\ OrderInv /\ Rank => BestInv'
  <1> SUFFICES ASSUME Typing, OrderInv, Rank PROVE BestInv'
    OBVIOUS
  <1>1. lines' = <<>> /\ Len(<<>>) = 0 /\ pc' # "walk" /\ terrain' = terrain
    BY LenProperties DEF Rank, OrderInv
  <1>2. todo' = {terrain.unit[c] : c \in {d \in Cells : terrain.unit[d] >= 1 /\ InField(d)}}
    BY DEF Rank
  <1>3. ASSUME NEW u \in HalfBasins(terrain) \ (todo' \union {0}) PROVE FALSE
    <2>1. PICK c \in Cells : u = terrain.unit[c] /\ InField(c)
      BY <1>3 DEF HalfBasins, InField
    <2>2. terrain.unit[c] \in Nat
      BY DEF Typing, TypeOK, Terrain
    <2>3. terrain.unit[c] >= 1
      BY <1>3, <2>1, <2>2
    <2> QED
      BY <1>2, <1>3, <2>1, <2>3
  <1> QED
    BY <1>1, <1>3 DEF BestInv

LEMMA PickUnitBest == Typing /\ PathInv /\ BestInv /\ PickUnit => BestInv'
  <1> SUFFICES ASSUME Typing, PathInv, BestInv, PickUnit PROVE BestInv'
    OBVIOUS
  <1>1. PICK u \in todo : /\ unit' = u /\ todo' = todo \ {u}
                          /\ starts' = Sampled(Ridge(u))
                          /\ pc' = IF Ridge(u) = {} THEN "unit" ELSE "walk"
    BY DEF PickUnit
  <1>2. UNCHANGED <<terrain, opts, path, best, lines>> /\ pc = "unit"
    BY DEF PickUnit
  <1>3. Ridge(u) = RidgeOf(terrain, u) /\ RidgeOf(terrain, u) \in SUBSET Cells
    BY RidgeInCells DEF Ridge, RidgeOf
  <1>4. ASSUME Whole(terrain, u) PROVE RidgeOf(terrain, u) = starts'
    BY <1>1, <1>3, <1>4, SampledWhole DEF Whole
  <1>5. ASSUME NEW v \in HalfBasins(terrain) \ (todo' \union {0})
        PROVE  \/ pc' = "walk" /\ v = unit'
               \/ \E i \in 1 .. Len(lines) : lines[i].unit = v
               \/ Passed(terrain, opts, v)
    <2>1. CASE v = u
      <3>1. CASE Ridge(u) = {}
        <4>1. <<>> \in Seq(Cells) /\ NoBetter(terrain, opts, v, <<>>)
          BY <1>3, <2>1, <3>1, EmptySeq DEF NoBetter
        <4> QED
          BY <4>1 DEF Passed
      <3> QED
        BY <1>1, <2>1, <3>1
    <2>2. CASE v # u
      BY <1>1, <1>2, <1>5, <2>2 DEF BestInv
    <2> QED
      BY <2>1, <2>2
  <1> QED
    BY <1>1, <1>2, <1>4, <1>5 DEF BestInv

LEMMA StartBest == Typing /\ PathInv /\ BestInv /\ Start => BestInv'
  <1> SUFFICES ASSUME Typing, PathInv, BestInv, Start PROVE BestInv'
    OBVIOUS
  <1>1. PICK c \in starts : path' = <<c>> /\ starts' = starts \ {c}
    BY DEF Start
  <1>2. path' # <<>> /\ path'[1] = c /\ path = <<>>
    BY <1>1 DEF Start
  <1>3. UNCHANGED <<terrain, opts, pc, todo, unit, best, lines>>
    BY DEF Start
  <1> QED
    BY <1>1, <1>2, <1>3 DEF BestInv

LEMMA StepBest == Typing /\ PathInv /\ BestInv /\ Step => BestInv'
  <1> SUFFICES ASSUME Typing, PathInv, BestInv, Step PROVE BestInv'
    OBVIOUS
  <1>1. PICK d \in Onward(path) : path' = Append(path, d)
    BY DEF Step
  <1>2. path \in Seq(Cells) /\ path # <<>> /\ d \in Cells
    BY <1>1 DEF Step, Onward, Typing, TypeOK
  <1>3. path' # <<>> /\ path'[1] = path[1]
    <2>1. 1 \in 1 .. Len(path)
      BY <1>2, EmptySeq, LenProperties
    <2> QED
      BY <1>1, <1>2, <2>1, AppendProperties
  <1>4. UNCHANGED <<terrain, opts, pc, todo, unit, starts, best, lines>>
    BY DEF Step
  <1> QED
    BY <1>2, <1>3, <1>4 DEF BestInv

LEMMA ScoreWalkBest == Typing /\ PathInv /\ BestInv /\ ScoreWalk => BestInv'
  <1> SUFFICES ASSUME Typing, PathInv, BestInv, ScoreWalk PROVE BestInv'
    OBVIOUS
  <1>1. Way(terrain, path) /\ path # <<>> /\ Stops(path, Threshold) /\ Quiet(terrain, opts.channel, path)
    BY DEF ScoreWalk, PathInv
  <1>2. Threshold = opts.channel /\ path \in Seq(Cells) /\ best \in Seq(Cells) /\ best' \in Seq(Cells)
    BY DEF ScoreWalk, Threshold, Typing, TypeOK
  <1>3. IsWalk(terrain, path[1], opts.channel, path)
    BY <1>1, <1>2, StopFacts DEF IsWalk, Over
  <1>4. best' = IF Len(path) >= 2 /\ (best = <<>> \/ ScoreOf(terrain, path) > ScoreOf(terrain, best))
                  THEN path ELSE best
    BY DEF ScoreWalk, Score, ScoreOf
  <1>5. ScoreOf(terrain, path) \in Nat /\ ScoreOf(terrain, best) \in Nat
    BY <1>2, ScoreIsNat
  <1>6. Len(path) >= 2 => best' # <<>> /\ ScoreOf(terrain, path) <= ScoreOf(terrain, best')
    BY <1>1, <1>4, <1>5
  <1>7. best # <<>> => best' # <<>> /\ ScoreOf(terrain, best) <= ScoreOf(terrain, best')
    BY <1>1, <1>4, <1>5
  <1>8. Tried(terrain, opts, path[1], best')
    BY <1>2, <1>3, <1>6 DEF Tried
  <1>9. ASSUME NEW c, Tried(terrain, opts, c, best) PROVE Tried(terrain, opts, c, best')
    BY <1>2, <1>7, <1>9, TriedOnward
  <1>10. UNCHANGED <<terrain, opts, pc, todo, unit, starts, lines>>
    BY DEF ScoreWalk
  <1> QED
    BY <1>8, <1>9, <1>10 DEF BestInv

LEMMA JudgeBest == Typing /\ PathInv /\ BestInv /\ Judge => BestInv'
  <1> SUFFICES ASSUME Typing, PathInv, BestInv, Judge PROVE BestInv'
    OBVIOUS
  <1> DEFINE R == [unit : Nat, path : Seq(Cells)]
             r == [unit |-> unit, path |-> best]
  <1>1. r \in R /\ r.unit = unit /\ r.path = best /\ lines \in Seq(R) /\ best \in Seq(Cells)
    BY DEF Typing, TypeOK
  <1>2. NoBetter(terrain, opts, unit, best)
    BY DEF Judge, BestInv, NoBetter
  <1>3. UNCHANGED <<terrain, opts, todo, unit>> /\ pc = "walk" /\ pc' = "unit"
    BY DEF Judge
  <1>4. CASE best # <<>> /\ Score(best) >= opts.minScore
    <2>0. lines' = Append(lines, r)
      BY <1>4 DEF Judge
    <2> HIDE DEF R, r
    <2>1. /\ Len(lines') = Len(lines) + 1 /\ lines'[Len(lines) + 1] = r /\ Len(lines) \in Nat
          /\ \A k \in 1 .. Len(lines) : lines'[k] = lines[k]
      BY <1>1, <2>0, AppendProperties, LenProperties
    <2>2. \A i \in 1 .. Len(lines') : i \in 1 .. Len(lines) \/ i = Len(lines) + 1
      BY <2>1
    <2>3. ASSUME NEW i \in 1 .. Len(lines') PROVE NoBetter(terrain, opts, lines'[i].unit, lines'[i].path)
      BY <1>1, <1>2, <2>1, <2>2 DEF BestInv
    <2>4. ASSUME NEW u \in HalfBasins(terrain) \ (todo \union {0})
          PROVE  (\E i \in 1 .. Len(lines') : lines'[i].unit = u) \/ Passed(terrain, opts, u)
      <3>1. CASE u = unit
        <4>1. Len(lines) + 1 \in 1 .. Len(lines')
          BY <2>1
        <4> QED
          BY <1>1, <2>1, <3>1, <4>1
      <3>2. CASE \E i \in 1 .. Len(lines) : lines[i].unit = u
        <4>1. \A i \in 1 .. Len(lines) : i \in 1 .. Len(lines')
          BY <2>1
        <4> QED
          BY <2>1, <3>2, <4>1
      <3> QED
        BY <1>3, <3>1, <3>2 DEF BestInv
    <2> QED
      BY <1>3, <2>3, <2>4 DEF BestInv
  <1>5. CASE ~(best # <<>> /\ Score(best) >= opts.minScore)
    <2>1. lines' = lines
      BY <1>5 DEF Judge
    <2>2. Score(best) = ScoreOf(terrain, best) /\ ScoreOf(terrain, best) \in Nat /\ opts.minScore \in Int
      BY <1>1, ScoreIsNat DEF Score, ScoreOf, Typing, TypeOK, Option
    <2>3. best = <<>> \/ (Hill(terrain, opts, unit, best) /\ ScoreOf(terrain, best) < opts.minScore)
      BY <1>3, <1>5, <2>2 DEF PathInv
    <2>4. Passed(terrain, opts, unit)
      BY <1>1, <1>2, <2>3 DEF Passed
    <2> QED
      BY <1>3, <2>1, <2>4 DEF BestInv
  <1> QED
    BY <1>4, <1>5

LEMMA StepsBest == Typing /\ PathInv /\ OrderInv /\ BestInv /\ [Next]_vars => BestInv'
  <1> SUFFICES ASSUME Typing, PathInv, OrderInv, BestInv, [Next]_vars PROVE BestInv'
    OBVIOUS
  <1>1. CASE EndUnits
    BY <1>1 DEF EndUnits, BestInv
  <1>2. CASE Heads
    BY <1>2 DEF Heads, BestInv
  <1>3. CASE EndTrace
    BY <1>3 DEF EndTrace, BestInv
  <1>4. CASE EndHeads
    BY <1>4 DEF EndHeads, BestInv
  <1>5. CASE Keep
    BY <1>5 DEF Keep, BestInv
  <1>6. CASE UNCHANGED vars
    BY <1>6 DEF vars, BestInv
  <1> QED
    BY <1>1, <1>2, <1>3, <1>4, <1>5, <1>6, RankBest, PickUnitBest, StartBest, StepBest,
       ScoreWalkBest, JudgeBest DEF Next

(* What no walk of a half-basin betters is its best. *)
LEMMA BestIs ==
    ASSUME Typing, NEW u, NEW b \in Seq(Cells), b = <<>> \/ Hill(terrain, opts, u, b),
           \A c \in RidgeOf(terrain, u) : Tried(terrain, opts, c, b)
    PROVE  BestScore(u) = IF b = <<>> THEN -1 ELSE ScoreOf(terrain, b)
  <1> DEFINE W(c) == WalkFrom(c, opts.channel)
             scores == {-1} \union {Score(W(c)) : c \in {d \in Ridge(u) : Len(W(d)) >= 2}}
             s == IF b = <<>> THEN -1 ELSE ScoreOf(terrain, b)
  <1>1. BestScore(u) = CHOOSE x \in scores : \A y \in scores : y <= x
    BY DEF BestScore
  <1>2. Ridge(u) = RidgeOf(terrain, u) /\ Ridge(u) \subseteq Cells /\ opts.channel \in Int
    BY RidgeInCells DEF Ridge, RidgeOf, Typing, TypeOK, Option
  <1>3. \A p : Score(p) = ScoreOf(terrain, p)
    BY DEF Score, ScoreOf
  <1>4. ScoreOf(terrain, b) \in Nat
    BY ScoreIsNat
  <1>5. ASSUME NEW c \in Ridge(u), Len(W(c)) >= 2 PROVE Score(W(c)) \in Int /\ Score(W(c)) <= s
    <2>1. PICK p \in Seq(Cells) :
              /\ IsWalk(terrain, c, opts.channel, p)
              /\ Len(p) >= 2 => b # <<>> /\ ScoreOf(terrain, p) <= ScoreOf(terrain, b)
      BY <1>2, <1>5 DEF Tried
    <2>2. W(c) = p
      BY <1>2, <1>5, <2>1, WalkUnique
    <2>3. ScoreOf(terrain, p) \in Nat
      BY ScoreIsNat
    <2> QED
      BY <1>3, <1>5, <2>1, <2>2, <2>3
  <1>6. s \in scores
    <2>1. CASE b = <<>>
      BY <2>1
    <2>2. CASE b # <<>>
      <3>1. Hill(terrain, opts, u, b)
        BY <2>2
      <3>2. IsWalk(terrain, b[1], opts.channel, b) /\ b[1] \in Ridge(u) /\ Len(b) >= 2
        <4>1. Len(b) > 1
          BY <3>1, LenProperties DEF Hill
        <4> QED
          BY <1>2, <3>1, <4>1 DEF Hill, IsWalk, Over
      <3>3. W(b[1]) = b
        BY <1>2, <3>2, WalkUnique
      <3>4. b[1] \in {d \in Ridge(u) : Len(W(d)) >= 2}
        BY <3>2, <3>3
      <3>5. Score(W(b[1])) = s
        BY <1>3, <2>2, <3>3
      <3> HIDE DEF W, s
      <3> QED
        BY <3>4, <3>5
    <2> QED
      BY <2>1, <2>2
  <1>7. s \in Int /\ -1 <= s
    BY <1>4
  <1>8. \A y \in scores : y \in Int /\ y <= s
    BY <1>5, <1>7
  <1> HIDE DEF scores, s
  <1>9. (CHOOSE x \in scores : \A y \in scores : y <= x) = s
    <2> DEFINE m == CHOOSE x \in scores : \A y \in scores : y <= x
    <2>1. m \in scores /\ \A y \in scores : y <= m
      BY <1>6, <1>8
    <2> HIDE DEF m
    <2>2. m <= s /\ s <= m /\ m \in Int
      BY <1>6, <1>8, <2>1
    <2>3. m = s
      BY <1>7, <2>2
    <2> QED
      BY <2>3 DEF m
  <1> QED
    BY <1>1, <1>9 DEF s

(* The representative of a half-basin has the score of the best walk from  *)
(* any of its divides, however the loop over them goes; a half-basin       *)
(* passed over has no walk, or none of the length a record must have.      *)
THEOREM BestCorrect == Spec => []BestOfUnit
  <1>1. ASSUME Typing, PathInv, BestInv PROVE BestOfUnit
    <2> SUFFICES ASSUME pc \in {"unit", "heads"} PROVE BestOfUnit
      BY DEF BestOfUnit
    <2>1. \A u : WalkedWhole(u) <=> Whole(terrain, u)
      BY DEF WalkedWhole, Whole, Ridge, RidgeOf
    <2>2. \A p : Score(p) = ScoreOf(terrain, p)
      BY DEF Score, ScoreOf
    <2>3. ASSUME NEW i \in 1 .. Len(lines), WalkedWhole(lines[i].unit)
          PROVE  Score(lines[i].path) = BestScore(lines[i].unit)
      <3>1. Hill(terrain, opts, lines[i].unit, lines[i].path)
        BY <1>1 DEF PathInv
      <3>2. lines[i].path \in Seq(Cells) /\ lines[i].path # <<>>
        BY <3>1 DEF Hill, Way
      <3>3. \A c \in RidgeOf(terrain, lines[i].unit) : Tried(terrain, opts, c, lines[i].path)
        BY <1>1, <2>1, <2>3 DEF BestInv, NoBetter
      <3> QED
        BY <1>1, <2>2, <3>1, <3>2, <3>3, BestIs
    <2>4. ASSUME NEW u \in {terrain.unit[c] : c \in {d \in Cells : InField(d)}} \ (todo \union {0}),
                 WalkedWhole(u)
          PROVE  \/ \E i \in 1 .. Len(lines) : lines[i].unit = u
                 \/ BestScore(u) < opts.minScore \/ BestScore(u) = -1
      <3>1. u \in HalfBasins(terrain) \ (todo \union {0})
        BY <2>4 DEF HalfBasins, InField
      <3>2. CASE Passed(terrain, opts, u)
        <4>1. PICK b \in Seq(Cells) :
                  /\ b = <<>> \/ (Hill(terrain, opts, u, b) /\ ScoreOf(terrain, b) < opts.minScore)
                  /\ NoBetter(terrain, opts, u, b)
          BY <3>2 DEF Passed
        <4>2. \A c \in RidgeOf(terrain, u) : Tried(terrain, opts, c, b)
          BY <2>1, <2>4, <4>1 DEF NoBetter
        <4>3. BestScore(u) = IF b = <<>> THEN -1 ELSE ScoreOf(terrain, b)
          BY <1>1, <4>1, <4>2, BestIs
        <4> QED
          BY <4>1, <4>3
      <3> QED
        BY <1>1, <3>1, <3>2 DEF BestInv
    <2> QED
      BY <2>3, <2>4 DEF BestOfUnit
  <1> QED
    BY InitTyping, StepTyping, InitPaths, StepsPaths, InitOrder, StepsOrder, InitBest, StepsBest,
       <1>1, PTL DEF Spec

-----------------------------------------------------------------------------
(* The heads. *)

(* The field has no cell of any half-basin: the call draws nothing. *)
Barren(t) == \A c \in Cells : t.unit[c] >= 1 => ~(t.field = NoMask \/ c \in t.field)

(* Each head is still to trace, is traced from, or its trace is known;     *)
(* later, each trace is to be judged, kept, or adds too little; and the    *)
(* call ends once all are judged, or enough are kept.                      *)
HeadInv ==
    /\ pc = "trace" =>
          \A h \in HeadsOf(terrain, opts) :
              \/ h \in starts
              \/ path # <<>> /\ path[1] = h
              \/ \E p \in Seq(Cells) : IsWalk(terrain, h, Never, p) /\ (Len(p) = 1 \/ p \in traced)
    /\ pc \in {"keep", "done"} =>
          \/ Barren(terrain)
          \/ \A h \in HeadsOf(terrain, opts) :
                \E p \in Seq(Cells) :
                    /\ IsWalk(terrain, h, Never, p)
                    /\ \/ Len(p) = 1
                       \/ p \in traced
                       \/ \E i \in 1 .. Len(draws) : draws[i] = p
                       \/ New(p, draws) < MinUnique
    /\ pc = "done" => Barren(terrain) \/ traced = {} \/ Len(draws) >= opts.maxDraws

(* No flow is concentrated to a trace. *)
LEMMA NeverQuiet ==
    ASSUME Typing, NEW p, Way(terrain, p)
    PROVE  Quiet(terrain, Never, p)
  <1>1. p \in Seq(Cells) /\ Len(p) \in Nat
    BY LenProperties DEF Way
  <1>2. ASSUME NEW k \in 2 .. Len(p) - 1 PROVE p[k] \in Cells
    <2>1. k \in 1 .. Len(p)
      BY <1>1
    <2> QED
      BY <1>1, <2>1, ElementOfSeq
  <1> QED
    BY <1>2, TerrainsAssumption DEF Quiet, Typing

(* What a path adds is a number, and no more once another draw is kept. *)
LEMMA NewIsNat ==
    ASSUME NEW p \in Seq(Cells), NEW ds
    PROVE  IsFiniteSet({i \in 1 .. Len(p) : p[i] \notin Covered(ds)}) /\ New(p, ds) \in Nat
  <1> DEFINE I == {i \in 1 .. Len(p) : p[i] \notin Covered(ds)}
  <1>1. Len(p) \in Nat
    BY LenProperties
  <1>2. IsFiniteSet(1 .. Len(p)) /\ I \subseteq 1 .. Len(p)
    BY <1>1, FS_Interval
  <1> HIDE DEF I
  <1>3. IsFiniteSet(I) /\ Cardinality(I) \in Nat
    BY <1>2, FS_Subset, FS_CardinalityType
  <1> QED
    BY <1>3 DEF New, I

LEMMA NewShrinks ==
    ASSUME NEW p \in Seq(Cells), NEW ds \in Seq(Seq(Cells)), NEW q \in Seq(Cells)
    PROVE  New(p, Append(ds, q)) <= New(p, ds)
  <1> DEFINE es == Append(ds, q)
             I == {i \in 1 .. Len(p) : p[i] \notin Covered(ds)}
             J == {i \in 1 .. Len(p) : p[i] \notin Covered(es)}
  <1>1. /\ Len(es) = Len(ds) + 1 /\ Len(ds) \in Nat
        /\ \A k \in 1 .. Len(ds) : es[k] = ds[k]
    BY AppendProperties, LenProperties
  <1>2. \A k \in 1 .. Len(ds) : k \in 1 .. Len(es)
    BY <1>1
  <1> HIDE DEF es
  <1>3. Covered(ds) \subseteq Covered(es)
    BY <1>1, <1>2 DEF Covered
  <1>4. J \subseteq I
    BY <1>3
  <1>5. IsFiniteSet(I)
    BY NewIsNat
  <1> HIDE DEF I, J
  <1>6. Cardinality(J) <= Cardinality(I)
    BY <1>4, <1>5, FS_Subset
  <1> QED
    BY <1>6 DEF New, I, J, es

LEMMA InitHeads == Init => HeadInv
  BY DEF Init, HeadInv

LEMMA RankHeads == Typing /\ Rank => HeadInv'
  <1> SUFFICES ASSUME Typing, Rank PROVE HeadInv'
    OBVIOUS
  <1>1. pc' \in {"done", "unit"} /\ (pc' = "done" => todo' = {}) /\ terrain' = terrain
    BY DEF Rank
  <1>2. ASSUME todo' = {} PROVE Barren(terrain)
    BY <1>2 DEF Rank, Barren, InField
  <1>3. pc' = "done" => Barren(terrain')
    BY <1>1, <1>2
  <1> QED
    BY <1>1, <1>3 DEF HeadInv

LEMMA HeadsHeads == Typing /\ Heads => HeadInv'
  <1> SUFFICES ASSUME Typing, Heads PROVE HeadInv'
    OBVIOUS
  <1>1. starts' = HeadsOf(terrain, opts) /\ pc' = "trace" /\ terrain' = terrain /\ opts' = opts
    BY DEF Heads, HeadsOf, ChannelMask, Flow
  <1> QED
    BY <1>1 DEF HeadInv

LEMMA StartHeads == Typing /\ HeadInv /\ Start => HeadInv'
  <1> SUFFICES ASSUME Typing, HeadInv, Start PROVE HeadInv'
    OBVIOUS
  <1>1. PICK c \in starts : path' = <<c>> /\ starts' = starts \ {c}
    BY DEF Start
  <1>2. path' # <<>> /\ path'[1] = c /\ path = <<>>
    BY <1>1 DEF Start
  <1>3. UNCHANGED <<terrain, opts, pc, traced, draws>> /\ pc \notin {"keep", "done"}
    BY DEF Start
  <1> QED
    BY <1>1, <1>2, <1>3 DEF HeadInv

LEMMA StepHeads == Typing /\ HeadInv /\ Step => HeadInv'
  <1> SUFFICES ASSUME Typing, HeadInv, Step PROVE HeadInv'
    OBVIOUS
  <1>1. PICK d \in Onward(path) : path' = Append(path, d)
    BY DEF Step
  <1>2. path \in Seq(Cells) /\ path # <<>> /\ d \in Cells
    BY <1>1 DEF Step, Onward, Typing, TypeOK
  <1>3. path' # <<>> /\ path'[1] = path[1]
    <2>1. 1 \in 1 .. Len(path)
      BY <1>2, EmptySeq, LenProperties
    <2> QED
      BY <1>1, <1>2, <2>1, AppendProperties
  <1>4. UNCHANGED <<terrain, opts, pc, starts, traced, draws>> /\ pc \notin {"keep", "done"}
    BY DEF Step
  <1> QED
    BY <1>2, <1>3, <1>4 DEF HeadInv

LEMMA EndTraceHeads == Typing /\ PathInv /\ HeadInv /\ EndTrace => HeadInv'
  <1> SUFFICES ASSUME Typing, PathInv, HeadInv, EndTrace PROVE HeadInv'
    OBVIOUS
  <1>1. /\ Way(terrain, path) /\ path # <<>> /\ Stops(path, Threshold) /\ Threshold = Never
        /\ path \in Seq(Cells) /\ Len(path) \in Nat \ {0}
    BY LenProperties, EmptySeq DEF EndTrace, PathInv, Threshold, Way
  <1>2. Stuck(terrain, path) \/ Len(path) = MaxSteps + 1
    BY <1>1, StopFacts, NeverReached
  <1>3. IsWalk(terrain, path[1], Never, path)
    BY <1>1, <1>2, NeverQuiet DEF IsWalk, Over
  <1>4. traced' = IF Len(path) >= 2 THEN traced \union {path} ELSE traced
    BY DEF EndTrace
  <1>5. traced \subseteq traced' /\ (Len(path) = 1 \/ path \in traced')
    <2>1. Len(path) = 1 \/ Len(path) >= 2
      <3>1. Len(path) \in Nat \ {0}
        BY <1>1, Zenon
      <3>2. \A n \in Nat \ {0} : n = 1 \/ n >= 2
        OBVIOUS
      <3> QED
        BY <3>1, <3>2, Zenon
    <2>2. traced \subseteq traced'
      BY <1>4, Zenon
    <2>3. Len(path) >= 2 => path \in traced'
      BY <1>4, Zenon
    <2> QED
      BY <2>1, <2>2, <2>3
  <1>6. UNCHANGED <<terrain, opts, pc, starts, draws>> /\ pc = "trace"
    BY DEF EndTrace
  <1>7. ASSUME NEW h \in HeadsOf(terrain, opts)
        PROVE  \/ h \in starts
               \/ \E p \in Seq(Cells) : IsWalk(terrain, h, Never, p) /\ (Len(p) = 1 \/ p \in traced')
    BY <1>1, <1>3, <1>5, <1>6 DEF HeadInv
  <1> QED
    BY <1>6, <1>7 DEF HeadInv

LEMMA EndHeadsHeads == Typing /\ HeadInv /\ EndHeads => HeadInv'
  <1> SUFFICES ASSUME Typing, HeadInv, EndHeads PROVE HeadInv'
    OBVIOUS
  <1>1. /\ pc = "trace" /\ path = <<>> /\ starts = {}
        /\ pc' = IF traced = {} THEN "done" ELSE "keep"
        /\ UNCHANGED <<terrain, opts, traced, draws>>
    BY DEF EndHeads
  <1>2. ASSUME NEW h \in HeadsOf(terrain, opts)
        PROVE  \E p \in Seq(Cells) : IsWalk(terrain, h, Never, p) /\ (Len(p) = 1 \/ p \in traced)
    BY <1>1 DEF HeadInv
  <1> QED
    BY <1>1, <1>2 DEF HeadInv

LEMMA KeepHeads == Typing /\ HeadInv /\ Keep => HeadInv'
  <1> SUFFICES ASSUME Typing, HeadInv, Keep PROVE HeadInv'
    OBVIOUS
  <1>1. PICK p \in traced :
            /\ draws' = IF New(p, draws) >= MinUnique THEN Append(draws, p) ELSE draws
            /\ traced' = traced \ {p}
            /\ pc' = IF Len(draws') >= opts.maxDraws \/ traced' = {} THEN "done" ELSE "keep"
    BY DEF Keep
  <1>2. /\ draws \in Seq(Seq(Cells)) /\ p \in Seq(Cells) /\ MinUnique \in Int /\ MinUnique' = MinUnique
        /\ pc = "keep" /\ UNCHANGED <<terrain, opts>>
    BY <1>1 DEF Keep, Typing, TypeOK, MinUnique, Option
  <1>3. ASSUME NEW q \in Seq(Cells) PROVE New(q, draws') <= New(q, draws) /\ New(q, draws') \in Nat /\ New(q, draws) \in Nat
    <2>1. New(q, draws) \in Nat /\ New(q, draws') \in Nat
      BY NewIsNat
    <2>2. CASE draws' = draws
      BY <2>1, <2>2
    <2>3. CASE draws' = Append(draws, p)
      <3>1. New(q, Append(draws, p)) <= New(q, draws)
        BY <1>2, NewShrinks
      <3> QED
        BY <2>1, <2>3, <3>1
    <2> QED
      BY <1>1, <2>2, <2>3
  <1>4. \/ draws' = draws /\ New(p, draws') < MinUnique
        \/ /\ Len(draws') = Len(draws) + 1 /\ Len(draws) \in Nat /\ draws'[Len(draws) + 1] = p
           /\ \A k \in 1 .. Len(draws) : draws'[k] = draws[k]
    <2>1. CASE New(p, draws) >= MinUnique
      BY <1>1, <1>2, <2>1, AppendProperties, LenProperties
    <2>2. CASE ~(New(p, draws) >= MinUnique)
      BY <1>1, <1>2, <1>3, <2>2
    <2> QED
      BY <2>1, <2>2
  <1>5. ASSUME NEW q, \E i \in 1 .. Len(draws) : draws[i] = q
        PROVE  \E i \in 1 .. Len(draws') : draws'[i] = q
    <2>1. CASE draws' = draws
      BY <1>5, <2>1
    <2>2. CASE /\ Len(draws') = Len(draws) + 1 /\ Len(draws) \in Nat
               /\ \A k \in 1 .. Len(draws) : draws'[k] = draws[k]
      <3>1. \A k \in 1 .. Len(draws) : k \in 1 .. Len(draws')
        BY <2>2
      <3> QED
        BY <1>5, <2>2, <3>1
    <2> QED
      BY <1>4, <2>1, <2>2
  <1>6. (\E i \in 1 .. Len(draws') : draws'[i] = p) \/ New(p, draws') < MinUnique
    <2>1. Len(draws) \in Nat /\ Len(draws') = Len(draws) + 1 => Len(draws) + 1 \in 1 .. Len(draws')
      OBVIOUS
    <2> QED
      BY <1>4, <2>1
  <1>7. ASSUME NEW q \in Seq(Cells),
               \/ Len(q) = 1
               \/ q \in traced
               \/ \E i \in 1 .. Len(draws) : draws[i] = q
               \/ New(q, draws) < MinUnique
        PROVE  \/ Len(q) = 1
               \/ q \in traced'
               \/ \E i \in 1 .. Len(draws') : draws'[i] = q
               \/ New(q, draws') < MinUnique
    <2>1. CASE q \in traced
      BY <1>1, <1>6, <2>1
    <2>2. CASE New(q, draws) < MinUnique
      BY <1>2, <1>3, <2>2
    <2> QED
      BY <1>5, <1>7, <2>1, <2>2
  <1>8. \/ Barren(terrain)
        \/ \A h \in HeadsOf(terrain, opts) :
              \E q \in Seq(Cells) :
                  /\ IsWalk(terrain, h, Never, q)
                  /\ \/ Len(q) = 1
                     \/ q \in traced'
                     \/ \E i \in 1 .. Len(draws') : draws'[i] = q
                     \/ New(q, draws') < MinUnique
    BY <1>2, <1>7 DEF HeadInv
  <1>9. pc' # "trace" /\ (pc' = "done" => traced' = {} \/ Len(draws') >= opts.maxDraws)
    BY <1>1
  <1> QED
    BY <1>2, <1>8, <1>9 DEF HeadInv

LEMMA StepsHeads == Typing /\ PathInv /\ HeadInv /\ [Next]_vars => HeadInv'
  <1> SUFFICES ASSUME Typing, PathInv, HeadInv, [Next]_vars PROVE HeadInv'
    OBVIOUS
  <1>1. CASE PickUnit
    <2>1. pc' \in {"unit", "walk"}
      BY <1>1 DEF PickUnit
    <2> QED
      BY <2>1 DEF HeadInv
  <1>2. CASE ScoreWalk
    BY <1>2 DEF ScoreWalk, HeadInv
  <1>3. CASE Judge
    BY <1>3 DEF Judge, HeadInv
  <1>4. CASE EndUnits
    BY <1>4 DEF EndUnits, HeadInv
  <1>5. CASE UNCHANGED vars
    BY <1>5 DEF vars, HeadInv, MinUnique
  <1> QED
    BY <1>1, <1>2, <1>3, <1>4, <1>5, RankHeads, HeadsHeads, StartHeads, StepHeads, EndTraceHeads,
       EndHeadsHeads, KeepHeads DEF Next

(* While there is room for draws, no channel head is lost: its trace, to   *)
(* where the water ends, is a draw, or is one cell, or has too little      *)
(* channel outside the corridors of the draws.                             *)
THEOREM NoneLost == Spec => []NoDrawLost
  <1>1. ASSUME Typing, HeadInv PROVE NoDrawLost
    <2> SUFFICES ASSUME pc = "done", Len(draws) < opts.maxDraws, ~Barren(terrain),
                        NEW h \in ChannelHeads(terrain, ChannelMask)
                 PROVE  \/ \E i \in 1 .. Len(draws) : draws[i] = WalkFrom(h, Never)
                        \/ Len(WalkFrom(h, Never)) = 1
                        \/ New(WalkFrom(h, Never), draws) < MinUnique
      BY DEF NoDrawLost, Barren, InField
    <2>1. h \in HeadsOf(terrain, opts) /\ h \in Cells /\ Never \in Int
      BY HeadsInCells, TerrainsAssumption DEF HeadsOf, ChannelMask, Flow
    <2>2. traced = {}
      <3>1. Len(draws) \in Nat /\ opts.maxDraws \in Int
        BY <1>1, LenProperties DEF Typing, TypeOK, Option
      <3> QED
        BY <1>1, <3>1 DEF HeadInv
    <2>3. PICK p \in Seq(Cells) :
              /\ IsWalk(terrain, h, Never, p)
              /\ \/ Len(p) = 1
                 \/ \E i \in 1 .. Len(draws) : draws[i] = p
                 \/ New(p, draws) < MinUnique
      BY <1>1, <2>1, <2>2 DEF HeadInv
    <2>4. WalkFrom(h, Never) = p
      BY <1>1, <2>1, <2>3, WalkUnique
    <2> QED
      BY <2>3, <2>4
  <1> QED
    BY InitTyping, StepTyping, InitPaths, StepsPaths, InitHeads, StepsHeads, <1>1, PTL DEF Spec

-----------------------------------------------------------------------------
(* The walks made for a half-basin. *)

(* The place of a cell among those of S, in row-major order. *)
PlaceIn(S, c) == Cardinality({d \in S : Earlier(d, c)})

LEMMA PlaceBelow ==
    ASSUME NEW S \in SUBSET Cells, NEW c \in S
    PROVE  PlaceIn(S, c) \in 0 .. Cardinality(S) - 1
  <1> DEFINE P == {d \in S : Earlier(d, c)}
  <1>1. c[1] \in Int /\ c[2] \in Int
    BY DEF Cells
  <1>2. P \in SUBSET S /\ c \notin P
    BY <1>1 DEF Earlier
  <1> HIDE DEF P
  <1>3. IsFiniteSet(S) /\ Cardinality(S) \in Nat /\ Cardinality(P) \in Nat
    BY <1>2, CellsFinite, FS_Subset, FS_CardinalityType
  <1>4. Cardinality(P) <= Cardinality(S) /\ Cardinality(P) # Cardinality(S)
    BY <1>2, <1>3, FS_Subset
  <1> QED
    BY <1>3, <1>4 DEF PlaceIn, P

LEMMA PlaceRises ==
    ASSUME NEW S \in SUBSET Cells, NEW c \in S, NEW d \in S, Earlier(c, d)
    PROVE  PlaceIn(S, c) < PlaceIn(S, d)
  <1> DEFINE P == {e \in S : Earlier(e, c)}
             Q == {e \in S : Earlier(e, d)}
  <1>1. \A e \in Cells : e[1] \in Int /\ e[2] \in Int
    BY DEF Cells
  <1>2. P \in SUBSET Q
    <2>1. ASSUME NEW e \in S, Earlier(e, c) PROVE Earlier(e, d)
      <3>1. e[1] \in Int /\ e[2] \in Int /\ c[1] \in Int /\ c[2] \in Int /\ d[1] \in Int /\ d[2] \in Int
        BY <1>1
      <3> QED
        BY <2>1, <3>1 DEF Earlier
    <2> QED
      BY <2>1
  <1>3. c \in Q /\ c \notin P
    BY <1>1 DEF Earlier
  <1>4. Q \in SUBSET S
    OBVIOUS
  <1> HIDE DEF P, Q
  <1>5. IsFiniteSet(S)
    BY CellsFinite, FS_Subset
  <1>6. IsFiniteSet(Q)
    BY <1>4, <1>5, FS_Subset
  <1>7. Cardinality(P) \in Nat /\ Cardinality(Q) \in Nat
    BY <1>2, <1>6, FS_Subset, FS_CardinalityType
  <1>8. Cardinality(P) <= Cardinality(Q) /\ Cardinality(P) # Cardinality(Q)
    BY <1>2, <1>3, <1>6, FS_Subset
  <1> QED
    BY <1>7, <1>8 DEF PlaceIn, P, Q

LEMMA PlaceApart ==
    ASSUME NEW S \in SUBSET Cells, NEW c \in S, NEW d \in S, PlaceIn(S, c) = PlaceIn(S, d)
    PROVE  c = d
  <1>1. PlaceIn(S, c) \in Int /\ PlaceIn(S, d) \in Int
    BY PlaceBelow
  <1>2. ~Earlier(c, d) /\ ~Earlier(d, c)
    BY <1>1, PlaceRises
  <1>3. c \in Cells /\ d \in Cells
    OBVIOUS
  <1> QED
    BY <1>2, <1>3 DEF Earlier, Cells

LEMMA PlaceOnto ==
    ASSUME NEW S \in SUBSET Cells, NEW i \in 0 .. Cardinality(S) - 1
    PROVE  \E c \in S : PlaceIn(S, c) = i
  <1> DEFINE T == 0 .. Cardinality(S) - 1
             f == [c \in S |-> PlaceIn(S, c)]
  <1>1. IsFiniteSet(S) /\ Cardinality(S) \in Nat
    BY CellsFinite, FS_Subset, FS_CardinalityType
  <1>2. IsFiniteSet(T) /\ Cardinality(T) = Cardinality(S)
    BY <1>1, FS_Interval
  <1>3. f \in [S -> T] /\ \A c, d \in S : f[c] = f[d] => c = d
    BY PlaceBelow, PlaceApart
  <1>4. \A c \in S : f[c] = PlaceIn(S, c)
    OBVIOUS
  <1> HIDE DEF f
  <1>5. i \in T
    OBVIOUS
  <1> HIDE DEF T
  <1>6. f \in Injection(S, T)
    BY <1>3, Fun_IsInj
  <1>7. f \in Surjection(S, T)
    BY <1>2, <1>6, FS_Injection
  <1> QED
    BY <1>4, <1>5, <1>7, Fun_SurjectionProperties

(* A sample has as many cells as the cap, if there are so many, and fewer  *)
(* than twice as many.                                                     *)
LEMMA SampleBounds ==
    ASSUME NEW S \in SUBSET Cells
    PROVE  /\ Cardinality(Sampled(S)) < 2 * RidgeCap
           /\ Cardinality(Sampled(S)) < RidgeCap => Sampled(S) = S
  <1> DEFINE n == Cardinality(S)
             C == Sampled(S)
  <1>1. IsFiniteSet(S) /\ n \in Nat /\ RidgeCap \in Nat \ {0}
    BY CellsFinite, FS_Subset, FS_CardinalityType, TerrainsAssumption
  <1>2. C \in SUBSET S /\ IsFiniteSet(C) /\ Cardinality(C) \in Nat
    BY <1>1, SampledInRidge, FS_Subset, FS_CardinalityType
  <1>3. CASE n < 2 * RidgeCap
    BY <1>3, SampledWhole
  <1>4. CASE ~(n < 2 * RidgeCap)
    <2> DEFINE k == n \div RidgeCap
    <2>1. n > RidgeCap /\ n >= 2 * RidgeCap
      BY <1>1, <1>4
    <2>2. k \in Nat /\ RidgeCap * k <= n /\ n < RidgeCap * k + RidgeCap
      BY <1>1, Quotient
    <2>3. C = {c \in S : PlaceIn(S, c) % k = 0}
      BY <2>1 DEF Sampled, PlaceIn
    <2> HIDE DEF n, k, C
    <2>4. k # 0
      BY <1>1, <2>1, <2>2
    <2>5. \A c \in S : PlaceIn(S, c) \in 0 .. n - 1
      BY PlaceBelow DEF n
    <2>6. Cardinality(C) < 2 * RidgeCap
      <3> DEFINE T == 0 .. 2 * RidgeCap - 2
                 f == [c \in C |-> PlaceIn(S, c) \div k]
      <3>1. ASSUME NEW c \in C
            PROVE  PlaceIn(S, c) \div k \in T /\ PlaceIn(S, c) = k * (PlaceIn(S, c) \div k)
        <4> DEFINE x == PlaceIn(S, c)
                   q == x \div k
        <4>1. x \in Nat /\ x <= n - 1 /\ x % k = 0
          BY <1>1, <1>2, <2>3, <2>5
        <4> HIDE DEF x
        <4>2. q \in Nat /\ x = k * q
          BY <2>2, <2>4, <4>1
        <4> HIDE DEF q
        <4>3. k * q < k * RidgeCap + RidgeCap - 1
          BY <1>1, <2>2, <4>1, <4>2
        <4>4. ASSUME q >= 2 * RidgeCap - 1 PROVE FALSE
          <5>1. k * q >= k * (2 * RidgeCap - 1)
            BY <1>1, <2>2, <4>2, <4>4
          <5>2. k * (2 * RidgeCap - 1) = k * RidgeCap + k * (RidgeCap - 1)
            BY <1>1, <2>2
          <5>3. k * (RidgeCap - 1) >= RidgeCap - 1
            BY <1>1, <2>2, <2>4
          <5> QED
            BY <1>1, <2>2, <4>2, <4>3, <5>1, <5>2, <5>3
        <4>5. q <= 2 * RidgeCap - 2
          BY <1>1, <4>2, <4>4
        <4> QED
          BY <1>1, <4>2, <4>5 DEF x, q
      <3>2. f \in [C -> T]
        BY <3>1
      <3>3. ASSUME NEW c \in C, NEW d \in C, f[c] = f[d] PROVE c = d
        <4>1. PlaceIn(S, c) \div k = PlaceIn(S, d) \div k
          BY <3>3
        <4>2. PlaceIn(S, c) = PlaceIn(S, d)
          BY <3>1, <4>1
        <4> QED
          BY <1>2, <4>2, PlaceApart
      <3>4. IsFiniteSet(T) /\ Cardinality(T) = 2 * RidgeCap - 1
        BY <1>1, FS_Interval
      <3> HIDE DEF T, f
      <3>5. f \in Injection(C, T)
        BY <3>2, <3>3, Fun_IsInj
      <3>6. Cardinality(C) <= Cardinality(T)
        BY <3>4, <3>5, FS_Injection
      <3> QED
        BY <1>1, <1>2, <3>4, <3>6
    <2>7. Cardinality(C) >= RidgeCap
      <3> DEFINE T == 0 .. RidgeCap - 1
                 f == [j \in T |-> CHOOSE c \in C : PlaceIn(S, c) = k * j]
      <3>1. ASSUME NEW j \in T PROVE f[j] \in C /\ PlaceIn(S, f[j]) = k * j
        <4>1. k * j \in Nat /\ k * j <= k * (RidgeCap - 1) /\ k * (RidgeCap - 1) = RidgeCap * k - k
          BY <1>1, <2>2, <3>1
        <4>2. k * j \in 0 .. n - 1
          BY <1>1, <2>2, <2>4, <4>1
        <4>3. PICK c \in S : PlaceIn(S, c) = k * j
          BY <4>2, PlaceOnto DEF n
        <4>4. (k * j) % k = 0
          BY <1>1, <2>2, <2>4, <3>1
        <4>5. c \in C
          BY <2>3, <4>3, <4>4
        <4> QED
          BY <4>3, <4>5
      <3>2. f \in [T -> C]
        BY <3>1
      <3>3. ASSUME NEW i \in T, NEW j \in T, f[i] = f[j] PROVE i = j
        <4>1. k * i = k * j
          BY <3>1, <3>3
        <4> QED
          BY <1>1, <2>2, <2>4, <4>1
      <3>4. IsFiniteSet(T) /\ Cardinality(T) = RidgeCap
        BY <1>1, FS_Interval
      <3> HIDE DEF T, f
      <3>5. f \in Injection(T, C)
        BY <3>2, <3>3, Fun_IsInj
      <3>6. Cardinality(T) <= Cardinality(C)
        BY <1>2, <3>5, FS_Injection
      <3> QED
        BY <3>4, <3>6
    <2> QED
      BY <1>1, <1>2, <2>6, <2>7 DEF C
  <1> QED
    BY <1>3, <1>4

(* However many divides a half-basin has, fewer walks than twice the cap   *)
(* are begun for it; and if fewer than the cap, then from every divide.    *)
THEOREM WalksAreBounded == Spec => WalksBounded
  <1>1. ASSUME PickUnit
        PROVE  LET n == Cardinality(starts')
               IN  n < 2 * RidgeCap /\ (n < RidgeCap => starts' = Ridge(unit'))
    <2>1. PICK u \in todo : unit' = u /\ starts' = Sampled(Ridge(u))
      BY <1>1 DEF PickUnit
    <2>2. Ridge(u) \in SUBSET Cells
      BY DEF Ridge, Divides
    <2> QED
      BY <2>1, <2>2, SampleBounds
  <1>2. ASSUME [Next]_vars, pc = "unit", pc' = "walk" PROVE PickUnit
    BY <1>2 DEF Next, vars, Rank, PickUnit, Start, Step, ScoreWalk, Judge, EndUnits, Heads, EndTrace, EndHeads, Keep
  <1>3. [Next]_vars => [pc = "unit" /\ pc' = "walk" =>
          LET n == Cardinality(starts')
          IN  n < 2 * RidgeCap /\ (n < RidgeCap => starts' = Ridge(unit'))]_vars
    BY <1>1, <1>2
  <1> QED
    BY <1>3, PTL DEF Spec, WalksBounded

-----------------------------------------------------------------------------
(* That a call ends: in every state before its end one of its loops can    *)
(* take a turn, and with every turn the call comes closer to the end. What *)
(* is left of Ends is that the turn is taken, which is its fairness.       *)

(* The loops, the last first. *)
Stage ==
    CASE pc = "rank" -> 5
      [] pc \in {"unit", "walk"} -> 4
      [] pc = "heads" -> 3
      [] pc = "trace" -> 2
      [] pc = "keep" -> 1
      [] OTHER -> 0

(* Half-basins to come, walks to begin before this one's record is judged, *)
(* turns left to the walk, or traces to be judged.                         *)
Waiting == Cardinality(todo)
Beginning == Cardinality(starts) + (IF pc = "walk" THEN 1 ELSE 0)
Left ==
    IF pc = "keep" THEN Cardinality(traced)
    ELSE IF path = <<>> THEN 0 ELSE MaxSteps + 2 - Len(path)

Descends ==
    \/ Stage' < Stage
    \/ Stage' = Stage /\ Waiting' < Waiting
    \/ Stage' = Stage /\ Waiting' = Waiting /\ Beginning' < Beginning
    \/ Stage' = Stage /\ Waiting' = Waiting /\ Beginning' = Beginning /\ Left' < Left

Measured == Stage \in Nat /\ Waiting \in Nat /\ Beginning \in Nat /\ Left \in Nat

(* One of the guards is open; those of Step and of ScoreWalk or EndTrace   *)
(* are each other's negation.                                              *)
Ready ==
    \/ pc \in {"rank", "heads"}
    \/ /\ pc = "unit"
       /\ \/ Len(lines) >= opts.maxLines \/ todo = {}
          \/ \E u \in todo : \A v \in todo : Area(v) <= Area(u)
    \/ /\ pc \in {"walk", "trace"}
       /\ path # <<>> \/ starts = {} \/ \E c \in starts : \A d \in starts : ~Earlier(d, c)
    \/ pc = "keep" /\ \E p \in traced : \A q \in traced : Leads(p, q)

EndInv ==
    /\ IsFiniteSet(todo)
    /\ IsFiniteSet(traced)
    /\ pc = "keep" => traced # {}

(* Some half-basin is the widest, some cell the first, some trace the one  *)
(* that leads.                                                             *)
LEMMA WidestExists ==
    ASSUME NEW t, NEW S, S # {}
    PROVE  \E u \in S : \A v \in S : AreaOf(t, v) <= AreaOf(t, u)
  <1> DEFINE n == Cardinality(Cells)
             G == {n - AreaOf(t, u) : u \in S}
  <1>1. ASSUME NEW u PROVE AreaOf(t, u) \in Nat /\ AreaOf(t, u) <= n /\ n \in Nat
    BY CellsFinite, AreaIsNat, FS_Subset, FS_CardinalityType DEF AreaOf
  <1> HIDE DEF n
  <1>2. G \in SUBSET Nat /\ G # {}
    BY <1>1
  <1>3. PICK g \in G : \A h \in G : g <= h
    BY <1>2, Least
  <1>4. PICK u \in S : g = n - AreaOf(t, u)
    BY <1>3
  <1>5. ASSUME NEW v \in S PROVE AreaOf(t, v) <= AreaOf(t, u)
    <2>1. n - AreaOf(t, v) \in G
      OBVIOUS
    <2>2. g <= n - AreaOf(t, v)
      BY <1>3, <2>1
    <2> QED
      BY <1>1, <1>4, <2>2
  <1> QED
    BY <1>5

LEMMA EarliestExists ==
    ASSUME NEW S \in SUBSET Cells, S # {}
    PROVE  \E c \in S : \A d \in S : ~Earlier(d, c)
  <1>1. ASSUME NEW c \in Cells PROVE c[1] \in Nat /\ c[2] \in Nat
    BY GridAssumption DEF Cells
  <1> DEFINE R == {c[1] : c \in S}
  <1>2. R \in SUBSET Nat /\ R # {}
    BY <1>1
  <1>3. PICK r \in R : \A k \in R : r <= k
    BY <1>2, Least
  <1> DEFINE C == {c[2] : c \in {d \in S : d[1] = r}}
  <1>4. C \in SUBSET Nat /\ C # {}
    BY <1>1, <1>3
  <1>5. PICK k \in C : \A j \in C : k <= j
    BY <1>4, Least
  <1>6. PICK c \in S : c[1] = r /\ c[2] = k
    BY <1>5
  <1>7. ASSUME NEW d \in S, Earlier(d, c) PROVE FALSE
    <2>1. d[1] \in R /\ d[1] \in Nat /\ d[2] \in Nat /\ c[1] \in Nat /\ c[2] \in Nat
      BY <1>1
    <2>2. r <= d[1]
      BY <1>3, <2>1
    <2>3. d[1] = r /\ d[2] < k
      BY <1>6, <1>7, <2>1, <2>2 DEF Earlier
    <2>4. k <= d[2]
      BY <1>5, <2>3
    <2> QED
      BY <1>6, <2>1, <2>3, <2>4
  <1> QED
    BY <1>7

LEMMA LeaderExists ==
    ASSUME NEW t, NEW S, S # {}, \A p \in S : Way(t, p)
    PROVE  \E p \in S : \A q \in S : Leads(p, q)
  <1>1. ASSUME NEW p \in S
        PROVE  Len(p) \in Nat /\ Len(p) <= MaxSteps + 1 /\ MaxSteps \in Nat /\ p[1] \in Cells
    <2>1. p \in Seq(Cells) /\ p # <<>> /\ Len(p) <= MaxSteps + 1
      BY DEF Way
    <2>2. Len(p) \in Nat /\ Len(p) # 0
      BY <2>1, EmptySeq, LenProperties
    <2>3. p[1] \in Cells
      BY <2>1, <2>2, ElementOfSeq
    <2> QED
      BY <2>1, <2>2, <2>3, TerrainsAssumption
  <1> DEFINE G == {MaxSteps + 1 - Len(p) : p \in S}
  <1>2. G \in SUBSET Nat /\ G # {}
    BY <1>1
  <1>3. PICK g \in G : \A h \in G : g <= h
    BY <1>2, Least
  <1>4. PICK l \in S : g = MaxSteps + 1 - Len(l)
    BY <1>3
  <1>5. ASSUME NEW q \in S PROVE Len(q) <= Len(l)
    <2>1. MaxSteps + 1 - Len(q) \in G
      OBVIOUS
    <2>2. g <= MaxSteps + 1 - Len(q)
      BY <1>3, <2>1
    <2> QED
      BY <1>1, <1>4, <2>2
  <1> DEFINE L == {q \in S : Len(q) = Len(l)}
             H == {q[1] : q \in L}
  <1>6. H \in SUBSET Cells /\ H # {}
    BY <1>1
  <1>7. PICK h \in H : \A d \in H : ~Earlier(d, h)
    BY <1>6, EarliestExists
  <1>8. PICK p \in L : p[1] = h
    BY <1>7
  <1>9. ASSUME NEW q \in S PROVE Leads(p, q)
    <2>1. CASE Len(q) = Len(l)
      <3>1. q[1] \in H
        BY <2>1
      <3>2. ~Earlier(q[1], p[1])
        BY <1>7, <1>8, <3>1
      <3> QED
        BY <2>1, <3>2, <1>8 DEF Leads
    <2>2. CASE Len(q) # Len(l)
      BY <2>2, <1>1, <1>5, <1>8 DEF Leads
    <2> QED
      BY <2>1, <2>2
  <1> QED
    BY <1>8, <1>9

LEMMA InitEnd == Init => EndInv
  BY FS_EmptySet DEF Init, EndInv

LEMMA RankEnd == Typing /\ EndInv /\ Rank => EndInv'
  <1> SUFFICES ASSUME Typing, EndInv, Rank PROVE EndInv'
    OBVIOUS
  <1> DEFINE D == {d \in Cells : terrain.unit[d] >= 1 /\ InField(d)}
             f == [c \in D |-> terrain.unit[c]]
  <1>1. IsFiniteSet(D)
    BY CellsFinite, FS_Subset
  <1>2. todo' = {terrain.unit[c] : c \in D}
    BY DEF Rank
  <1> HIDE DEF D
  <1>3. f \in [D -> todo'] /\ \A u \in todo' : \E c \in D : f[c] = u
    BY <1>2
  <1>4. f \in Surjection(D, todo')
    BY <1>3, Fun_IsSurj
  <1>5. IsFiniteSet(todo')
    BY <1>1, <1>4, FS_Surjection
  <1>6. pc' # "keep" /\ traced' = traced
    BY DEF Rank
  <1> QED
    BY <1>5, <1>6 DEF EndInv

LEMMA StepsEnd == Typing /\ EndInv /\ [Next]_vars => EndInv'
  <1> SUFFICES ASSUME Typing, EndInv, [Next]_vars PROVE EndInv'
    OBVIOUS
  <1>1. CASE PickUnit
    <2>1. PICK u \in todo : todo' = todo \ {u}
      BY <1>1 DEF PickUnit
    <2>2. IsFiniteSet(todo')
      BY <2>1, FS_RemoveElement DEF EndInv
    <2>3. pc' # "keep" /\ traced' = traced
      BY <1>1 DEF PickUnit
    <2> QED
      BY <2>2, <2>3 DEF EndInv
  <1>2. CASE Start \/ Step \/ ScoreWalk
    BY <1>2 DEF Start, Step, ScoreWalk, EndInv
  <1>3. CASE Judge \/ EndUnits \/ Heads
    BY <1>3 DEF Judge, EndUnits, Heads, EndInv
  <1>4. CASE EndTrace
    <2>1. IsFiniteSet(traced \union {path})
      BY FS_AddElement DEF EndInv
    <2> QED
      BY <1>4, <2>1 DEF EndTrace, EndInv
  <1>5. CASE EndHeads
    BY <1>5 DEF EndHeads, EndInv
  <1>6. CASE Keep
    <2>1. PICK p \in traced : /\ traced' = traced \ {p}
                              /\ pc' = IF Len(draws') >= opts.maxDraws \/ traced' = {}
                                         THEN "done" ELSE "keep"
      BY <1>6 DEF Keep
    <2>2. IsFiniteSet(traced')
      BY <2>1, FS_RemoveElement DEF EndInv
    <2>3. todo' = todo
      BY <1>6 DEF Keep
    <2> QED
      BY <2>1, <2>2, <2>3 DEF EndInv
  <1>7. CASE UNCHANGED vars
    BY <1>7 DEF vars, EndInv
  <1> QED
    BY <1>1, <1>2, <1>3, <1>4, <1>5, <1>6, <1>7, RankEnd DEF Next

LEMMA MeasuredAll == Typing /\ PathInv /\ EndInv => Measured
  <1> SUFFICES ASSUME Typing, PathInv, EndInv PROVE Measured
    OBVIOUS
  <1>1. Stage \in Nat
    BY DEF Stage
  <1>2. Waiting \in Nat
    BY FS_CardinalityType DEF Waiting, EndInv
  <1>3. IsFiniteSet(starts)
    BY CellsFinite, FS_Subset DEF Typing, TypeOK
  <1>4. Beginning \in Nat
    BY <1>3, FS_CardinalityType DEF Beginning
  <1>5. Cardinality(traced) \in Nat
    BY FS_CardinalityType DEF EndInv
  <1>6. ASSUME path # <<>> PROVE MaxSteps + 2 - Len(path) \in Nat
    <2>1. path \in Seq(Cells) /\ Len(path) <= MaxSteps + 1
      BY <1>6 DEF PathInv, Way
    <2> QED
      BY <2>1, LenProperties, TerrainsAssumption
  <1>7. Left \in Nat
    BY <1>5, <1>6 DEF Left
  <1> QED
    BY <1>1, <1>2, <1>4, <1>7 DEF Measured

(* What each turn brings down. *)
LEMMA PickUnitDescends == Typing /\ EndInv /\ PickUnit => Descends
  <1> SUFFICES ASSUME Typing, EndInv, PickUnit PROVE Descends
    OBVIOUS
  <1>1. Stage = 4 /\ Stage' = 4
    BY DEF PickUnit, Stage
  <1>2. PICK u \in todo : todo' = todo \ {u}
    BY DEF PickUnit
  <1>3. Waiting \in Nat /\ Waiting' = Waiting - 1
    BY <1>2, FS_RemoveElement, FS_CardinalityType DEF Waiting, EndInv
  <1> QED
    BY <1>1, <1>3 DEF Descends

LEMMA StartDescends == Typing /\ Start => Descends
  <1> SUFFICES ASSUME Typing, Start PROVE Descends
    OBVIOUS
  <1>1. Stage' = Stage /\ Waiting' = Waiting /\ pc' = pc
    BY DEF Start, Stage, Waiting
  <1>2. PICK c \in starts : starts' = starts \ {c}
    BY DEF Start
  <1>3. IsFiniteSet(starts)
    BY CellsFinite, FS_Subset DEF Typing, TypeOK
  <1>4. Cardinality(starts) \in Nat /\ Cardinality(starts') = Cardinality(starts) - 1
    BY <1>2, <1>3, FS_RemoveElement, FS_CardinalityType
  <1>5. Beginning' < Beginning
    BY <1>1, <1>4 DEF Beginning
  <1> QED
    BY <1>1, <1>5 DEF Descends

LEMMA StepDescends == Typing /\ PathInv /\ Step => Descends
  <1> SUFFICES ASSUME Typing, PathInv, Step PROVE Descends
    OBVIOUS
  <1>1. Stage' = Stage /\ Waiting' = Waiting /\ Beginning' = Beginning
    BY DEF Step, Stage, Waiting, Beginning
  <1>2. PICK d \in Cells : path' = Append(path, d)
    BY DEF Step, Onward
  <1>3. path \in Seq(Cells) /\ path # <<>> /\ Len(path) \in Nat /\ MaxSteps \in Nat
    BY LenProperties, TerrainsAssumption DEF Typing, TypeOK, Step
  <1>4. path' \in Seq(Cells) /\ Len(path') = Len(path) + 1
    BY <1>2, <1>3, AppendProperties
  <1>5. path' # <<>>
    BY <1>3, <1>4, EmptySeq
  <1>6. pc # "keep" /\ pc' # "keep"
    BY DEF Step
  <1>7. Left = MaxSteps + 2 - Len(path) /\ Left' = MaxSteps + 2 - Len(path')
    BY <1>3, <1>5, <1>6 DEF Left
  <1>8. Left' < Left
    BY <1>3, <1>4, <1>7
  <1> QED
    BY <1>1, <1>8 DEF Descends

LEMMA WalkEndDescends == Typing /\ PathInv /\ (ScoreWalk \/ EndTrace) => Descends
  <1> SUFFICES ASSUME Typing, PathInv, ScoreWalk \/ EndTrace PROVE Descends
    OBVIOUS
  <1>1. Stage' = Stage /\ Waiting' = Waiting /\ Beginning' = Beginning
    BY DEF ScoreWalk, EndTrace, Stage, Waiting, Beginning
  <1>2. path # <<>> /\ path' = <<>> /\ pc # "keep" /\ pc' # "keep"
    BY DEF ScoreWalk, EndTrace
  <1>3. path \in Seq(Cells) /\ Len(path) <= MaxSteps + 1
    BY <1>2 DEF PathInv, Way
  <1>4. Left = MaxSteps + 2 - Len(path) /\ Left' = 0
    BY <1>2 DEF Left
  <1>5. Left' < Left
    BY <1>3, <1>4, LenProperties, TerrainsAssumption
  <1> QED
    BY <1>1, <1>5 DEF Descends

LEMMA JudgeDescends == Typing /\ Judge => Descends
  <1> SUFFICES ASSUME Typing, Judge PROVE Descends
    OBVIOUS
  <1>1. Stage' = Stage /\ Waiting' = Waiting
    BY DEF Judge, Stage, Waiting
  <1>2. Cardinality(starts) \in Nat
    BY CellsFinite, FS_Subset, FS_CardinalityType DEF Typing, TypeOK
  <1>3. Beginning' < Beginning
    BY <1>2 DEF Judge, Beginning
  <1> QED
    BY <1>1, <1>3 DEF Descends

LEMMA KeepDescends == Typing /\ EndInv /\ Keep => Descends
  <1> SUFFICES ASSUME Typing, EndInv, Keep PROVE Descends
    OBVIOUS
  <1>1. pc = "keep" /\ pc' \in {"keep", "done"} /\ todo' = todo /\ starts' = starts
    BY DEF Keep
  <1>2. CASE pc' = "done"
    BY <1>1, <1>2 DEF Stage, Descends
  <1>3. CASE pc' = "keep"
    <2>1. Stage' = Stage /\ Waiting' = Waiting /\ Beginning' = Beginning
      BY <1>1, <1>3 DEF Stage, Waiting, Beginning
    <2>2. PICK p \in traced : traced' = traced \ {p}
      BY DEF Keep
    <2>3. Cardinality(traced) \in Nat /\ Cardinality(traced') = Cardinality(traced) - 1
      BY <2>2, FS_RemoveElement, FS_CardinalityType DEF EndInv
    <2>4. Left' < Left
      BY <1>1, <1>3, <2>3 DEF Left
    <2> QED
      BY <2>1, <2>4 DEF Descends
  <1> QED
    BY <1>1, <1>2, <1>3

(* Every turn of every loop brings the call closer to its end: no grid,    *)
(* loop in the drainage or setting of the options keeps it going.          *)
THEOREM TurnsDescend == Spec => [][Descends]_vars /\ []Measured
  <1>1. ASSUME Typing, PathInv, EndInv, Next PROVE Descends
    <2>1. CASE Rank
      <3>1. Stage = 5
        BY <2>1 DEF Rank, Stage
      <3>2. Stage' < 5
        BY <2>1 DEF Rank, Stage
      <3> QED
        BY <3>1, <3>2 DEF Descends
    <2>2. CASE EndUnits
      BY <2>2 DEF EndUnits, Stage, Descends
    <2>3. CASE Heads
      BY <2>3 DEF Heads, Stage, Descends
    <2>4. CASE EndHeads
      BY <2>4 DEF EndHeads, Stage, Descends
    <2> QED
      BY <1>1, <2>1, <2>2, <2>3, <2>4, PickUnitDescends, StartDescends, StepDescends,
         WalkEndDescends, JudgeDescends, KeepDescends DEF Next
  <1>2. Typing /\ PathInv /\ EndInv /\ [Next]_vars => [Descends]_vars
    BY <1>1
  <1> QED
    BY InitTyping, StepTyping, InitPaths, StepsPaths, InitEnd, StepsEnd, MeasuredAll, <1>2,
       PTL DEF Spec

(* Until a call is over one of its loops can take its turn: there is       *)
(* always a half-basin, a cell or a trace to go on with.                   *)
THEOREM CallsGoOn == Spec => [](pc # "done" => Ready)
  <1>1. ASSUME Typing, PathInv, EndInv, pc # "done" PROVE Ready
    <2>1. pc \in Phases
      BY <1>1 DEF Typing, TypeOK
    <2>2. CASE pc = "unit"
      <3>1. \A u : Area(u) = AreaOf(terrain, u)
        BY DEF Area, AreaOf, InField
      <3> QED
        BY <2>2, <3>1, WidestExists DEF Ready
    <2>3. CASE pc \in {"walk", "trace"}
      <3>1. starts \subseteq Cells
        BY <1>1 DEF Typing, TypeOK
      <3> QED
        BY <2>3, <3>1, EarliestExists DEF Ready
    <2>4. CASE pc = "keep"
      <3>1. traced # {} /\ \A p \in traced : Way(terrain, p)
        BY <1>1, <2>4 DEF EndInv, PathInv, Channel
      <3> QED
        BY <2>4, <3>1, LeaderExists DEF Ready
    <2> QED
      BY <1>1, <2>1, <2>2, <2>3, <2>4 DEF Phases, Ready
  <1> QED
    BY InitTyping, StepTyping, InitPaths, StepsPaths, InitEnd, StepsEnd, <1>1, PTL DEF Spec

=============================================================================
