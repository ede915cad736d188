--------------------------- MODULE ProfileProofs ---------------------------
(***************************************************************************)
(* Theorems of Profile, for profiles of any length, any options, epsilon   *)
(* and number of rounds.                                                   *)
(***************************************************************************)
EXTENDS Profile, SequenceTheorems, WellFoundedInduction, FiniteSetTheorems, TLAPS

(* The points that part the profile: kept, or ends of a stretch to look at. *)
Posts == {a \in 1 .. N : a \in kept \/ \E b \in 1 .. N : <<a, b>> \in spans \/ <<b, a>> \in spans}

(* Nothing between posts a and b. *)
Adjoin(P, a, b) == a < b /\ \A e \in P : ~(a < e /\ e < b)

(* No point between a and b is farther than epsilon from their line. *)
Flat(a, b) == \A m \in a + 1 .. b - 1 : ~Far(a, b, m)

Typing == TypeOK /\ profile \in Profiles

(* The stretches to look at and the segments kept tile the profile, and    *)
(* what is kept is within epsilon.                                         *)
CutInv ==
    /\ pc # "cut" => spans = {}
    /\ pc = "start" => kept = {}
    /\ pc = "cut" =>
          /\ N >= 2
          /\ 1 \in Posts /\ N \in Posts
          /\ \A a, b \in 1 .. N : <<a, b>> \in spans => Adjoin(Posts, a, b)
          /\ \A a, b \in Posts : Adjoin(Posts, a, b) => <<a, b>> \in spans \/ (a \in kept /\ b \in kept /\ Flat(a, b))

(* What Douglas-Peucker has made holds on while segments are merged. *)
BriefInv ==
    /\ pc = "cut" /\ Flat(1, N) => kept \subseteq {1, N} /\ spans \subseteq {<<1, N>>}
    /\ pc \in {"merge", "done"} /\ N >= 2 =>
          /\ {1, N} \subseteq kept
          /\ \/ Cardinality(kept) - 1 <= opts.maxSegments
             \/ opts.maxSegments < 1
             \/ ~Flat(1, N)
    /\ pc = "done" /\ N >= 2 => Cardinality(kept) = 2 \/ Short = {}

-----------------------------------------------------------------------------
(* Geometry. *)

LEMMA Pairs ==
    ASSUME NEW S, NEW T, NEW s \in S \X T
    PROVE  s[1] \in S /\ s[2] \in T /\ s = <<s[1], s[2]>>
  OBVIOUS

(* What induction over the points of a stretch rests on. *)
LEMMA Least ==
    ASSUME NEW S \in SUBSET Nat, S # {}
    PROVE  \E n \in S : \A k \in S : n <= k
  <1>1. PICK n \in S : \A k \in S : <<k, n>> \notin OpToRel(<, Nat)
    BY WFMin, NatLessThanWellFounded, Zenon
  <1>2. \A k \in S : ~(k < n)
    BY <1>1, Zenon DEF OpToRel
  <1>3. n \in Nat /\ \A k \in S : k \in Nat
    OBVIOUS
  <1> QED
    BY <1>2, <1>3

LEMMA SquareFacts ==
    ASSUME NEW a \in Nat, NEW b \in Nat, a <= b, NEW d \in Nat
    PROVE  /\ Square(a) \in Nat /\ Square(b) \in Nat
           /\ Square(a) * d \in Nat /\ Square(b) * d \in Nat
           /\ Square(a) * d <= Square(b) * d
  <1>1. Square(a) \in Nat /\ Square(b) \in Nat /\ Square(a) <= Square(b)
    BY DEF Square
  <1>2. \A x, y \in Nat : x <= y => x * d \in Nat /\ y * d \in Nat /\ x * d <= y * d
    OBVIOUS
  <1> QED
    BY <1>1, <1>2

LEMMA PointType ==
    ASSUME Typing, NEW k \in 1 .. N
    PROVE  X(k) \in Int /\ Z(k) \in Int
  <1>1. profile[k] \in Vertex
    BY ElementOfSeq DEF Typing, TypeOK, N
  <1> QED
    BY <1>1 DEF X, Z, Vertex

LEMMA CrossType ==
    ASSUME Typing, NEW i \in 1 .. N, NEW j \in 1 .. N, NEW m \in 1 .. N
    PROVE  Cross(i, j, m) \in Nat
  <1>1. \A k \in 1 .. N : X(k) \in Int /\ Z(k) \in Int
    BY PointType
  <1> DEFINE n == (X(j) - X(i)) * (Z(i) - Z(m)) - (X(i) - X(m)) * (Z(j) - Z(i))
  <1>2. n \in Int
    BY <1>1
  <1>3. Cross(i, j, m) = IF n < 0 THEN -n ELSE n
    BY DEF Cross
  <1> HIDE DEF n
  <1> QED
    BY <1>2, <1>3

(* A point no farther from the line than one within epsilon is within it. *)
LEMMA FarMonotone ==
    ASSUME Typing, NEW i \in 1 .. N, NEW j \in 1 .. N, NEW l \in 1 .. N, NEW m \in 1 .. N,
           Cross(i, j, l) <= Cross(i, j, m), Far(i, j, l)
    PROVE  Far(i, j, m)
  <1>1. Cross(i, j, l) \in Nat /\ Cross(i, j, m) \in Nat /\ eps.den \in Nat /\ eps.num \in Nat
    BY CrossType DEF Typing, TypeOK
  <1> DEFINE e == eps.num * (Square(X(j) - X(i)) + Square(Z(j) - Z(i)))
  <1>2. e \in Int
    <2>1. X(i) \in Int /\ X(j) \in Int /\ Z(i) \in Int /\ Z(j) \in Int
      BY PointType
    <2>2. Square(X(j) - X(i)) \in Int /\ Square(Z(j) - Z(i)) \in Int
      BY <2>1 DEF Square
    <2> QED
      BY <1>1, <2>2
  <1>3. Square(Cross(i, j, l)) * eps.den \in Nat /\ Square(Cross(i, j, m)) * eps.den \in Nat
        /\ Square(Cross(i, j, l)) * eps.den <= Square(Cross(i, j, m)) * eps.den
    BY <1>1, SquareFacts
  <1>4. Far(i, j, l) <=> Square(Cross(i, j, l)) * eps.den > e
    BY DEF Far
  <1>5. Far(i, j, m) <=> Square(Cross(i, j, m)) * eps.den > e
    BY DEF Far
  <1> HIDE DEF e
  <1> DEFINE p == Square(Cross(i, j, l)) * eps.den
             q == Square(Cross(i, j, m)) * eps.den
  <1>6. p \in Nat /\ q \in Nat /\ p <= q /\ p > e
    BY <1>3, <1>4
  <1>7. q > e => Far(i, j, m)
    BY <1>5
  <1> HIDE DEF p, q
  <1> QED
    BY <1>2, <1>6, <1>7

(* A stretch of more than two points has a farthest one, and it is the     *)
(* first of its kind. By the least number of points for which it has none. *)
LEMMA FarthestExists ==
    ASSUME Typing, NEW i \in 1 .. N, NEW j \in 1 .. N, i + 1 < j
    PROVE  \E m \in i + 1 .. j - 1 : Farthest(i, j, m)
  <1>0. N \in Nat /\ i \in Int /\ j \in Int
    BY DEF N, Typing, TypeOK
  <1> DEFINE First(n, m) == /\ m \in i + 1 .. i + n
                            /\ \A l \in i + 1 .. i + n : Cross(i, j, l) <= Cross(i, j, m)
                            /\ \A l \in i + 1 .. m - 1 : Cross(i, j, l) < Cross(i, j, m)
             Has(n) == \E m \in Int : First(n, m)
             None == {n \in Nat : 1 <= n /\ i + n <= j - 1 /\ ~Has(n)}
  <1>1. \A m \in i + 1 .. j - 1 : m \in 1 .. N /\ Cross(i, j, m) \in Nat
    BY <1>0, CrossType
  <1>4. 1 <= j - 1 - i => Has(1)
    <2>1. \A l \in i + 1 .. i + 1 : l = i + 1
      BY <1>0
    <2>2. i + 1 \in i + 1 .. j - 1 /\ i + 1 \in i + 1 .. i + 1
      BY <1>0
    <2>3. First(1, i + 1)
      BY <1>0, <1>1, <2>1, <2>2
    <2> QED
      BY <1>0, <2>3
  <1>5. ASSUME NEW n \in Nat, 1 < n, i + n <= j - 1, Has(n - 1) PROVE Has(n)
    <2>2. PICK m \in Int : First(n - 1, m)
      BY <1>5
    <2>3. \A l \in i + 1 .. i + n : l \in i + 1 .. i + (n - 1) \/ l = i + n
      BY <1>0
    <2>4. i + n \in i + 1 .. j - 1 /\ (\A l \in i + 1 .. i + n : l \in i + 1 .. j - 1)
      BY <1>0, <1>5
    <2>5. m \in i + 1 .. i + n /\ Cross(i, j, m) \in Nat /\ Cross(i, j, i + n) \in Nat
      BY <1>0, <1>1, <1>5, <2>2, <2>4
    <2>6. CASE Cross(i, j, i + n) <= Cross(i, j, m)
      <3>1. First(n, m)
        BY <2>2, <2>3, <2>5, <2>6
      <3> QED
        BY <3>1
    <2>7. CASE Cross(i, j, m) < Cross(i, j, i + n)
      <3>1. \A l \in i + 1 .. i + (n - 1) : Cross(i, j, l) \in Nat /\ Cross(i, j, l) < Cross(i, j, i + n)
        <4>1. \A l \in i + 1 .. i + (n - 1) : l \in i + 1 .. j - 1 /\ Cross(i, j, l) <= Cross(i, j, m)
          BY <1>0, <1>5, <2>2
        <4> QED
          BY <1>1, <2>5, <2>7, <4>1
      <3>2. i + n - 1 = i + (n - 1) /\ i + n \in i + 1 .. i + n
        BY <1>0, <1>5
      <3>3. \A l \in i + 1 .. i + n : Cross(i, j, l) <= Cross(i, j, i + n)
        BY <2>3, <2>5, <3>1
      <3>4. First(n, i + n)
        BY <3>1, <3>2, <3>3
      <3> QED
        BY <1>0, <3>4
    <2> QED
      BY <2>5, <2>6, <2>7
  <1> HIDE DEF Has
  <1>2. None = {}
    <2> SUFFICES ASSUME None # {} PROVE FALSE
      OBVIOUS
    <2>1. PICK n \in None : \A k \in None : n <= k
      BY Least
    <2>2. n \in Nat /\ 1 <= n /\ i + n <= j - 1 /\ ~Has(n)
      BY <2>1
    <2>3. n # 1
      BY <1>0, <1>4, <2>2
    <2>4. n - 1 \in Nat /\ 1 <= n - 1 /\ i + (n - 1) <= j - 1 /\ ~(n <= n - 1)
      BY <1>0, <2>2, <2>3
    <2>5. Has(n - 1)
      BY <2>1, <2>4
    <2> QED
      BY <1>5, <2>2, <2>3, <2>5
  <1>3. j - 1 - i \in Nat /\ 1 <= j - 1 - i /\ i + (j - 1 - i) = j - 1
    BY <1>0
  <1>6. Has(j - 1 - i)
    BY <1>2, <1>3
  <1>7. PICK m \in Int : First(j - 1 - i, m)
    BY <1>6 DEF Has
  <1> QED
    BY <1>3, <1>7 DEF Farthest

(* So a stretch that is not split has no point beyond epsilon. *)
LEMMA UnsplitIsFlat ==
    ASSUME Typing, NEW i \in 1 .. N, NEW j \in 1 .. N,
           \A m \in i + 1 .. j - 1 : Farthest(i, j, m) => ~Far(i, j, m)
    PROVE  Flat(i, j)
  <1>0. N \in Nat /\ i \in Int /\ j \in Int
    BY DEF N, Typing, TypeOK
  <1> SUFFICES ASSUME NEW l \in i + 1 .. j - 1, Far(i, j, l) PROVE FALSE
    BY DEF Flat
  <1>1. i + 1 < j
    BY <1>0
  <1>2. PICK m \in i + 1 .. j - 1 : Farthest(i, j, m)
    BY <1>1, FarthestExists
  <1>3. l \in 1 .. N /\ m \in 1 .. N /\ Cross(i, j, l) <= Cross(i, j, m)
    BY <1>0, <1>2 DEF Farthest
  <1> QED
    BY <1>2, <1>3, FarMonotone

-----------------------------------------------------------------------------
(* Types. *)

LEMMA InitTyping == Init => Typing
  <1> SUFFICES ASSUME Init PROVE Typing
    OBVIOUS
  <1>1. profile \in Seq(Vertex) /\ opts \in Option
    BY ProfileAssumption DEF Init
  <1> QED
    BY <1>1, ProfileAssumption DEF Init, Typing, TypeOK, Shapes

LEMMA StepTyping == Typing /\ CutInv /\ [Next]_vars => Typing'
  <1> SUFFICES ASSUME Typing, CutInv, [Next]_vars PROVE Typing'
    OBVIOUS
  <1> USE DEF Typing, TypeOK
  <1>0. N \in Nat /\ Rounds \in Nat
    BY LenProperties, ProfileAssumption DEF N
  <1>1. CASE Begin
    <2>1. N >= 2 => {<<1, N>>} \subseteq (1 .. N) \X (1 .. N)
      BY <1>0
    <2> QED
      BY <1>0, <1>1, <2>1 DEF Begin, N
  <1>2. CASE Cut
    <2>1. PICK s \in spans :
              \/ /\ \E m \in s[1] + 1 .. s[2] - 1 : spans' = (spans \ {s}) \union {<<s[1], m>>, <<m, s[2]>>}
                 /\ kept' = kept
              \/ spans' = spans \ {s} /\ kept' = kept \union {s[1], s[2]}
      BY <1>2 DEF Cut
    <2>2. s[1] \in 1 .. N /\ s[2] \in 1 .. N
      BY Pairs
    <2>3. \A m \in s[1] + 1 .. s[2] - 1 : m \in 1 .. N
      BY <1>0, <2>2
    <2>5. \A m \in 1 .. N : {<<s[1], m>>, <<m, s[2]>>} \subseteq (1 .. N) \X (1 .. N)
      BY <2>2
    <2>4. spans' \subseteq (1 .. N) \X (1 .. N) /\ kept' \subseteq 1 .. N
      BY <2>1, <2>2, <2>3, <2>5
    <2> QED
      BY <1>2, <2>4 DEF Cut, N
  <1>3. CASE Raise
    <2>1. round' \in 0 .. Rounds
      BY <1>0, <1>3 DEF Raise
    <2>2. eps' \in [num : Nat, den : Nat \ {0}]
      BY <1>3 DEF Raise
    <2>3. {<<1, N>>} \subseteq (1 .. N) \X (1 .. N)
      <3>1. N >= 2
        BY <1>3 DEF CutInv, Raise
      <3> QED
        BY <1>0, <3>1
    <2> QED
      BY <1>3, <2>1, <2>2, <2>3 DEF Raise, N
  <1>4. CASE Settle
    BY <1>4 DEF Settle, N
  <1>5. CASE Merge
    BY <1>5 DEF Merge, N
  <1>6. CASE Classify
    <2>1. Shape \in Shapes
      BY DEF Shape, Shapes
    <2> QED
      BY <1>6, <2>1 DEF Classify, N
  <1>7. CASE UNCHANGED vars
    BY <1>7 DEF vars, N
  <1> QED
    BY <1>1, <1>2, <1>3, <1>4, <1>5, <1>6, <1>7 DEF Next

-----------------------------------------------------------------------------
(* Douglas-Peucker. *)

LEMMA InitCut == Init => CutInv
  BY DEF Init, CutInv

(* One stretch from end to end, and nothing kept yet. *)
LEMMA WholeSpan ==
    ASSUME Typing, N >= 2, pc' = "cut", profile' = profile, spans' = {<<1, N>>}, kept' = {}
    PROVE  CutInv'
  <1>1. N \in Nat /\ N' = N
    BY LenProperties DEF N, Typing, TypeOK
  <1>2. \A a, b : <<a, b>> \in spans' <=> a = 1 /\ b = N
    OBVIOUS
  <1>3. Posts' = {1, N}
    BY <1>1, <1>2 DEF Posts
  <1>4. \A a, b \in {1, N} : a < b => a = 1 /\ b = N
    BY <1>1
  <1>5. Adjoin({1, N}, 1, N)
    BY <1>1 DEF Adjoin
  <1> QED
    BY <1>1, <1>2, <1>3, <1>4, <1>5 DEF CutInv, Adjoin

LEMMA CutStep == Typing /\ CutInv /\ Cut => CutInv'
  <1> SUFFICES ASSUME Typing, CutInv, Cut PROVE CutInv'
    OBVIOUS
  <1>0. N \in Nat /\ N' = N /\ pc = "cut" /\ pc' = "cut" /\ profile' = profile /\ eps' = eps
    BY LenProperties DEF N, Typing, TypeOK, Cut
  <1>1. /\ N >= 2 /\ 1 \in Posts /\ N \in Posts
        /\ \A a, b \in 1 .. N : <<a, b>> \in spans => Adjoin(Posts, a, b)
        /\ \A a, b \in Posts : Adjoin(Posts, a, b) => <<a, b>> \in spans \/ (a \in kept /\ b \in kept /\ Flat(a, b))
    BY <1>0 DEF CutInv
  <1>2. \A a, b : Flat(a, b)' = Flat(a, b)
    BY <1>0 DEF Flat, Far, Cross, X, Z
  <1>3. Posts \subseteq 1 .. N /\ (\A a \in 1 .. N : a \in Int)
    BY <1>0 DEF Posts
  <1>4. PICK i \in 1 .. N, j \in 1 .. N :
            /\ <<i, j>> \in spans
            /\ \/ /\ \E m \in i + 1 .. j - 1 : spans' = (spans \ {<<i, j>>}) \union {<<i, m>>, <<m, j>>}
                  /\ kept' = kept
               \/ /\ \A m \in i + 1 .. j - 1 : Farthest(i, j, m) => ~Far(i, j, m)
                  /\ spans' = spans \ {<<i, j>>}
                  /\ kept' = kept \union {i, j}
    <2>1. PICK s \in spans :
              \/ /\ \E m \in s[1] + 1 .. s[2] - 1 : spans' = (spans \ {s}) \union {<<s[1], m>>, <<m, s[2]>>}
                 /\ kept' = kept
              \/ /\ \A m \in s[1] + 1 .. s[2] - 1 : Farthest(s[1], s[2], m) => ~Far(s[1], s[2], m)
                 /\ spans' = spans \ {s}
                 /\ kept' = kept \union {s[1], s[2]}
      BY DEF Cut
    <2>2. s[1] \in 1 .. N /\ s[2] \in 1 .. N /\ s = <<s[1], s[2]>>
      BY Pairs DEF Typing, TypeOK
    <2> QED
      BY <2>1, <2>2
  <1>5. i \in Posts /\ j \in Posts /\ Adjoin(Posts, i, j)
    BY <1>1, <1>4 DEF Posts
  <1>6. CASE /\ \A m \in i + 1 .. j - 1 : Farthest(i, j, m) => ~Far(i, j, m)
             /\ spans' = spans \ {<<i, j>>}
             /\ kept' = kept \union {i, j}
    <2>1. Posts' = Posts
      <3>1. \A a, b : <<a, b>> \in spans <=> <<a, b>> \in spans' \/ (a = i /\ b = j)
        BY <1>4, <1>6
      <3> QED
        BY <1>0, <1>4, <1>6, <3>1 DEF Posts
    <2>2. Flat(i, j)
      BY <1>6, UnsplitIsFlat
    <2>3. ASSUME NEW a \in Posts, NEW b \in Posts, Adjoin(Posts, a, b)
          PROVE  <<a, b>> \in spans' \/ (a \in kept' /\ b \in kept' /\ Flat(a, b))
      <3>1. CASE a = i /\ b = j
        BY <1>6, <2>2, <3>1
      <3>2. CASE ~(a = i /\ b = j)
        <4>1. <<a, b>> # <<i, j>>
          BY <3>2
        <4> QED
          BY <1>1, <1>6, <2>3, <4>1
      <3> QED
        BY <3>1, <3>2
    <2>4. \A a, b : <<a, b>> \in spans' => <<a, b>> \in spans
      BY <1>6
    <2> QED
      BY <1>0, <1>1, <1>2, <2>1, <2>3, <2>4 DEF CutInv
  <1>7. ASSUME NEW m \in i + 1 .. j - 1,
               spans' = (spans \ {<<i, j>>}) \union {<<i, m>>, <<m, j>>}, kept' = kept
        PROVE  CutInv'
    <2>1. m \in Int /\ i < m /\ m < j /\ m \in 1 .. N
      BY <1>0, <1>3
    <2>2. <<i, m>> \in spans' /\ <<m, j>> \in spans'
      BY <1>7
    <2>9. ASSUME NEW a \in 1 .. N, NEW b \in 1 .. N, <<a, b>> \in spans, ~(a = i /\ b = j)
          PROVE  <<a, b>> \in spans'
      <3>1. <<a, b>> # <<i, j>>
        BY <2>9
      <3> QED
        BY <1>7, <2>9, <3>1
    <2>10. ASSUME NEW a \in 1 .. N, NEW b \in 1 .. N, <<a, b>> \in spans'
           PROVE  \/ <<a, b>> \in spans /\ ~(a = i /\ b = j)
                  \/ a = i /\ b = m
                  \/ a = m /\ b = j
      <3>1. (<<a, b>> \in spans /\ <<a, b>> # <<i, j>>) \/ <<a, b>> = <<i, m>> \/ <<a, b>> = <<m, j>>
        BY <1>7, <2>10
      <3> QED
        BY <3>1
    <2>3. Posts' = Posts \union {m}
      BY <1>0, <1>4, <1>7, <2>1, <2>2, <2>9, <2>10 DEF Posts
    <2>4. m \notin Posts
      BY <1>5, <2>1 DEF Adjoin
    <2> DEFINE P == Posts \union {m}
    <2>5. Adjoin(P, i, m) /\ Adjoin(P, m, j)
      <3>1. \A e \in Posts : ~(i < e /\ e < m) /\ ~(m < e /\ e < j)
        BY <1>3, <1>5, <2>1 DEF Adjoin
      <3> QED
        BY <2>1, <3>1 DEF Adjoin
    <2>6. ASSUME NEW a \in 1 .. N, NEW b \in 1 .. N, <<a, b>> \in spans, ~(a = i /\ b = j)
          PROVE  Adjoin(P, a, b)
      <3>1. a \in Posts /\ b \in Posts /\ Adjoin(Posts, a, b)
        BY <1>1, <2>6 DEF Posts
      <3>2. ~(a < m /\ m < b)
        BY <1>3, <1>5, <2>1, <2>6, <3>1 DEF Adjoin
      <3> QED
        BY <3>1, <3>2 DEF Adjoin
    <2>7. ASSUME NEW a \in 1 .. N, NEW b \in 1 .. N, <<a, b>> \in spans' PROVE Adjoin(P, a, b)
      BY <2>2, <2>9, <2>10, <2>5, <2>6, <2>7
    <2>8. ASSUME NEW a \in P, NEW b \in P, Adjoin(P, a, b)
          PROVE  <<a, b>> \in spans' \/ (a \in kept /\ b \in kept /\ Flat(a, b))
      <3>1. a \in Int /\ b \in Int /\ a < b /\ \A e \in P : ~(a < e /\ e < b)
        BY <1>3, <2>1, <2>8 DEF Adjoin
      <3>2. CASE a = m
        <4>1. b \in Posts /\ m < b /\ ~(m < j /\ j < b)
          BY <1>5, <2>4, <3>1, <3>2
        <4>2. ~(i < b /\ b < j)
          BY <1>5, <4>1 DEF Adjoin
        <4>3. b = j
          BY <1>3, <2>1, <3>1, <4>1, <4>2
        <4> QED
          BY <2>2, <2>9, <2>10, <3>2, <4>3
      <3>3. CASE b = m
        <4>1. a \in Posts /\ a < m /\ ~(a < i /\ i < m)
          BY <1>5, <2>4, <3>1, <3>3
        <4>2. ~(i < a /\ a < j)
          BY <1>5, <4>1 DEF Adjoin
        <4>3. a = i
          BY <1>3, <2>1, <3>1, <4>1, <4>2
        <4>4. <<i, m>> \in spans'
          BY <2>2, <2>9, <2>10
        <4> QED
          BY <3>3, <4>3, <4>4
      <3>4. CASE a # m /\ b # m
        <4>1. a \in Posts /\ b \in Posts /\ Adjoin(Posts, a, b)
          BY <2>8, <3>4 DEF Adjoin
        <4>2. <<a, b>> \in spans \/ (a \in kept /\ b \in kept /\ Flat(a, b))
          BY <1>1, <4>1
        <4>3. ~(a = i /\ b = j)
          BY <2>1, <3>1
        <4>4. <<a, b>> \in spans => <<a, b>> \in spans'
          BY <1>3, <2>2, <2>9, <2>10, <4>1, <4>3
        <4> QED
          BY <4>2, <4>4
      <3> QED
        BY <3>2, <3>3, <3>4
    <2> QED
      BY <1>0, <1>1, <1>2, <1>7, <2>3, <2>7, <2>8 DEF CutInv
  <1> QED
    BY <1>4, <1>6, <1>7

LEMMA StepCut == Typing /\ CutInv /\ [Next]_vars => CutInv'
  <1> SUFFICES ASSUME Typing, CutInv, [Next]_vars PROVE CutInv'
    OBVIOUS
  <1>1. CASE Begin
    <2>1. CASE N < 2
      BY <1>1, <2>1 DEF Begin, CutInv
    <2>2. CASE ~(N < 2)
      <3>1. N >= 2
        BY <2>2, LenProperties DEF N, Typing, TypeOK
      <3>2. pc' = "cut" /\ profile' = profile /\ spans' = {<<1, N>>} /\ kept' = {}
        BY <1>1, <2>2 DEF Begin, CutInv
      <3> QED
        BY <3>1, <3>2, WholeSpan
    <2> QED
      BY <2>1, <2>2
  <1>2. CASE Raise
    <2>1. N >= 2 /\ pc' = "cut" /\ profile' = profile /\ spans' = {<<1, N>>} /\ kept' = {}
      BY <1>2 DEF Raise, CutInv
    <2> QED
      BY <2>1, WholeSpan
  <1>3. CASE Settle
    BY <1>3 DEF Settle, CutInv
  <1>4. CASE Merge
    BY <1>4 DEF Merge, CutInv
  <1>5. CASE Classify
    BY <1>5 DEF Classify, CutInv
  <1>6. CASE UNCHANGED vars
    <2>1. Posts' = Posts /\ N' = N /\ (\A a, b : Flat(a, b)' = Flat(a, b))
      BY <1>6 DEF vars, Posts, N, Flat, Far, Cross, X, Z
    <2> QED
      BY <1>6, <2>1 DEF vars, CutInv
  <1> QED
    BY <1>1, <1>2, <1>3, <1>4, <1>5, <1>6, CutStep DEF Next

(* Every variable keeps to the values the code gives it. *)
THEOREM TypeCorrect == Spec => []TypeOK
  <1>1. Typing => TypeOK
    BY DEF Typing
  <1>2. Init => Typing /\ CutInv
    BY InitTyping, InitCut
  <1>3. Typing /\ CutInv /\ [Next]_vars => Typing' /\ CutInv'
    BY StepTyping, StepCut
  <1> QED
    BY <1>1, <1>2, <1>3, PTL DEF Spec

(* Whenever Douglas-Peucker is through with a round, the ends are kept and *)
(* every point left out is within epsilon of its segment.                  *)
THEOREM ToleranceCorrect == Spec => []WithinTolerance
  <1>1. ASSUME Typing, CutInv PROVE WithinTolerance
    <2> SUFFICES ASSUME pc = "cut", spans = {}
                 PROVE  /\ {1, N} \subseteq kept
                        /\ \A i, j \in kept : Ends(i, j) => \A m \in i + 1 .. j - 1 : ~Far(i, j, m)
      BY DEF WithinTolerance
    <2>1. Posts = kept
      BY <1>1 DEF Posts, Typing, TypeOK
    <2> QED
      BY <1>1, <2>1 DEF CutInv, Adjoin, Ends, Flat
  <1>2. Init => Typing /\ CutInv
    BY InitTyping, InitCut
  <1>3. Typing /\ CutInv /\ [Next]_vars => Typing' /\ CutInv'
    BY StepTyping, StepCut
  <1> QED
    BY <1>1, <1>2, <1>3, PTL DEF Spec

-----------------------------------------------------------------------------
(* Merging. *)

LEMMA KeptFinite ==
    ASSUME Typing
    PROVE  IsFiniteSet(kept) /\ Cardinality(kept) \in Nat /\ N \in Nat
  <1>1. N \in Nat
    BY LenProperties DEF N, Typing, TypeOK
  <1>2. IsFiniteSet(1 .. N)
    BY <1>1, FS_Interval
  <1>3. IsFiniteSet(kept)
    BY <1>2, FS_Subset DEF Typing, TypeOK
  <1> QED
    BY <1>1, <1>3, FS_CardinalityType

LEMMA TwoPoints ==
    ASSUME NEW a \in Int, NEW b \in Int, a # b
    PROVE  IsFiniteSet({a, b}) /\ Cardinality({a, b}) = 2
  <1>1. IsFiniteSet({a}) /\ Cardinality({a}) = 1
    BY FS_Singleton
  <1>2. {a} \union {b} = {a, b} /\ b \notin {a}
    OBVIOUS
  <1> QED
    BY <1>1, <1>2, FS_AddElement

(* Every segment has an end. *)
LEMMA AfterFacts ==
    ASSUME Typing, N \in kept, NEW i \in Segments
    PROVE  Ends(i, After(i))
  <1>1. N \in Nat /\ kept \subseteq 1 .. N /\ i \in kept /\ i # N
    BY KeptFinite DEF Typing, TypeOK, Segments
  <1> DEFINE S == {k \in kept : i < k}
  <1>2. S \in SUBSET Nat /\ N \in S /\ i \in Nat
    <2>1. \A k \in kept : k \in 1 .. N /\ k \in Nat
      BY <1>1
    <2>2. i < N
      BY <1>1, <2>1
    <2> QED
      BY <1>1, <2>1, <2>2
  <1>3. S # {}
    BY <1>2
  <1>4. PICK j \in S : \A k \in S : j <= k
    <2> HIDE DEF S
    <2> QED
      BY <1>2, <1>3, Least
  <1>5. j \in kept /\ i < j
    BY <1>4
  <1>6. \A k \in kept : i < k => j <= k
    BY <1>4
  <1>7. Ends(i, j)
    BY <1>1, <1>5, <1>6 DEF Ends
  <1> QED
    BY <1>5, <1>7 DEF After

LEMMA CutBrief ==
    Typing /\ BriefInv /\ Cut => BriefInv'
  <1> SUFFICES ASSUME Typing, BriefInv, Cut PROVE BriefInv'
    OBVIOUS
  <1>0. N' = N /\ N \in Nat /\ pc = "cut" /\ pc' = "cut" /\ profile' = profile /\ eps' = eps
    BY KeptFinite DEF Cut, N
  <1>1. Flat(1, N)' = Flat(1, N)
    BY <1>0 DEF Flat, Far, Cross, X, Z
  <1> SUFFICES ASSUME Flat(1, N) PROVE kept' \subseteq {1, N} /\ spans' \subseteq {<<1, N>>}
    BY <1>0, <1>1 DEF BriefInv
  <1>2. kept \subseteq {1, N} /\ spans \subseteq {<<1, N>>}
    BY <1>0 DEF BriefInv
  <1>3. PICK s \in spans :
            \/ \E m \in s[1] + 1 .. s[2] - 1 : Far(s[1], s[2], m)
            \/ spans' = spans \ {s} /\ kept' = kept \union {s[1], s[2]}
    BY DEF Cut
  <1>4. s[1] = 1 /\ s[2] = N
    BY <1>2
  <1>5. ~ \E m \in s[1] + 1 .. s[2] - 1 : Far(s[1], s[2], m)
    BY <1>4 DEF Flat
  <1> QED
    BY <1>2, <1>3, <1>4, <1>5

LEMMA SettleBrief ==
    Typing /\ CutInv /\ BriefInv /\ Settle => BriefInv'
  <1> SUFFICES ASSUME Typing, CutInv, BriefInv, Settle PROVE BriefInv'
    OBVIOUS
  <1>0. /\ N' = N /\ N \in Nat /\ pc = "cut" /\ pc' = "merge" /\ spans = {} /\ N >= 2
        /\ kept' = kept /\ opts' = opts /\ profile' = profile /\ eps' = eps
    BY KeptFinite DEF Settle, N, CutInv
  <1>1. Flat(1, N)' = Flat(1, N)
    BY <1>0 DEF Flat, Far, Cross, X, Z
  <1>2. {1, N} \subseteq kept
    <2>1. 1 \in Posts /\ N \in Posts
      BY <1>0 DEF CutInv
    <2> QED
      BY <1>0, <2>1 DEF Posts
  <1>3. opts.maxSegments \in Int /\ Cardinality(kept) \in Nat
    BY KeptFinite DEF Typing, TypeOK, Option
  <1>4. Flat(1, N) => Cardinality(kept) - 1 <= 1
    <2>1. Flat(1, N) => kept = {1, N}
      BY <1>0, <1>2 DEF BriefInv
    <2>2. Cardinality({1, N}) = 2
      BY <1>0, TwoPoints
    <2> QED
      BY <2>1, <2>2
  <1>5. \/ Cardinality(kept) - 1 <= opts.maxSegments
        \/ opts.maxSegments < 1
        \/ ~Flat(1, N)
    BY <1>3, <1>4
  <1> QED
    BY <1>0, <1>1, <1>2, <1>5 DEF BriefInv

LEMMA MergeBrief ==
    Typing /\ BriefInv /\ Merge => BriefInv'
  <1> SUFFICES ASSUME Typing, BriefInv, Merge PROVE BriefInv'
    OBVIOUS
  <1>0. /\ N' = N /\ N \in Nat /\ pc = "merge" /\ pc' = "merge" /\ Cardinality(kept) > 2
        /\ opts' = opts /\ profile' = profile /\ eps' = eps /\ opts.maxSegments \in Int
    BY KeptFinite DEF Merge, N, Typing, TypeOK, Option
  <1>1. Flat(1, N)' = Flat(1, N)
    BY <1>0 DEF Flat, Far, Cross, X, Z
  <1>2. PICK i \in Short : kept' = kept \ {Dropped(i)}
    BY DEF Merge
  <1> SUFFICES ASSUME N >= 2
               PROVE  /\ {1, N} \subseteq kept'
                      /\ \/ Cardinality(kept') - 1 <= opts.maxSegments
                         \/ opts.maxSegments < 1
                         \/ ~Flat(1, N)
    BY <1>0, <1>1 DEF BriefInv
  <1>3. /\ {1, N} \subseteq kept
        /\ \/ Cardinality(kept) - 1 <= opts.maxSegments
           \/ opts.maxSegments < 1
           \/ ~Flat(1, N)
    BY <1>0 DEF BriefInv
  <1>4. i \in Segments /\ Ends(i, After(i))
    BY <1>2, <1>3, AfterFacts DEF Short
  <1>5. kept \subseteq 1 .. N /\ i \in kept /\ i # N /\ After(i) \in kept /\ i < After(i)
    BY <1>4 DEF Typing, TypeOK, Segments, Ends
  <1>6. After(i) = N => i # 1
    <2> SUFFICES ASSUME After(i) = N, i = 1 PROVE FALSE
      OBVIOUS
    <2>1. \A k \in kept : k = 1 \/ k = N
      BY <1>0, <1>4, <1>5 DEF Ends
    <2>2. kept = {1, N}
      BY <1>3, <2>1
    <2>3. Cardinality({1, N}) = 2
      BY <1>0, <1>5, TwoPoints
    <2> QED
      BY <1>0, <2>2, <2>3
  <1>7. Dropped(i) \in kept /\ Dropped(i) # 1 /\ Dropped(i) # N
    BY <1>0, <1>5, <1>6 DEF Dropped
  <1>8. Cardinality(kept') = Cardinality(kept) - 1 /\ Cardinality(kept) \in Nat
    BY <1>2, <1>7, KeptFinite, FS_RemoveElement
  <1> QED
    BY <1>0, <1>2, <1>3, <1>7, <1>8

LEMMA ClassifyBrief ==
    Typing /\ BriefInv /\ Classify => BriefInv'
  <1> SUFFICES ASSUME Typing, BriefInv, Classify PROVE BriefInv'
    OBVIOUS
  <1>0. /\ N' = N /\ N \in Nat /\ pc = "merge" /\ pc' = "done" /\ (Cardinality(kept) <= 2 \/ Short = {})
        /\ kept' = kept /\ opts' = opts /\ profile' = profile /\ eps' = eps
    BY KeptFinite DEF Classify, N
  <1>1. Flat(1, N)' = Flat(1, N) /\ Short' = Short
    BY <1>0 DEF Flat, Far, Cross, X, Z, Short, Segments, Length, After, Ends, N
  <1>2. N >= 2 => Cardinality(kept) >= 2
    <2> SUFFICES ASSUME N >= 2 PROVE Cardinality(kept) >= 2
      OBVIOUS
    <2>1. {1, N} \subseteq kept
      BY <1>0 DEF BriefInv
    <2>2. Cardinality({1, N}) = 2
      BY <1>0, TwoPoints
    <2> QED
      BY <2>1, <2>2, KeptFinite, FS_Subset
  <1>3. N >= 2 => Cardinality(kept) = 2 \/ Short = {}
    BY <1>0, <1>2, KeptFinite
  <1> QED
    BY <1>0, <1>1, <1>3 DEF BriefInv

LEMMA StepBrief == Typing /\ CutInv /\ BriefInv /\ [Next]_vars => BriefInv'
  <1> SUFFICES ASSUME Typing, CutInv, BriefInv, [Next]_vars PROVE BriefInv'
    OBVIOUS
  <1>1. CASE Begin
    <2>1. N' = N /\ N \in Nat /\ pc = "start" /\ kept = {} /\ kept' = {} /\ (pc' = "done" => N < 2)
          /\ pc' \in {"done", "cut"} /\ (pc' = "cut" => spans' = {<<1, N>>})
      BY <1>1, KeptFinite DEF Begin, N, CutInv
    <2> QED
      BY <2>1 DEF BriefInv
  <1>2. CASE Raise
    <2>1. N' = N /\ pc' = "cut" /\ kept' = {} /\ spans' = {<<1, N>>}
      BY <1>2 DEF Raise, N
    <2> QED
      BY <2>1 DEF BriefInv
  <1>3. CASE UNCHANGED vars
    <2>1. Flat(1, N)' = Flat(1, N) /\ Short' = Short /\ N' = N
      BY <1>3 DEF vars, Flat, Far, Cross, X, Z, Short, Segments, Length, After, Ends, N
    <2> QED
      BY <1>3, <2>1 DEF vars, BriefInv
  <1> QED
    BY <1>1, <1>2, <1>3, CutBrief, SettleBrief, MergeBrief, ClassifyBrief DEF Next

(* What is posted runs from ridge to channel, has no short segment, and no *)
(* more than the maximum where the last epsilon suffices.                  *)
THEOREM BriefCorrect == Spec => []MeetsBrief
  <1>1. ASSUME Typing, BriefInv PROVE MeetsBrief
    <2> SUFFICES ASSUME pc = "done", N >= 2
                 PROVE  /\ {1, N} \subseteq kept
                        /\ Cardinality(kept) = 2 \/ Short = {}
                        /\ \/ Cardinality(Segments) <= opts.maxSegments
                           \/ opts.maxSegments < 1
                           \/ \E m \in 2 .. N - 1 : Far(1, N, m)
      BY DEF MeetsBrief
    <2>1. /\ {1, N} \subseteq kept
          /\ Cardinality(kept) = 2 \/ Short = {}
          /\ \/ Cardinality(kept) - 1 <= opts.maxSegments
             \/ opts.maxSegments < 1
             \/ ~Flat(1, N)
      BY <1>1 DEF BriefInv
    <2>2. Cardinality(Segments) = Cardinality(kept) - 1
      BY <1>1, <2>1, KeptFinite, FS_RemoveElement DEF Segments
    <2>3. ~Flat(1, N) => \E m \in 2 .. N - 1 : Far(1, N, m)
      BY DEF Flat
    <2> QED
      BY <2>1, <2>2, <2>3
  <1>2. Init => Typing /\ CutInv /\ BriefInv
    BY InitTyping, InitCut DEF Init, BriefInv
  <1>3. Typing /\ CutInv /\ BriefInv /\ [Next]_vars => Typing' /\ CutInv' /\ BriefInv'
    BY StepTyping, StepCut, StepBrief
  <1> QED
    BY <1>1, <1>2, <1>3, PTL DEF Spec

-----------------------------------------------------------------------------
(* The shape. *)

(* A label is one of the loops' outcomes for the points that are kept. *)
ShapeInv ==
    /\ pc # "done" => shape = "uniform"
    /\ pc = "merge" => N >= 2
    /\ pc = "done" =>
          /\ shape = "convex" => N >= 2 /\ \A i \in Bends : Bend(i) >= 0
          /\ shape = "concave" => N >= 2 /\ \A i \in Bends : Bend(i) <= 0

(* Division, by what it leaves. *)
LEMMA Quotient ==
    ASSUME NEW n \in Int, NEW d \in Nat \ {0}
    PROVE  n \div d \in Int /\ d * (n \div d) <= n /\ n < d * (n \div d) + d
  OBVIOUS

LEMMA Divides ==
    ASSUME NEW n \in Int, NEW d \in Nat \ {0}, n % d = 0
    PROVE  n = d * (n \div d)
  OBVIOUS

(* What rounding leaves. *)
LEMMA NearestWithin ==
    ASSUME NEW a \in Int, NEW b \in Nat \ {0}
    PROVE  /\ Nearest(a, b) \in Int
           /\ 2 * a <= (2 * Nearest(a, b) + 1) * b
           /\ (2 * Nearest(a, b) - 1) * b <= 2 * a
  <1> DEFINE n == 2 * a + b
             d == 2 * b
             q == n \div d
             r == n % d
  <1>1. n \in Int /\ d \in Nat \ {0} /\ n = 2 * a + b /\ d = 2 * b
    OBVIOUS
  <1>2. Nearest(a, b) = IF r = 0 /\ q % 2 = 1 THEN q - 1 ELSE q
    BY DEF Nearest
  <1> HIDE DEF n, d
  <1>3. q \in Int /\ d * q <= n /\ n < d * q + d /\ (r = 0 => n = d * q)
    BY <1>1, Quotient, Divides
  <1> HIDE DEF q, r
  <1>4. d * q = 2 * (b * q) /\ b * q \in Int
    BY <1>1, <1>3
  <1>5. (2 * q + 1) * b = 2 * (b * q) + b /\ (2 * q - 1) * b = 2 * (b * q) - b
    BY <1>3
  <1>6. (2 * (q - 1) + 1) * b = 2 * (b * q) - b /\ (2 * (q - 1) - 1) * b = 2 * (b * q) - 3 * b
    BY <1>3
  <1>7. CASE r = 0 /\ q % 2 = 1
    <2>1. Nearest(a, b) = q - 1
      BY <1>2, <1>7
    <2>2. 2 * a = 2 * (b * q) - b
      BY <1>1, <1>3, <1>4, <1>7
    <2> QED
      BY <1>3, <1>4, <1>6, <2>1, <2>2
  <1>8. CASE ~(r = 0 /\ q % 2 = 1)
    <2>1. Nearest(a, b) = q
      BY <1>2, <1>8
    <2>2. 2 * a <= 2 * (b * q) + b /\ 2 * (b * q) - b <= 2 * a
      BY <1>1, <1>3, <1>4
    <2> QED
      BY <1>3, <1>5, <2>1, <2>2
  <1> QED
    BY <1>7, <1>8

(* A segment rises as its slope says, but for the rounding. *)
LEMMA SegmentFacts ==
    ASSUME Typing, {1, N} \subseteq kept, NEW i \in Segments
    PROVE  /\ After(i) \in kept /\ i \in 1 .. N /\ After(i) \in 1 .. N /\ i < After(i)
           /\ \A k \in kept : i < k => After(i) <= k
           /\ Length(i) = X(After(i)) - X(i) /\ Length(i) \in Nat \ {0}
           /\ SlopePct(i) \in Int
           /\ 2 * (Grain * (Z(After(i)) - Z(i))) <= (2 * SlopePct(i) + 1) * Length(i)
           /\ (2 * SlopePct(i) - 1) * Length(i) <= 2 * (Grain * (Z(After(i)) - Z(i)))
  <1>1. Ends(i, After(i)) /\ kept \subseteq 1 .. N /\ i \in kept /\ N \in Nat
    BY AfterFacts, KeptFinite DEF Typing, TypeOK, Segments
  <1>2. After(i) \in kept /\ i \in 1 .. N /\ After(i) \in 1 .. N /\ i < After(i)
    BY <1>1 DEF Ends
  <1>3. \A k \in kept : i < k => After(i) <= k
    <2>1. \A k \in kept : k \in Int /\ ~(i < k /\ k < After(i))
      BY <1>1 DEF Ends
    <2> QED
      BY <1>2, <2>1
  <1>4. X(i) \in Int /\ X(After(i)) \in Int /\ Z(i) \in Int /\ Z(After(i)) \in Int
    BY <1>2, PointType
  <1>5. X(i) < X(After(i))
    BY <1>2, ProfileAssumption DEF Typing, X, N
  <1> DEFINE b == Length(i)
             a == Grain * (Z(After(i)) - Z(i))
  <1>6. b = X(After(i)) - X(i) /\ b \in Nat \ {0}
    BY <1>4, <1>5 DEF Length
  <1>7. a \in Int
    BY <1>4, ProfileAssumption
  <1>8. SlopePct(i) = Nearest(a, b)
    BY DEF SlopePct
  <1> HIDE DEF a, b
  <1>9. /\ SlopePct(i) \in Int
        /\ 2 * a <= (2 * SlopePct(i) + 1) * b
        /\ (2 * SlopePct(i) - 1) * b <= 2 * a
    BY <1>6, <1>7, <1>8, NearestWithin
  <1> QED
    BY <1>2, <1>3, <1>6, <1>9 DEF a, b

(* What holds of a kept point, and of the start of a segment if of its     *)
(* end, holds of all before it.                                            *)
LEMMA Backward ==
    ASSUME Typing, {1, N} \subseteq kept, NEW b \in kept, NEW S, b \in S,
           \A i \in Segments : i < b /\ After(i) \in S => i \in S
    PROVE  \A k \in kept : k <= b => k \in S
  <1>0. kept \subseteq 1 .. N /\ N \in Nat /\ b \in 1 .. N
    BY KeptFinite DEF Typing, TypeOK
  <1> DEFINE Bad == {n \in Nat : b - n \in kept /\ b - n \notin S}
  <1>1. Bad = {}
    <2> SUFFICES ASSUME Bad # {} PROVE FALSE
      OBVIOUS
    <2>1. PICK n \in Bad : \A l \in Bad : n <= l
      <3>1. Bad \in SUBSET Nat
        OBVIOUS
      <3> HIDE DEF Bad
      <3> QED
        BY <3>1, Least
    <2> DEFINE i == b - n
    <2>2. n \in Nat /\ i \in kept /\ i \notin S /\ i \in 1 .. N /\ i <= b /\ i # b
      BY <1>0, <2>1
    <2>3. i \in Segments /\ i < b
      BY <1>0, <2>2 DEF Segments
    <2> HIDE DEF i
    <2>4. After(i) \in kept /\ After(i) \in 1 .. N /\ i < After(i) /\ After(i) <= b
      BY <2>3, SegmentFacts
    <2>5. After(i) \notin S
      BY <2>2, <2>3
    <2>6. b - After(i) \in Nat /\ b - (b - After(i)) = After(i)
      BY <1>0, <2>4
    <2>7. b - After(i) \in Bad
      BY <2>4, <2>5, <2>6
    <2>8. n <= b - After(i) /\ i = b - n
      BY <2>1, <2>7 DEF i
    <2> QED
      BY <1>0, <2>2, <2>4, <2>8
  <1>2. ASSUME NEW k \in kept, k <= b PROVE k \in S
    <2>1. k \in 1 .. N /\ b - k \in Nat /\ b - (b - k) = k
      BY <1>0, <1>2
    <2>2. b - k \notin Bad
      BY <1>1
    <2> QED
      BY <2>1, <2>2
  <1> QED
    BY <1>2

LEMMA SlopesRise ==
    ASSUME Typing, {1, N} \subseteq kept, \A i \in Bends : Bend(i) >= 0,
           NEW i \in Segments, NEW j \in Segments, i <= j
    PROVE  SlopePct(i) <= SlopePct(j)
  <1> DEFINE S == {k \in Segments : SlopePct(k) <= SlopePct(j)}
  <1>1. j \in S /\ i \in kept /\ j \in kept
    BY SegmentFacts DEF Segments
  <1>2. ASSUME NEW k \in Segments, k < j, After(k) \in S PROVE k \in S
    <2>1. k \in Bends
      BY <1>2 DEF Bends, Segments
    <2>2. SlopePct(After(k)) - SlopePct(k) >= 0
      BY <2>1 DEF Bend
    <2>3. /\ SlopePct(k) \in Int /\ SlopePct(After(k)) \in Int /\ SlopePct(j) \in Int
          /\ SlopePct(After(k)) <= SlopePct(j)
      BY <1>2, SegmentFacts
    <2>4. SlopePct(k) <= SlopePct(j)
      BY <2>2, <2>3
    <2> QED
      BY <2>4
  <1> HIDE DEF S
  <1>3. i \in S
    BY <1>1, <1>2, Backward
  <1> QED
    BY <1>3 DEF S

LEMMA SlopesFall ==
    ASSUME Typing, {1, N} \subseteq kept, \A i \in Bends : Bend(i) <= 0,
           NEW i \in Segments, NEW j \in Segments, i <= j
    PROVE  SlopePct(j) <= SlopePct(i)
  <1> DEFINE S == {k \in Segments : SlopePct(j) <= SlopePct(k)}
  <1>1. j \in S /\ i \in kept /\ j \in kept
    BY SegmentFacts DEF Segments
  <1>2. ASSUME NEW k \in Segments, k < j, After(k) \in S PROVE k \in S
    <2>1. k \in Bends
      BY <1>2 DEF Bends, Segments
    <2>2. SlopePct(After(k)) - SlopePct(k) <= 0
      BY <2>1 DEF Bend
    <2>3. /\ SlopePct(k) \in Int /\ SlopePct(After(k)) \in Int /\ SlopePct(j) \in Int
          /\ SlopePct(j) <= SlopePct(After(k))
      BY <1>2, SegmentFacts
    <2>4. SlopePct(j) <= SlopePct(k)
      BY <2>2, <2>3
    <2> QED
      BY <2>4
  <1> HIDE DEF S
  <1>3. i \in S
    BY <1>1, <1>2, Backward
  <1> QED
    BY <1>3 DEF S

(* Chords of segments no steeper than s, one after the other. *)
LEMMA RiseAdds ==
    ASSUME NEW p \in Int, NEW q \in Int, NEW l \in Nat, NEW m \in Int, NEW r \in Int, NEW s \in Int,
           r <= s, 2 * (Grain * p) <= (2 * r + 1) * l, 2 * (Grain * q) <= (2 * s + 1) * m
    PROVE  2 * (Grain * (p + q)) <= (2 * s + 1) * (l + m)
  <1>1. Grain \in Int
    BY ProfileAssumption
  <1>2. Grain * (p + q) = Grain * p + Grain * q /\ Grain * p \in Int /\ Grain * q \in Int
    BY <1>1
  <1>3. (2 * s + 1) * (l + m) = (2 * s + 1) * l + (2 * s + 1) * m
    BY <1>1
  <1>4. (2 * r + 1) * l <= (2 * s + 1) * l
    <2>1. \A x, y \in Int : x <= y => x * l <= y * l
      OBVIOUS
    <2> QED
      BY <2>1
  <1>5. (2 * r + 1) * l \in Int /\ (2 * s + 1) * l \in Int /\ (2 * s + 1) * m \in Int
    OBVIOUS
  <1> QED
    BY <1>2, <1>3, <1>4, <1>5

LEMMA FallAdds ==
    ASSUME NEW p \in Int, NEW q \in Int, NEW l \in Nat, NEW m \in Int, NEW r \in Int, NEW s \in Int,
           s <= r, (2 * r - 1) * l <= 2 * (Grain * p), (2 * s - 1) * m <= 2 * (Grain * q)
    PROVE  (2 * s - 1) * (l + m) <= 2 * (Grain * (p + q))
  <1>1. Grain \in Int
    BY ProfileAssumption
  <1>2. Grain * (p + q) = Grain * p + Grain * q /\ Grain * p \in Int /\ Grain * q \in Int
    BY <1>1
  <1>3. (2 * s - 1) * (l + m) = (2 * s - 1) * l + (2 * s - 1) * m
    BY <1>1
  <1>4. (2 * s - 1) * l <= (2 * r - 1) * l
    <2>1. \A x, y \in Int : x <= y => x * l <= y * l
      OBVIOUS
    <2> QED
      BY <2>1
  <1>5. (2 * r - 1) * l \in Int /\ (2 * s - 1) * l \in Int /\ (2 * s - 1) * m \in Int
    OBVIOUS
  <1> QED
    BY <1>2, <1>3, <1>4, <1>5

LEMMA ChordRise ==
    ASSUME Typing, {1, N} \subseteq kept, NEW a \in kept, NEW b \in kept, a <= b, NEW s \in Int,
           \A i \in Segments : a <= i /\ i < b => SlopePct(i) <= s
    PROVE  2 * (Grain * (Z(b) - Z(a))) <= (2 * s + 1) * (X(b) - X(a))
  <1>0. kept \subseteq 1 .. N /\ N \in Nat
    BY KeptFinite DEF Typing, TypeOK
  <1>1. \A k \in kept : k \in Int /\ X(k) \in Int /\ Z(k) \in Int
    BY <1>0, PointType
  <1> DEFINE Claim(k) == 2 * (Grain * (Z(b) - Z(k))) <= (2 * s + 1) * (X(b) - X(k))
             S == {k \in kept : a <= k => Claim(k)}
  <1>2. b \in S
    <2>1. Z(b) - Z(b) = 0 /\ X(b) - X(b) = 0
      BY <1>1
    <2>2. Grain * 0 = 0 /\ (2 * s + 1) * 0 = 0
      BY ProfileAssumption
    <2> QED
      BY <2>1, <2>2
  <1>3. ASSUME NEW i \in Segments, i < b, After(i) \in S PROVE i \in S
    <2> SUFFICES ASSUME a <= i PROVE Claim(i)
      BY DEF Segments
    <2> DEFINE j == After(i)
    <2>1. /\ j \in kept /\ i \in kept /\ i < j
          /\ X(j) - X(i) \in Nat
          /\ SlopePct(i) \in Int /\ SlopePct(i) <= s
          /\ 2 * (Grain * (Z(j) - Z(i))) <= (2 * SlopePct(i) + 1) * (X(j) - X(i))
      BY <1>3, SegmentFacts DEF Segments
    <2>2. Claim(j)
      BY <1>1, <1>3, <2>1
    <2> HIDE DEF j
    <2>3. Z(j) - Z(i) \in Int /\ Z(b) - Z(j) \in Int /\ X(b) - X(j) \in Int
      BY <1>1, <2>1
    <2>4. 2 * (Grain * ((Z(j) - Z(i)) + (Z(b) - Z(j)))) <= (2 * s + 1) * ((X(j) - X(i)) + (X(b) - X(j)))
      BY <2>1, <2>2, <2>3, RiseAdds
    <2>5. (Z(j) - Z(i)) + (Z(b) - Z(j)) = Z(b) - Z(i) /\ (X(j) - X(i)) + (X(b) - X(j)) = X(b) - X(i)
      BY <1>1, <2>1
    <2> QED
      BY <2>4, <2>5
  <1> HIDE DEF S
  <1>4. a \in S
    BY <1>2, <1>3, Backward
  <1>5. a <= a
    BY <1>1
  <1> QED
    BY <1>4, <1>5 DEF S

LEMMA ChordFall ==
    ASSUME Typing, {1, N} \subseteq kept, NEW a \in kept, NEW b \in kept, a <= b, NEW s \in Int,
           \A i \in Segments : a <= i /\ i < b => s <= SlopePct(i)
    PROVE  (2 * s - 1) * (X(b) - X(a)) <= 2 * (Grain * (Z(b) - Z(a)))
  <1>0. kept \subseteq 1 .. N /\ N \in Nat
    BY KeptFinite DEF Typing, TypeOK
  <1>1. \A k \in kept : k \in Int /\ X(k) \in Int /\ Z(k) \in Int
    BY <1>0, PointType
  <1> DEFINE Claim(k) == (2 * s - 1) * (X(b) - X(k)) <= 2 * (Grain * (Z(b) - Z(k)))
             S == {k \in kept : a <= k => Claim(k)}
  <1>2. b \in S
    <2>1. Z(b) - Z(b) = 0 /\ X(b) - X(b) = 0
      BY <1>1
    <2>2. Grain * 0 = 0 /\ (2 * s - 1) * 0 = 0
      BY ProfileAssumption
    <2> QED
      BY <2>1, <2>2
  <1>3. ASSUME NEW i \in Segments, i < b, After(i) \in S PROVE i \in S
    <2> SUFFICES ASSUME a <= i PROVE Claim(i)
      BY DEF Segments
    <2> DEFINE j == After(i)
    <2>1. /\ j \in kept /\ i \in kept /\ i < j
          /\ X(j) - X(i) \in Nat
          /\ SlopePct(i) \in Int /\ s <= SlopePct(i)
          /\ (2 * SlopePct(i) - 1) * (X(j) - X(i)) <= 2 * (Grain * (Z(j) - Z(i)))
      BY <1>3, SegmentFacts DEF Segments
    <2>2. Claim(j)
      BY <1>1, <1>3, <2>1
    <2> HIDE DEF j
    <2>3. Z(j) - Z(i) \in Int /\ Z(b) - Z(j) \in Int /\ X(b) - X(j) \in Int
      BY <1>1, <2>1
    <2>4. (2 * s - 1) * ((X(j) - X(i)) + (X(b) - X(j))) <= 2 * (Grain * ((Z(j) - Z(i)) + (Z(b) - Z(j))))
      BY <2>1, <2>2, <2>3, FallAdds
    <2>5. (Z(j) - Z(i)) + (Z(b) - Z(j)) = Z(b) - Z(i) /\ (X(j) - X(i)) + (X(b) - X(j)) = X(b) - X(i)
      BY <1>1, <2>1
    <2> QED
      BY <2>4, <2>5
  <1> HIDE DEF S
  <1>4. a \in S
    BY <1>2, <1>3, Backward
  <1>5. a <= a
    BY <1>1
  <1> QED
    BY <1>4, <1>5 DEF S

(* A point between two chords of slopes no more than s, then no less, is   *)
(* no higher over the whole than rounding makes it.                        *)
LEMMA Lever ==
    ASSUME NEW g \in Int, NEW l \in Nat, NEW r \in Nat, NEW p \in Int, NEW q \in Int, NEW s \in Int
    PROVE  /\ 2 * (g * p) <= (2 * s + 1) * l /\ (2 * s - 1) * r <= 2 * (g * q)
                => g * (r * p - l * q) <= l * r
           /\ (2 * s - 1) * l <= 2 * (g * p) /\ 2 * (g * q) <= (2 * s + 1) * r
                => -(g * (r * p - l * q)) <= l * r
  <1> DEFINE a == g * p
             b == g * q
             w == l * r
             v == s * w
  <1>1. a \in Int /\ b \in Int /\ w \in Int /\ v \in Int
    OBVIOUS
  <1>2. g * (r * p - l * q) = r * a - l * b
    OBVIOUS
  <1>3. r * ((2 * s + 1) * l) = 2 * v + w /\ r * ((2 * s - 1) * l) = 2 * v - w
    OBVIOUS
  <1>4. l * ((2 * s + 1) * r) = 2 * v + w /\ l * ((2 * s - 1) * r) = 2 * v - w
    OBVIOUS
  <1>5. r * (2 * a) = 2 * (r * a) /\ l * (2 * b) = 2 * (l * b) /\ r * a \in Int /\ l * b \in Int
    OBVIOUS
  <1>6. \A n \in Nat : \A x, y \in Int : x <= y => n * x <= n * y
    OBVIOUS
  <1>7. (2 * s + 1) * l \in Int /\ (2 * s - 1) * l \in Int /\ (2 * s + 1) * r \in Int /\ (2 * s - 1) * r \in Int
    OBVIOUS
  <1>8. 2 * a \in Int /\ 2 * b \in Int
    BY <1>1
  <1> HIDE DEF a, b, w, v
  <1>9. ASSUME 2 * a <= (2 * s + 1) * l, (2 * s - 1) * r <= 2 * b PROVE r * a - l * b <= w
    <2>1. r * (2 * a) <= r * ((2 * s + 1) * l)
      BY <1>6, <1>7, <1>8, <1>9
    <2>2. l * ((2 * s - 1) * r) <= l * (2 * b)
      BY <1>6, <1>7, <1>8, <1>9
    <2> QED
      BY <1>1, <1>3, <1>4, <1>5, <2>1, <2>2
  <1>10. ASSUME (2 * s - 1) * l <= 2 * a, 2 * b <= (2 * s + 1) * r PROVE -(r * a - l * b) <= w
    <2>1. r * ((2 * s - 1) * l) <= r * (2 * a)
      BY <1>6, <1>7, <1>8, <1>10
    <2>2. l * (2 * b) <= l * ((2 * s + 1) * r)
      BY <1>6, <1>7, <1>8, <1>10
    <2> QED
      BY <1>1, <1>3, <1>4, <1>5, <2>1, <2>2
  <1> QED
    BY <1>2, <1>9, <1>10 DEF a, b, w

LEMMA StepShape == Typing /\ CutInv /\ BriefInv /\ ShapeInv /\ [Next]_vars => ShapeInv'
  <1> SUFFICES ASSUME Typing, CutInv, BriefInv, ShapeInv, [Next]_vars PROVE ShapeInv'
    OBVIOUS
  <1>1. CASE Begin
    BY <1>1 DEF Begin, ShapeInv
  <1>2. CASE Cut
    BY <1>2 DEF Cut, ShapeInv
  <1>3. CASE Raise
    BY <1>3 DEF Raise, ShapeInv
  <1>4. CASE Settle
    BY <1>4 DEF Settle, ShapeInv, CutInv, N
  <1>5. CASE Merge
    BY <1>5 DEF Merge, ShapeInv, N
  <1>6. CASE Classify
    <2>1. N >= 2 /\ shape' = Shape /\ pc' = "done" /\ kept' = kept /\ profile' = profile
      BY <1>6 DEF Classify, ShapeInv
    <2>2. N' = N /\ Bends' = Bends /\ \A i : Bend(i)' = Bend(i)
      BY <2>1 DEF N, Bends, Segments, After, Ends, Bend, SlopePct, Length, X, Z
    <2>3. /\ Shape = "convex" => \A i \in Bends : Bend(i) >= 0
          /\ Shape = "concave" => \A i \in Bends : Bend(i) <= 0
      BY DEF Shape
    <2> QED
      BY <2>1, <2>2, <2>3 DEF ShapeInv
  <1>7. CASE UNCHANGED vars
    <2>1. N' = N /\ Bends' = Bends /\ \A i : Bend(i)' = Bend(i)
      BY <1>7 DEF vars, N, Bends, Segments, After, Ends, Bend, SlopePct, Length, X, Z
    <2> QED
      BY <1>7, <2>1 DEF vars, ShapeInv
  <1> QED
    BY <1>1, <1>2, <1>3, <1>4, <1>5, <1>6, <1>7 DEF Next

(* A profile called convex lies nowhere above its chord, one called        *)
(* concave nowhere below, but for what the rounding of the slopes hides:   *)
(* whatever was merged, and however many segments there are.               *)
THEOREM ShapeCorrect == Spec => []ShapeOfCurve
  <1>1. ASSUME Typing, BriefInv, ShapeInv PROVE ShapeOfCurve
    <2> SUFFICES ASSUME pc = "done", shape \in {"convex", "concave"}, NEW m \in kept
                 PROVE  LET slack == (X(m) - X(1)) * (X(N) - X(m))
                        IN  /\ shape = "convex" => Grain * Above(m) <= slack
                            /\ shape = "concave" => -Grain * Above(m) <= slack
      BY DEF ShapeOfCurve
    <2> USE <1>1
    <2>1. N >= 2 /\ N \in Nat /\ kept \subseteq 1 .. N /\ {1, N} \subseteq kept
      BY KeptFinite DEF ShapeInv, BriefInv, Typing, TypeOK
    <2>2. /\ \A k \in kept : k \in 1 .. N /\ k \in Int /\ X(k) \in Int /\ Z(k) \in Int
          /\ Grain \in Int
      BY <2>1, PointType, ProfileAssumption
    <2> DEFINE l == X(m) - X(1)
               r == X(N) - X(m)
               p == Z(m) - Z(1)
               q == Z(N) - Z(m)
    <2>3. l \in Int /\ r \in Int /\ p \in Int /\ q \in Int
      BY <2>1, <2>2
    <2>4. Above(m) = r * p - l * q
      BY DEF Above
    <2>5. l \in Nat /\ r \in Nat
      <3>1. \A i, j \in 1 .. N : i < j => X(i) < X(j)
        BY ProfileAssumption DEF Typing, X, N
      <3>2. (m = 1 \/ 1 < m) /\ (m = N \/ m < N)
        BY <2>1, <2>2
      <3>3. X(1) <= X(m) /\ X(m) <= X(N)
        BY <2>1, <2>2, <3>1, <3>2
      <3> QED
        BY <2>1, <2>2, <3>3
    <2>6. CASE m = N
      <3>1. r = 0 /\ q = 0
        BY <2>1, <2>2, <2>6
      <3>2. Above(m) = 0 /\ l * r = 0
        BY <2>3, <2>4, <3>1
      <3>3. Grain * 0 = 0 /\ (-Grain) * 0 = 0
        BY <2>2
      <3> QED
        BY <3>2, <3>3
    <2>7. CASE m # N
      <3> DEFINE s == SlopePct(m)
      <3>1. m \in Segments /\ s \in Int /\ 1 <= m /\ m <= N
        BY <2>1, <2>2, <2>7, SegmentFacts DEF Segments
      <3>2. \A i \in Segments : i \in kept /\ i \in Int
        BY <2>2 DEF Segments
      <3> DEFINE h == r * p - l * q
      <3>3. h \in Int
        BY <2>3
      <3>4. CASE shape = "convex"
        <4>1. \A i \in Segments : (i <= m => SlopePct(i) <= s) /\ (m <= i => s <= SlopePct(i))
          BY <2>1, <3>1, <3>4, SlopesRise DEF ShapeInv
        <4>2. 2 * (Grain * p) <= (2 * s + 1) * l
          <5>1. \A i \in Segments : 1 <= i /\ i < m => SlopePct(i) <= s
            BY <2>2, <3>2, <4>1
          <5> QED
            BY <2>1, <3>1, <5>1, ChordRise
        <4>3. (2 * s - 1) * r <= 2 * (Grain * q)
          <5>1. \A i \in Segments : m <= i /\ i < N => s <= SlopePct(i)
            BY <4>1
          <5> QED
            BY <2>1, <3>1, <5>1, ChordFall
        <4> HIDE DEF l, r, p, q, s
        <4>4. Grain * (r * p - l * q) <= l * r
          BY <2>2, <2>3, <2>5, <3>1, <4>2, <4>3, Lever
        <4> QED
          BY <2>4, <3>4, <4>4 DEF l, r
      <3>5. CASE shape = "concave"
        <4>1. \A i \in Segments : (i <= m => s <= SlopePct(i)) /\ (m <= i => SlopePct(i) <= s)
          BY <2>1, <3>1, <3>5, SlopesFall DEF ShapeInv
        <4>2. (2 * s - 1) * l <= 2 * (Grain * p)
          <5>1. \A i \in Segments : 1 <= i /\ i < m => s <= SlopePct(i)
            BY <2>2, <3>2, <4>1
          <5> QED
            BY <2>1, <3>1, <5>1, ChordFall
        <4>3. 2 * (Grain * q) <= (2 * s + 1) * r
          <5>1. \A i \in Segments : m <= i /\ i < N => SlopePct(i) <= s
            BY <4>1
          <5> QED
            BY <2>1, <3>1, <5>1, ChordRise
        <4> HIDE DEF l, r, p, q, s
        <4>4. -(Grain * (r * p - l * q)) <= l * r
          BY <2>2, <2>3, <2>5, <3>1, <4>2, <4>3, Lever
        <4>5. (-Grain) * (r * p - l * q) = -(Grain * (r * p - l * q))
          <5> HIDE DEF h
          <5>1. \A x, y \in Int : (-x) * y = -(x * y)
            OBVIOUS
          <5>2. (-Grain) * h = -(Grain * h)
            BY <2>2, <3>3, <5>1
          <5> QED
            BY <5>2 DEF h
        <4> QED
          BY <2>4, <3>5, <4>4, <4>5 DEF l, r
      <3> QED
        BY <3>4, <3>5
    <2> QED
      BY <2>6, <2>7
  <1>2. Init => Typing /\ CutInv /\ BriefInv /\ ShapeInv
    BY InitTyping, InitCut DEF Init, BriefInv, ShapeInv
  <1>3. Typing /\ CutInv /\ BriefInv /\ ShapeInv /\ [Next]_vars => Typing' /\ CutInv' /\ BriefInv' /\ ShapeInv'
    BY StepTyping, StepCut, StepBrief, StepShape
  <1> QED
    BY <1>1, <1>2, <1>3, PTL DEF Spec

-----------------------------------------------------------------------------
(* That a call ends: in every state before its end it can go on, and every *)
(* step brings it closer to the end.                                       *)

Stage ==
    CASE pc = "start" -> 3
      [] pc = "cut" -> 2
      [] pc = "merge" -> 1
      [] OTHER -> 0

(* Rounds to come; points not yet found in this round, or still to lose to *)
(* merges; stretches to look at.                                           *)
RoundsLeft == Rounds - round
PointsLeft == IF pc = "cut" THEN N - Cardinality(Posts) ELSE Cardinality(kept)
SpansLeft == Cardinality(spans)

Descends ==
    \/ Stage' < Stage
    \/ Stage' = Stage /\ RoundsLeft' < RoundsLeft
    \/ Stage' = Stage /\ RoundsLeft' = RoundsLeft /\ PointsLeft' < PointsLeft
    \/ Stage' = Stage /\ RoundsLeft' = RoundsLeft /\ PointsLeft' = PointsLeft /\ SpansLeft' < SpansLeft

Measured == Stage \in Nat /\ RoundsLeft \in Nat /\ PointsLeft \in Nat /\ SpansLeft \in Nat

(* The guard of an action is open; a stretch is split or not.              *)
Ready ==
    \/ pc = "start"
    \/ pc = "cut" /\ (spans = {} \/ \E s \in spans : \A t \in spans : s[1] <= t[1])
    \/ /\ pc = "merge"
       /\ \/ Cardinality(kept) <= 2 \/ Short = {}
          \/ \E i \in Short : \A j \in Short : i <= j

LEMMA PostsFinite ==
    ASSUME Typing
    PROVE  IsFiniteSet(Posts) /\ Cardinality(Posts) \in 0 .. N
  <1>1. N \in Nat /\ IsFiniteSet(1 .. N) /\ Cardinality(1 .. N) = N
    BY KeptFinite, FS_Interval
  <1>2. Posts \in SUBSET (1 .. N)
    BY DEF Posts
  <1>3. IsFiniteSet(Posts) /\ Cardinality(Posts) <= N
    BY <1>1, <1>2, FS_Subset
  <1> QED
    BY <1>1, <1>3, FS_CardinalityType

LEMMA SpansFinite ==
    ASSUME Typing
    PROVE  IsFiniteSet(spans) /\ Cardinality(spans) \in Nat
  <1>1. IsFiniteSet(1 .. N)
    BY KeptFinite, FS_Interval
  <1>2. IsFiniteSet((1 .. N) \X (1 .. N))
    BY <1>1, FS_Product
  <1>3. IsFiniteSet(spans)
    BY <1>2, FS_Subset DEF Typing, TypeOK
  <1> QED
    BY <1>3, FS_CardinalityType

(* A cut finds a new point, or settles a stretch and no point is new.      *)
LEMMA CutMakes ==
    ASSUME Typing, CutInv, Cut
    PROVE  \/ \E m \in (1 .. N) \ Posts : Posts' = Posts \union {m}
           \/ Posts' = Posts /\ \E s \in spans : spans' = spans \ {s}
  <1>0. N \in Nat /\ N' = N /\ pc = "cut"
    BY LenProperties DEF N, Typing, TypeOK, Cut
  <1>1. PICK i \in 1 .. N, j \in 1 .. N :
            /\ <<i, j>> \in spans
            /\ \/ /\ \E m \in i + 1 .. j - 1 : spans' = (spans \ {<<i, j>>}) \union {<<i, m>>, <<m, j>>}
                  /\ kept' = kept
               \/ /\ spans' = spans \ {<<i, j>>}
                  /\ kept' = kept \union {i, j}
    <2>1. PICK s \in spans :
              \/ /\ \E m \in s[1] + 1 .. s[2] - 1 : spans' = (spans \ {s}) \union {<<s[1], m>>, <<m, s[2]>>}
                 /\ kept' = kept
              \/ /\ spans' = spans \ {s}
                 /\ kept' = kept \union {s[1], s[2]}
      BY DEF Cut
    <2>2. s[1] \in 1 .. N /\ s[2] \in 1 .. N /\ s = <<s[1], s[2]>>
      BY Pairs DEF Typing, TypeOK
    <2> QED
      BY <2>1, <2>2
  <1>2. CASE spans' = spans \ {<<i, j>>} /\ kept' = kept \union {i, j}
    <2>1. \A a, b : <<a, b>> \in spans <=> <<a, b>> \in spans' \/ (a = i /\ b = j)
      BY <1>1, <1>2
    <2>2. Posts' = Posts
      BY <1>0, <1>1, <1>2, <2>1 DEF Posts
    <2> QED
      BY <1>1, <1>2, <2>2
  <1>3. ASSUME NEW m \in i + 1 .. j - 1,
               spans' = (spans \ {<<i, j>>}) \union {<<i, m>>, <<m, j>>}, kept' = kept
        PROVE  m \in (1 .. N) \ Posts /\ Posts' = Posts \union {m}
    <2>1. m \in Int /\ i < m /\ m < j /\ m \in 1 .. N
      BY <1>0
    <2>2. <<i, m>> \in spans' /\ <<m, j>> \in spans'
      BY <1>3
    <2>3. ASSUME NEW a, NEW b
          PROVE  /\ <<a, b>> \in spans => <<a, b>> \in spans' \/ (a = i /\ b = j)
                 /\ <<a, b>> \in spans' => <<a, b>> \in spans \/ (a = i /\ b = m) \/ (a = m /\ b = j)
      BY <1>3
    <2>4. Posts' = Posts \union {m}
      BY <1>0, <1>1, <1>3, <2>1, <2>2, <2>3 DEF Posts
    <2>5. Adjoin(Posts, i, j)
      BY <1>0, <1>1 DEF CutInv
    <2>6. m \notin Posts
      BY <2>1, <2>5 DEF Adjoin
    <2> QED
      BY <2>1, <2>4, <2>6
  <1> QED
    BY <1>1, <1>2, <1>3

LEMMA CutDescends == Typing /\ CutInv /\ Cut => Descends
  <1> SUFFICES ASSUME Typing, CutInv, Cut PROVE Descends
    OBVIOUS
  <1>1. /\ pc = "cut" /\ pc' = "cut" /\ N' = N /\ N \in Nat
        /\ Stage' = Stage /\ RoundsLeft' = RoundsLeft
    BY KeptFinite DEF Cut, N, Stage, RoundsLeft
  <1>2. PointsLeft = N - Cardinality(Posts) /\ PointsLeft' = N - Cardinality(Posts')
    BY <1>1 DEF PointsLeft
  <1>3. ASSUME NEW m \in (1 .. N) \ Posts, Posts' = Posts \union {m} PROVE Descends
    <2>1. Cardinality(Posts') = Cardinality(Posts) + 1 /\ Cardinality(Posts) \in Nat
      BY <1>3, PostsFinite, FS_AddElement
    <2>2. PointsLeft' < PointsLeft
      BY <1>1, <1>2, <2>1
    <2> QED
      BY <1>1, <2>2 DEF Descends
  <1>4. ASSUME Posts' = Posts, NEW s \in spans, spans' = spans \ {s} PROVE Descends
    <2>1. SpansLeft' < SpansLeft
      BY <1>4, SpansFinite, FS_RemoveElement DEF SpansLeft
    <2>2. PointsLeft' = PointsLeft
      BY <1>2, <1>4
    <2> QED
      BY <1>1, <2>1, <2>2 DEF Descends
  <1> QED
    BY <1>3, <1>4, CutMakes

LEMMA MergeDescends == Typing /\ BriefInv /\ ShapeInv /\ Merge => Descends
  <1> SUFFICES ASSUME Typing, BriefInv, ShapeInv, Merge PROVE Descends
    OBVIOUS
  <1>1. /\ pc = "merge" /\ pc' = "merge" /\ Stage' = Stage /\ RoundsLeft' = RoundsLeft
        /\ N \in kept
    BY DEF Merge, Stage, RoundsLeft, ShapeInv, BriefInv
  <1>2. PICK i \in Short : kept' = kept \ {Dropped(i)}
    BY DEF Merge
  <1>3. Ends(i, After(i)) /\ i \in kept
    BY <1>1, <1>2, AfterFacts DEF Short, Segments
  <1>4. Dropped(i) \in kept
    BY <1>3 DEF Dropped, Ends
  <1>5. PointsLeft' < PointsLeft
    BY <1>1, <1>2, <1>4, KeptFinite, FS_RemoveElement DEF PointsLeft
  <1> QED
    BY <1>1, <1>5 DEF Descends

(* Every step of the simplification brings it closer to its end: rounds,   *)
(* splits and merges are all used up.                                      *)
THEOREM StepsDescend == Spec => [][Descends]_vars /\ []Measured
  <1>1. ASSUME Typing, CutInv, BriefInv, ShapeInv, Next PROVE Descends
    <2>1. CASE Begin
      BY <2>1 DEF Begin, Stage, Descends
    <2>2. CASE Raise
      <3>1. round \in Nat /\ Rounds \in Nat /\ round' = round + 1
        BY <1>1, <2>2, ProfileAssumption DEF Typing, TypeOK, Raise
      <3>2. RoundsLeft' < RoundsLeft
        BY <3>1 DEF RoundsLeft
      <3>3. Stage' = Stage
        BY <2>2 DEF Raise, Stage
      <3> QED
        BY <3>2, <3>3 DEF Descends
    <2>3. CASE Settle
      BY <2>3 DEF Settle, Stage, Descends
    <2>4. CASE Classify
      BY <2>4 DEF Classify, Stage, Descends
    <2> QED
      BY <1>1, <2>1, <2>2, <2>3, <2>4, CutDescends, MergeDescends DEF Next
  <1>2. Typing /\ CutInv /\ BriefInv /\ ShapeInv /\ [Next]_vars => [Descends]_vars
    BY <1>1
  <1>3. ASSUME Typing PROVE Measured
    <2>1. Stage \in Nat
      BY DEF Stage
    <2>2. RoundsLeft \in Nat
      BY <1>3, ProfileAssumption DEF RoundsLeft, Typing, TypeOK
    <2>3. PointsLeft \in Nat
      BY <1>3, KeptFinite, PostsFinite DEF PointsLeft
    <2>4. SpansLeft \in Nat
      BY <1>3, SpansFinite DEF SpansLeft
    <2> QED
      BY <2>1, <2>2, <2>3, <2>4 DEF Measured
  <1>4. Init => Typing /\ CutInv /\ BriefInv /\ ShapeInv
    BY InitTyping, InitCut DEF Init, BriefInv, ShapeInv
  <1>5. Typing /\ CutInv /\ BriefInv /\ ShapeInv /\ [Next]_vars => Typing' /\ CutInv' /\ BriefInv' /\ ShapeInv'
    BY StepTyping, StepCut, StepBrief, StepShape
  <1> QED
    BY <1>2, <1>3, <1>4, <1>5, PTL DEF Spec

(* Until it has ended the simplification can go on: there is always a      *)
(* leftmost stretch, or a first short segment, where one is called for.    *)
THEOREM CallsGoOn == Spec => [](pc # "done" => Ready)
  <1>1. ASSUME Typing, pc # "done" PROVE Ready
    <2>1. pc \in {"start", "cut", "merge"}
      BY <1>1 DEF Typing, TypeOK
    <2>2. CASE pc = "cut" /\ spans # {}
      <3> DEFINE G == {s[1] : s \in spans}
      <3>1. ASSUME NEW s \in spans PROVE s[1] \in Nat
        BY <1>1, Pairs DEF Typing, TypeOK
      <3>2. G \in SUBSET Nat /\ G # {}
        BY <2>2, <3>1
      <3>3. PICK g \in G : \A h \in G : g <= h
        BY <3>2, Least
      <3>4. PICK s \in spans : g = s[1]
        BY <3>3
      <3>5. \A t \in spans : s[1] <= t[1]
        BY <3>3, <3>4
      <3> QED
        BY <2>2, <3>4, <3>5 DEF Ready
    <2>3. CASE pc = "merge" /\ Short # {}
      <3>0. kept \subseteq 1 .. N /\ \A n \in 1 .. N : n \in Nat
        BY <1>1, KeptFinite DEF Typing, TypeOK
      <3>1. Short \in SUBSET Nat
        BY <3>0 DEF Short, Segments
      <3>2. \E i \in Short : \A j \in Short : i <= j
        BY <2>3, <3>1, Least
      <3> QED
        BY <2>3, <3>2 DEF Ready
    <2> QED
      BY <2>1, <2>2, <2>3 DEF Ready
  <1>2. Init => Typing /\ CutInv
    BY InitTyping, InitCut
  <1>3. Typing /\ CutInv /\ [Next]_vars => Typing' /\ CutInv'
    BY StepTyping, StepCut
  <1> QED
    BY <1>1, <1>2, <1>3, PTL DEF Spec

=============================================================================
