-------------------------- MODULE TileCoverProofs --------------------------
(***************************************************************************)
(* Theorems of TileCover, for any boundaries, areas, buffers and limit,    *)
(* and any number of units to the degree.                                  *)
(***************************************************************************)
EXTENDS TileCover, SequenceTheorems, FiniteSetTheorems, TLAPS

(* Box a lies inside box b. *)
Inside(a, b) == b.w <= a.w /\ b.s <= a.s /\ a.e <= b.e /\ a.n <= b.n

(* Every side of b is a side of a box of S. *)
Tight(b, S) ==
    /\ \E a \in S : a.w = b.w
    /\ \E a \in S : a.s = b.s
    /\ \E a \in S : a.e = b.e
    /\ \E a \in S : a.n = b.n

(* b is the smallest box around those of S. *)
Hull(b, S) == b \in Box /\ (\A a \in S : Inside(a, b)) /\ Tight(b, S)

(* A box in the quadrant the file names are made for. *)
OnGround(b) ==
    /\ b \in Box /\ b.w <= b.e /\ b.s <= b.n
    /\ 9 * Deg < b.s /\ b.n <= 99 * Deg /\ 9 * Deg < -b.e /\ -b.w <= 999 * Deg

-----------------------------------------------------------------------------
(* Arithmetic. *)

LEMMA Times ==
    ASSUME NEW a \in Int, NEW b \in Int
    PROVE  /\ a * Deg \in Int
           /\ a * Deg < b * Deg => a < b
           /\ a <= b => a * Deg <= b * Deg
           /\ (a - 1) * Deg = a * Deg - Deg
           /\ (1 - a) * Deg = Deg - a * Deg
           /\ (-a) * Deg = -(a * Deg)
  <1>1. Deg \in Nat \ {0}
    BY GroundAssumption
  <1> QED
    BY <1>1

(* The ceiling is the one whole degree at most a degree above. *)
LEMMA CeilFacts ==
    ASSUME NEW x \in Int
    PROVE  /\ Ceil(x) \in Int
           /\ (Ceil(x) - 1) * Deg < x
           /\ x <= Ceil(x) * Deg
  <1> DEFINE q == (x + Deg - 1) \div Deg
  <1>1. Deg \in Nat \ {0}
    BY GroundAssumption
  <1>2. q \in Int /\ q * Deg <= x + Deg - 1 /\ x + Deg - 1 < q * Deg + Deg
    BY <1>1
  <1>3. (q - 1) * Deg = q * Deg - Deg /\ q * Deg \in Int
    BY <1>1, <1>2
  <1>4. (q - 1) * Deg < x /\ x <= q * Deg
    <2> HIDE DEF q
    <2> QED
      BY <1>1, <1>2, <1>3
  <1> QED
    BY <1>2, <1>4 DEF Ceil

LEMMA CeilUnique ==
    ASSUME NEW x \in Int, NEW k \in Int
    PROVE  /\ x <= k * Deg => Ceil(x) <= k
           /\ (k - 1) * Deg < x => k <= Ceil(x)
  <1> DEFINE c == Ceil(x)
  <1>1. c \in Int /\ (c - 1) * Deg < x /\ x <= c * Deg
    BY CeilFacts
  <1>2. c - 1 \in Int /\ k - 1 \in Int
    BY <1>1
  <1> HIDE DEF c
  <1>3. (c - 1) * Deg \in Int /\ k * Deg \in Int /\ c * Deg \in Int /\ (k - 1) * Deg \in Int
    BY <1>1, <1>2, Times
  <1>4. x <= k * Deg => c - 1 < k
    BY <1>1, <1>2, <1>3, Times
  <1>5. (k - 1) * Deg < x => k - 1 < c
    BY <1>1, <1>2, <1>3, Times
  <1>6. (x <= k * Deg => c <= k) /\ ((k - 1) * Deg < x => k <= c)
    BY <1>1, <1>4, <1>5
  <1> QED
    BY <1>6 DEF c

LEMMA FirstLast ==
    ASSUME NEW a \in Int, NEW b \in Int, a <= b
    PROVE  First(a .. b) = a /\ Last(a .. b) = b
  BY DEF First, Last

(* On covered ground both paths loop over the same, non-empty ranges. *)
LEMMA Ranges ==
    ASSUME NEW b, OnGround(b)
    PROVE  /\ Ceil(b.s) \in Int /\ Ceil(b.n) \in Int /\ Ceil(-b.e) \in Int /\ Ceil(-b.w) \in Int
           /\ Ceil(b.s) \in 10 .. 99 /\ Ceil(b.n) \in 10 .. 99 /\ Ceil(b.s) <= Ceil(b.n)
           /\ Ceil(-b.e) \in 10 .. 999 /\ Ceil(-b.w) \in 10 .. 999 /\ Ceil(-b.e) <= Ceil(-b.w)
           /\ WorkerLats(b) = Ceil(b.s) .. Ceil(b.n) /\ SyncLats(b) = Ceil(b.s) .. Ceil(b.n)
           /\ WorkerLngs(b) = Ceil(-b.e) .. Ceil(-b.w) /\ SyncLngs(b) = Ceil(-b.e) .. Ceil(-b.w)
  <1>1. /\ b.w \in Int /\ b.s \in Int /\ b.e \in Int /\ b.n \in Int
        /\ -b.w \in Int /\ -b.e \in Int
    BY DEF OnGround, Box
  <1>2. Deg \in Nat \ {0} /\ 9 * Deg = (10 - 1) * Deg /\ 9 * Deg > 0
    BY GroundAssumption
  <1>3. /\ (10 - 1) * Deg < b.s /\ b.n <= 99 * Deg /\ b.s <= b.n
        /\ (10 - 1) * Deg < -b.e /\ -b.w <= 999 * Deg /\ -b.e <= -b.w
    BY <1>1, <1>2 DEF OnGround
  <1>4. 10 <= Ceil(b.s) /\ Ceil(b.n) <= 99 /\ 10 <= Ceil(-b.e) /\ Ceil(-b.w) <= 999
    BY <1>1, <1>3, CeilUnique
  <1>5. /\ Ceil(b.s) \in Int /\ Ceil(b.n) \in Int /\ Ceil(-b.e) \in Int /\ Ceil(-b.w) \in Int
        /\ b.n <= Ceil(b.n) * Deg /\ -b.w <= Ceil(-b.w) * Deg
        /\ Ceil(b.n) * Deg \in Int /\ Ceil(-b.w) * Deg \in Int
    BY <1>1, CeilFacts, Times
  <1>6. b.s <= Ceil(b.n) * Deg /\ -b.e <= Ceil(-b.w) * Deg
    BY <1>1, <1>3, <1>5
  <1>7. Ceil(b.s) <= Ceil(b.n) /\ Ceil(-b.e) <= Ceil(-b.w)
    BY <1>1, <1>5, <1>6, CeilUnique
  <1>8. b.s > 0 /\ b.n > 0 /\ b.e < 0 /\ b.w < 0
    BY <1>1, <1>2, <1>3
  <1>9. /\ RoundHigher(b.s) = Ceil(b.s) /\ RoundHigher(b.n) = Ceil(b.n)
        /\ RoundHigher(b.e) = Ceil(-b.e) /\ RoundHigher(b.w) = Ceil(-b.w)
    BY <1>1, <1>8 DEF RoundHigher
  <1>10. ASSUME NEW lo \in Int, NEW hi \in Int, lo <= hi PROVE SpanOrOne(lo, hi) = lo .. hi
    BY <1>10 DEF SpanOrOne
  <1>11. WorkerLats(b) = Ceil(b.s) .. Ceil(b.n) /\ WorkerLngs(b) = Ceil(-b.e) .. Ceil(-b.w)
    BY <1>5, <1>7, <1>9, <1>10 DEF WorkerLats, WorkerLngs
  <1>12. SyncLats(b) = Ceil(b.s) .. Ceil(b.n) /\ SyncLngs(b) = Ceil(-b.e) .. Ceil(-b.w)
    BY DEF SyncLats, SyncLngs
  <1>13. Ceil(b.s) <= 99 /\ 10 <= Ceil(b.n) /\ Ceil(-b.e) <= 999 /\ 10 <= Ceil(-b.w)
    BY <1>4, <1>5, <1>7
  <1>14. /\ Ceil(b.s) \in 10 .. 99 /\ Ceil(b.n) \in 10 .. 99
         /\ Ceil(-b.e) \in 10 .. 999 /\ Ceil(-b.w) \in 10 .. 999
    BY <1>4, <1>5, <1>13
  <1> QED
    BY <1>5, <1>7, <1>11, <1>12, <1>14

-----------------------------------------------------------------------------
(* Boxes. *)

LEMMA UnionFacts ==
    ASSUME NEW a \in Box, NEW b \in Box
    PROVE  /\ UnionExtent(a, b) \in Box
           /\ Hull(UnionExtent(a, b), {a, b})
  <1> DEFINE u == UnionExtent(a, b)
  <1>1. u.w = Lesser(a.w, b.w) /\ u.s = Lesser(a.s, b.s)
        /\ u.e = Greater(a.e, b.e) /\ u.n = Greater(a.n, b.n)
    BY DEF UnionExtent
  <1>2. /\ a.w \in Int /\ a.s \in Int /\ a.e \in Int /\ a.n \in Int
        /\ b.w \in Int /\ b.s \in Int /\ b.e \in Int /\ b.n \in Int
    BY DEF Box
  <1>3. u \in Box
    BY <1>2 DEF UnionExtent, Box, Lesser, Greater
  <1>4. Inside(a, u) /\ Inside(b, u)
    BY <1>1, <1>2 DEF Inside, Lesser, Greater
  <1>5. /\ u.w = a.w \/ u.w = b.w
        /\ u.s = a.s \/ u.s = b.s
        /\ u.e = a.e \/ u.e = b.e
        /\ u.n = a.n \/ u.n = b.n
    BY <1>1 DEF Lesser, Greater
  <1>6. Tight(u, {a, b})
    BY <1>5 DEF Tight
  <1> QED
    BY <1>3, <1>4, <1>6 DEF Hull

(* The hull of a set and one more box. *)
LEMMA HullGrows ==
    ASSUME NEW S \in SUBSET Box, NEW a, Hull(a, S), NEW b \in Box
    PROVE  Hull(UnionExtent(a, b), S \union {b}) /\ Hull(UnionExtent(b, a), {b} \union S)
  <1>1. a \in Box
    BY DEF Hull
  <1>2. ASSUME NEW u, Hull(u, {a, b}) PROVE Hull(u, S \union {b})
    <2>1. u \in Box /\ Inside(a, u) /\ Inside(b, u) /\ Tight(u, {a, b})
      BY <1>2 DEF Hull
    <2>2. ASSUME NEW c \in S PROVE Inside(c, u)
      <3>1. Inside(c, a)
        BY DEF Hull
      <3>2. /\ a.w \in Int /\ a.s \in Int /\ a.e \in Int /\ a.n \in Int
            /\ c.w \in Int /\ c.s \in Int /\ c.e \in Int /\ c.n \in Int
            /\ u.w \in Int /\ u.s \in Int /\ u.e \in Int /\ u.n \in Int
        BY <1>1, <2>1 DEF Box
      <3> QED
        BY <2>1, <3>1, <3>2 DEF Inside
    <2>3. Tight(a, S)
      BY DEF Hull
    <2>4. Tight(u, S \union {b})
      BY <2>1, <2>3 DEF Tight
    <2> QED
      BY <2>1, <2>2, <2>4 DEF Hull
  <1>3. Hull(UnionExtent(a, b), {a, b}) /\ Hull(UnionExtent(b, a), {b, a})
    BY <1>1, UnionFacts
  <1>4. {b, a} = {a, b} /\ {b} \union S = S \union {b}
    OBVIOUS
  <1> QED
    BY <1>2, <1>3, <1>4

LEMMA BufferFacts ==
    ASSUME NEW b \in Box, NEW pad \in Nat
    PROVE  /\ Buffer(b, pad) \in Box
           /\ Buffer(b, pad).w = b.w - pad /\ Buffer(b, pad).s = b.s - pad
           /\ Buffer(b, pad).e = b.e + pad /\ Buffer(b, pad).n = b.n + pad
  BY DEF Buffer, Box

(* The boxes of requests stay on covered ground, padded or not. *)
LEMMA BoxesOnGround ==
    ASSUME NEW b \in Boxes, NEW pad \in {0, FieldBuffer, SyncBuffer}
    PROVE  OnGround(Buffer(b, pad)) /\ b \in Box
  <1>1. b \in Box /\ pad \in Nat /\ Deg \in Nat /\ FieldBuffer \in Nat
    BY GroundAssumption
  <1>2. /\ b.w \in Int /\ b.s \in Int /\ b.e \in Int /\ b.n \in Int
        /\ b.w <= b.e /\ b.s <= b.n
    BY <1>1, GroundAssumption DEF Box
  <1>3. /\ 9 * Deg < b.s - pad /\ b.n + pad <= 99 * Deg
        /\ 9 * Deg < -(b.e + pad) /\ -(b.w - pad) <= 999 * Deg
    <2>1. CASE pad \in {FieldBuffer, SyncBuffer}
      BY <2>1, GroundAssumption
    <2>2. CASE pad = 0
      <3>1. /\ 9 * Deg < b.s - FieldBuffer /\ b.n + FieldBuffer <= 99 * Deg
            /\ 9 * Deg < -(b.e + FieldBuffer) /\ -(b.w - FieldBuffer) <= 999 * Deg
        BY GroundAssumption
      <3> QED
        BY <1>1, <1>2, <2>2, <3>1
    <2> QED
      BY <2>1, <2>2
  <1> DEFINE c == Buffer(b, pad)
  <1>4. c \in Box /\ c.w = b.w - pad /\ c.s = b.s - pad /\ c.e = b.e + pad /\ c.n = b.n + pad
    BY <1>1, BufferFacts
  <1>5. c.w <= c.e /\ c.s <= c.n
    BY <1>1, <1>2, <1>4
  <1>6. 9 * Deg < c.s /\ c.n <= 99 * Deg /\ 9 * Deg < -c.e /\ -c.w <= 999 * Deg
    BY <1>3, <1>4
  <1> QED
    BY <1>1, <1>4, <1>5, <1>6 DEF OnGround

(* A hull of boxes on covered ground is on covered ground. *)
LEMMA HullOnGround ==
    ASSUME NEW S, \A a \in S : OnGround(a), NEW b, Hull(b, S)
    PROVE  OnGround(b)
  <1>1. PICK a1 \in S : a1.w = b.w
    BY DEF Hull, Tight
  <1>2. PICK a2 \in S : a2.s = b.s
    BY DEF Hull, Tight
  <1>3. PICK a3 \in S : a3.e = b.e
    BY DEF Hull, Tight
  <1>4. PICK a4 \in S : a4.n = b.n
    BY DEF Hull, Tight
  <1>5. OnGround(a1) /\ OnGround(a2) /\ OnGround(a3) /\ OnGround(a4) /\ b \in Box
    BY DEF Hull
  <1>6. /\ b.w \in Int /\ b.s \in Int /\ b.e \in Int /\ b.n \in Int
        /\ a1.e \in Int /\ a2.n \in Int
    BY <1>5 DEF OnGround, Box
  <1>7. a1.e <= b.e /\ a2.n <= b.n
    BY DEF Hull, Inside
  <1>8. b.w <= a1.e /\ b.s <= a2.n
    BY <1>1, <1>2, <1>5 DEF OnGround
  <1>9. b.w <= b.e /\ b.s <= b.n
    BY <1>6, <1>7, <1>8
  <1>10. 9 * Deg < b.s /\ b.n <= 99 * Deg /\ 9 * Deg < -b.e /\ -b.w <= 999 * Deg
    BY <1>1, <1>2, <1>3, <1>4, <1>5 DEF OnGround
  <1> QED
    BY <1>5, <1>9, <1>10 DEF OnGround

(* Padding every box pads the hull. *)
LEMMA HullBuffer ==
    ASSUME NEW S \in SUBSET Box, NEW b, Hull(b, S), NEW pad \in Nat
    PROVE  Hull(Buffer(b, pad), {Buffer(a, pad) : a \in S})
  <1> DEFINE P == {Buffer(a, pad) : a \in S}
             c == Buffer(b, pad)
  <1>1. b \in Box /\ Tight(b, S)
    BY DEF Hull
  <1>2. c \in Box /\ c.w = b.w - pad /\ c.s = b.s - pad /\ c.e = b.e + pad /\ c.n = b.n + pad
    BY <1>1, BufferFacts
  <1>3. ASSUME NEW p \in P PROVE Inside(p, c)
    <2>1. PICK a \in S : p = Buffer(a, pad)
      OBVIOUS
    <2>2. a \in Box /\ Inside(a, b)
      BY DEF Hull
    <2>3. p.w = a.w - pad /\ p.s = a.s - pad /\ p.e = a.e + pad /\ p.n = a.n + pad
      BY <2>1, <2>2, BufferFacts
    <2>4. /\ a.w \in Int /\ a.s \in Int /\ a.e \in Int /\ a.n \in Int
          /\ b.w \in Int /\ b.s \in Int /\ b.e \in Int /\ b.n \in Int
      BY <1>1, <2>2 DEF Box
    <2> HIDE DEF c
    <2> QED
      BY <1>2, <2>2, <2>3, <2>4 DEF Inside
  <1>4. Tight(c, P)
    <2>1. ASSUME NEW a \in S
          PROVE  /\ Buffer(a, pad) \in P
                 /\ Buffer(a, pad).w = a.w - pad /\ Buffer(a, pad).s = a.s - pad
                 /\ Buffer(a, pad).e = a.e + pad /\ Buffer(a, pad).n = a.n + pad
      BY BufferFacts
    <2> HIDE DEF c, P
    <2> QED
      BY <1>1, <1>2, <2>1 DEF Tight
  <1> QED
    BY <1>2, <1>3, <1>4 DEF Hull

-----------------------------------------------------------------------------
(* The inductive invariant. *)

(* The corners of the loops over the extent. *)
South == Ceil(box.s)
North == Ceil(box.n)
East == Ceil(-box.e)
West == Ceil(-box.w)
Grid == (South .. North) \X (East .. West)

(* The order of the nested loops. *)
Before(t, u) == t[1] < u[1] \/ (t[1] = u[1] /\ t[2] < u[2])

(* The loops over the tiles have begun. *)
Looped == pc \in {"tiles", "done"} \/ (pc = "refused" /\ boundary # <<>>)

Typing ==
    /\ TypeOK
    /\ path = "worker" /\ pc \notin {"field", "failed"} => boundary # <<>>
    /\ pc \in {"field", "failed"} => path = "worker"
    /\ pc = "refused" => path = "sync"
    /\ pc = "field" => seen = 0 /\ span = NoBox
    /\ ~Looped => asked = <<>>

(* The envelopes of the features looked at so far. *)
Seen == {Features[i] : i \in 1 .. seen} \ {NoBox}

SpanSound == (Seen = {} /\ span = NoBox) \/ Hull(span, Seen)

BoxSound == Looped => OnGround(box) /\ Hull(box, Windows)

LoopSound ==
    Looped =>
        /\ tile[1] \in South .. North + 1 /\ tile[2] \in East .. West
        /\ tile[1] = North + 1 => tile[2] = East
        /\ \A i \in 1 .. Len(asked) : asked[i] \in Grid /\ Before(asked[i], tile)
        /\ \A t \in Grid : Before(t, tile) => \E i \in 1 .. Len(asked) : asked[i] = t
        /\ \A i, j \in 1 .. Len(asked) : i < j => Before(asked[i], asked[j])
        /\ Len(asked) = (tile[1] - South) * (West - East + 1) + (tile[2] - East)

EndSound ==
    /\ pc = "done" \/ (pc = "refused" /\ boundary # <<>>) => tile[1] = North + 1
    /\ pc = "refused" /\ boundary # <<>> => Len(asked) > MaxTiles
    /\ pc = "done" /\ path = "sync" => Len(asked) <= MaxTiles

IInv == Typing /\ SpanSound /\ BoxSound /\ LoopSound /\ EndSound

(* A feature is a box or has no geometry; one of the boundary is a box. *)
LEMMA FeatureAt ==
    ASSUME TypeOK
    PROVE  /\ Features \in Seq(Boxes \union {NoBox})
           /\ Len(Features) \in Nat /\ seen \in Nat
           /\ \A i \in 1 .. Len(Features) : Features[i] \in Boxes \union {NoBox}
           /\ \A i \in 1 .. Len(boundary) : boundary[i] \in Boxes
           /\ Seen \subseteq Boxes
           /\ boundary # <<>> => boundary[1] \in Boxes
  <1>1. boundary \in Seq(Boxes) /\ area \in Seq(Boxes \union {NoBox})
    BY DEF TypeOK
  <1>2. boundary \in Seq(Boxes \union {NoBox})
    BY <1>1, SeqMonotonic
  <1>3. Features \in Seq(Boxes \union {NoBox})
    BY <1>1, <1>2 DEF Features
  <1>4. Len(Features) \in Nat /\ \A i \in 1 .. Len(Features) : Features[i] \in Boxes \union {NoBox}
    BY <1>3, LenProperties, ElementOfSeq
  <1>5. \A i \in 1 .. Len(boundary) : boundary[i] \in Boxes
    BY <1>1, ElementOfSeq
  <1>6. seen \in 0 .. Len(Features)
    BY DEF TypeOK
  <1>7. Seen \subseteq Boxes
    BY <1>4, <1>6 DEF Seen
  <1>8. boundary # <<>> => boundary[1] \in Boxes
    <2>1. Len(boundary) \in Nat /\ (boundary # <<>> => Len(boundary) # 0)
      BY <1>1, LenProperties, EmptySeq
    <2> QED
      BY <1>5, <2>1
  <1> QED
    BY <1>3, <1>4, <1>5, <1>6, <1>7, <1>8

LEMMA InitInv == Init => IInv
  <1> SUFFICES ASSUME Init PROVE IInv
    OBVIOUS
  <1>1. boundary \in Seq(Boxes) /\ area \in Seq(Boxes \union {NoBox})
    <2>1. <<>> \in Seq(Boxes \union {NoBox})
      BY EmptySeq
    <2> QED
      BY <2>1, RequestsAssumption DEF Init
  <1>2. Len(Features) \in Nat
    BY <1>1, LenProperties DEF Features
  <1>3. asked \in Seq(Int \X Int)
    BY EmptySeq DEF Init
  <1>4. TypeOK
    BY <1>1, <1>2, <1>3 DEF Init, TypeOK, Points
  <1>5. Seen = {}
    BY DEF Init, Seen
  <1>6. ~Looped
    BY DEF Init, Looped
  <1> QED
    BY <1>4, <1>5, <1>6 DEF Init, IInv, Typing, SpanSound, BoxSound, LoopSound, EndSound, Looped

-----------------------------------------------------------------------------
(* Before the loops. *)

LEMMA FieldStep == IInv /\ Field => IInv'
  <1> SUFFICES ASSUME IInv, Field PROVE IInv'
    OBVIOUS
  <1>1. TypeOK'
    BY DEF IInv, Typing, TypeOK, Field, Features, Points
  <1>2. SpanSound'
    BY DEF IInv, SpanSound, Seen, Features, Field
  <1>3. path = "worker" /\ ~Looped
    BY DEF IInv, Typing, Field, Looped
  <1>4. ~Looped'
    BY DEF Field, Looped
  <1>5. pc' \in {"failed", "features"} /\ (pc' = "features" => boundary # <<>>)
    BY DEF Field
  <1>6. Typing'
    BY <1>1, <1>3, <1>4, <1>5 DEF IInv, Typing, Field
  <1> QED
    BY <1>2, <1>4, <1>5, <1>6 DEF IInv, BoxSound, LoopSound, EndSound, Looped

LEMMA FeatureStep == IInv /\ Feature => IInv'
  <1> SUFFICES ASSUME IInv, Feature PROVE IInv'
    OBVIOUS
  <1> DEFINE f == Features[seen + 1]
  <1>1. TypeOK /\ SpanSound /\ ~Looped
    BY DEF IInv, Typing, Feature, Looped
  <1>2. /\ seen \in Nat /\ Len(Features) \in Nat /\ seen < Len(Features)
        /\ seen + 1 \in 1 .. Len(Features)
        /\ \A i \in 1 .. Len(Features) : Features[i] \in Boxes \union {NoBox}
    BY <1>1, FeatureAt DEF Feature
  <1>3. f \in Boxes \union {NoBox} /\ Boxes \subseteq Box /\ NoBox \notin Box
    BY <1>2, GroundAssumption
  <1>4. Features' = Features /\ seen' = seen + 1
    BY DEF Feature, Features
  <1>5. Seen' = Seen \union ({f} \ {NoBox})
    <2>1. 1 .. seen + 1 = (1 .. seen) \union {seen + 1}
      BY <1>2
    <2>2. {Features[i] : i \in 1 .. seen + 1} = {Features[i] : i \in 1 .. seen} \union {f}
      BY <2>1
    <2>3. Seen' = {Features[i] : i \in 1 .. seen + 1} \ {NoBox}
      BY <1>4 DEF Seen
    <2> QED
      BY <2>2, <2>3 DEF Seen
  <1>6. Seen \in SUBSET Box
    BY <1>1, <1>3, FeatureAt
  <1> HIDE DEF f
  <1>7. SpanSound'
    <2>1. CASE f = NoBox
      <3>1. span' = span
        BY <2>1 DEF Feature, f
      <3>2. Seen' = Seen
        BY <1>5, <2>1
      <3> QED
        BY <1>1, <3>1, <3>2 DEF SpanSound, Hull, Tight, Inside
    <2>2. CASE f # NoBox /\ span = NoBox
      <3>1. span' = f
        BY <2>2 DEF Feature, f
      <3>2. Seen = {}
        BY <1>1, <1>3, <2>2 DEF SpanSound, Hull
      <3>3. Seen' = {f}
        BY <1>5, <2>2, <3>2
      <3>4. f \in Box
        BY <1>3, <2>2
      <3>5. Hull(f, {f})
        BY <3>4 DEF Hull, Tight, Inside, Box
      <3> QED
        BY <3>1, <3>3, <3>5 DEF SpanSound, Hull, Tight, Inside
    <2>3. CASE f # NoBox /\ span # NoBox
      <3>1. span' = UnionExtent(span, f)
        BY <2>3 DEF Feature, f
      <3>2. Hull(span, Seen)
        BY <1>1, <2>3 DEF SpanSound
      <3>3. f \in Box /\ Seen' = Seen \union {f}
        BY <1>3, <1>5, <2>3
      <3>4. Hull(UnionExtent(span, f), Seen \union {f})
        BY <1>6, <3>2, <3>3, HullGrows
      <3> QED
        BY <3>1, <3>3, <3>4 DEF SpanSound, Hull, Tight, Inside
    <2> QED
      BY <2>1, <2>2, <2>3
  <1>8. span' \in Box \union {NoBox}
    BY <1>7 DEF SpanSound, Hull
  <1>9. TypeOK'
    <2>1. seen' \in 0 .. Len(Features)
      BY <1>2, <1>4
    <2> QED
      BY <1>1, <1>4, <1>8, <2>1 DEF TypeOK, Feature
  <1>10. ~Looped' /\ pc' = "features" /\ pc = "features"
    BY DEF Feature, Looped
  <1>11. Typing'
    BY <1>1, <1>9, <1>10 DEF IInv, Typing, Feature
  <1> QED
    BY <1>7, <1>10, <1>11 DEF IInv, BoxSound, LoopSound, EndSound

(* Nothing but features without geometry: a boundary has none of them. *)
LEMMA NoCoordinatesStep == IInv /\ NoCoordinates => IInv'
  <1> SUFFICES ASSUME IInv, NoCoordinates PROVE IInv'
    OBVIOUS
  <1>1. TypeOK /\ SpanSound /\ span = NoBox /\ path = "sync" /\ seen = Len(Features) /\ ~Looped
    BY DEF IInv, Typing, NoCoordinates, Looped
  <1>2. Features = boundary /\ boundary \in Seq(Boxes)
    BY <1>1 DEF Features, TypeOK
  <1>3. Seen = {}
    BY <1>1, GroundAssumption DEF SpanSound, Hull
  <1>4. boundary = <<>>
    <2> SUFFICES ASSUME boundary # <<>> PROVE FALSE
      OBVIOUS
    <2>1. Len(boundary) \in Nat /\ Len(boundary) # 0
      BY <1>2, LenProperties, EmptySeq
    <2>2. boundary[1] \in Boxes
      BY <1>1, FeatureAt
    <2>3. boundary[1] # NoBox
      BY <2>2, GroundAssumption
    <2>4. boundary[1] \in {Features[i] : i \in 1 .. seen}
      BY <1>1, <1>2, <2>1
    <2> QED
      BY <1>3, <2>3, <2>4 DEF Seen
  <1>5. TypeOK'
    BY <1>1 DEF TypeOK, NoCoordinates, Features, Points
  <1>6. SpanSound'
    BY <1>1, <1>3 DEF SpanSound, Seen, Features, NoCoordinates
  <1>7. ~Looped' /\ pc' = "refused" /\ boundary' = <<>> /\ path' = "sync"
    BY <1>1, <1>4 DEF Looped, NoCoordinates
  <1>8. Typing'
    BY <1>1, <1>5, <1>7 DEF IInv, Typing, NoCoordinates
  <1> QED
    BY <1>6, <1>7, <1>8 DEF IInv, BoxSound, LoopSound, EndSound

(* The corners are whole degrees of covered ground. *)
LEMMA Corners ==
    ASSUME OnGround(box)
    PROVE  /\ South \in Int /\ North \in Int /\ South <= North
           /\ East \in Int /\ West \in Int /\ East <= West
           /\ Lats(box) = South .. North /\ Lngs(box) = East .. West
           /\ First(Lats(box)) = South /\ First(Lngs(box)) = East /\ Last(Lngs(box)) = West
  <1>1. /\ South \in Int /\ North \in Int /\ South <= North
        /\ East \in Int /\ West \in Int /\ East <= West
    BY Ranges DEF South, North, East, West
  <1>2. Lats(box) = South .. North /\ Lngs(box) = East .. West
    BY Ranges DEF Lats, Lngs, South, North, East, West
  <1> QED
    BY <1>1, <1>2, FirstLast

(* The loops begin on the hull of the windows. *)
LEMMA LoopBegins ==
    ASSUME IInv, pc = "features", path = "worker" => boundary # <<>>,
           NEW b, Loop(b), OnGround(b), Hull(b, Windows)
    PROVE  IInv'
  <1>1. TypeOK /\ SpanSound /\ asked = <<>>
    BY DEF IInv, Typing, Looped
  <1>2. box' = b /\ asked' = <<>> /\ pc' = "tiles" /\ path' = path /\ boundary' = boundary
        /\ area' = area /\ seen' = seen /\ span' = span
    BY <1>1 DEF Loop
  <1>3. First(Lats(b)) = Ceil(b.s) /\ First(Lngs(b)) = Ceil(-b.e)
    <2>1. Lats(b) = Ceil(b.s) .. Ceil(b.n) /\ Lngs(b) = Ceil(-b.e) .. Ceil(-b.w)
      BY Ranges DEF Lats, Lngs
    <2> QED
      BY <2>1, Ranges, FirstLast
  <1>4. tile' = <<Ceil(b.s), Ceil(-b.e)>>
    BY <1>3 DEF Loop
  <1>5. South' = Ceil(b.s) /\ North' = Ceil(b.n) /\ East' = Ceil(-b.e) /\ West' = Ceil(-b.w)
    BY <1>2 DEF South, North, East, West, Ceil
  <1>6. /\ South' \in Int /\ North' \in Int /\ South' <= North'
        /\ East' \in Int /\ West' \in Int /\ East' <= West'
    BY <1>5, Ranges
  <1>7. tile' = <<South', East'>> /\ tile'[1] = South' /\ tile'[2] = East'
    BY <1>4, <1>5
  <1>8. Looped' /\ Windows' = Windows
    BY <1>2 DEF Looped, Windows
  <1>9. TypeOK'
    <2>1. tile' \in Int \X Int /\ asked' \in Seq(Int \X Int) /\ box' \in Box
      BY <1>2, <1>6, <1>7, EmptySeq DEF Hull
    <2> QED
      BY <1>1, <1>2, <2>1 DEF TypeOK, Features, Points
  <1>10. Typing'
    BY <1>2, <1>8, <1>9 DEF IInv, Typing
  <1>11. SpanSound'
    BY <1>1, <1>2 DEF SpanSound, Seen, Features, Hull, Tight, Inside
  <1>12. BoxSound'
    BY <1>2, <1>8 DEF BoxSound, OnGround, Hull, Tight, Inside
  <1>13. Len(asked') = 0
    BY <1>2, EmptySeq
  <1>14. LoopSound'
    <2>1. tile'[1] \in South' .. North' + 1 /\ tile'[2] \in East' .. West'
          /\ tile'[1] # North' + 1
      <3>1. \A u, v \in Int : u <= v => u \in u .. v + 1 /\ u \in u .. v /\ u # v + 1
        OBVIOUS
      <3> QED
        BY <1>6, <1>7, <3>1
    <2>2. ASSUME NEW t \in Grid' PROVE ~Before(t, tile')
      <3>1. t[1] \in South' .. North' /\ t[2] \in East' .. West'
        BY <2>2 DEF Grid
      <3> QED
        BY <1>6, <1>7, <3>1 DEF Before
    <2>3. Len(asked') = (tile'[1] - South') * (West' - East' + 1) + (tile'[2] - East')
      <3>1. tile'[1] - South' = 0 /\ tile'[2] - East' = 0 /\ West' - East' + 1 \in Int
        <4>1. \A u, v \in Int : u - u = 0 /\ u - v + 1 \in Int
          OBVIOUS
        <4> QED
          BY <1>6, <1>7, <4>1
      <3>2. \A w \in Int : 0 * w + 0 = 0
        OBVIOUS
      <3> QED
        BY <1>13, <3>1, <3>2
    <2>4. 1 .. Len(asked') = {}
      BY <1>13
    <2> QED
      BY <2>1, <2>2, <2>3, <2>4 DEF LoopSound, Before
  <1>15. EndSound'
    BY <1>2 DEF EndSound
  <1> QED
    BY <1>10, <1>11, <1>12, <1>14, <1>15 DEF IInv

LEMMA WorkerExtentStep == IInv /\ WorkerExtent => IInv'
  <1> SUFFICES ASSUME IInv, WorkerExtent PROVE IInv'
    OBVIOUS
  <1> DEFINE field == Buffer(boundary[1], FieldBuffer)
             u == UnionExtent(field, IF span = NoBox THEN field ELSE span)
  <1>1. TypeOK /\ SpanSound /\ path = "worker" /\ pc = "features" /\ boundary # <<>>
        /\ seen = Len(Features) /\ Features = area /\ Loop(u)
    BY DEF IInv, Typing, WorkerExtent, Features
  <1>2. boundary[1] \in Boxes /\ Seen \subseteq Boxes
    BY <1>1, FeatureAt
  <1>3. OnGround(field) /\ field \in Box /\ \A a \in Seen : OnGround(a)
    <2>1. OnGround(field)
      BY <1>2, BoxesOnGround
    <2>2. ASSUME NEW a \in Seen PROVE OnGround(a)
      <3>1. a \in Boxes
        BY <1>2
      <3>2. OnGround(Buffer(a, 0)) /\ a \in Box
        BY <3>1, BoxesOnGround
      <3>3. /\ Buffer(a, 0).w = a.w - 0 /\ Buffer(a, 0).s = a.s - 0
            /\ Buffer(a, 0).e = a.e + 0 /\ Buffer(a, 0).n = a.n + 0
        BY <3>2, BufferFacts
      <3>4. a.w \in Int /\ a.s \in Int /\ a.e \in Int /\ a.n \in Int
        BY <3>2 DEF Box
      <3>5. Buffer(a, 0).w = a.w /\ Buffer(a, 0).s = a.s /\ Buffer(a, 0).e = a.e /\ Buffer(a, 0).n = a.n
        BY <3>3, <3>4
      <3> QED
        BY <3>2, <3>5 DEF OnGround
    <2> QED
      BY <2>1, <2>2 DEF OnGround
  <1>4. Windows = {field} \union Seen
    <2>1. field # NoBox
      BY <1>3, GroundAssumption
    <2> QED
      BY <1>1, <2>1 DEF Windows, Seen
  <1>5. Seen \in SUBSET Box
    BY <1>2, GroundAssumption
  <1> HIDE DEF field
  <1>6. Hull(u, Windows)
    <2>1. CASE span = NoBox
      <3>1. Seen = {}
        BY <1>1, <2>1, GroundAssumption DEF SpanSound, Hull
      <3>2. Hull(UnionExtent(field, field), {field, field})
        BY <1>3, UnionFacts
      <3>3. u = UnionExtent(field, field) /\ Windows = {field, field}
        BY <1>4, <2>1, <3>1
      <3> QED
        BY <3>2, <3>3
    <2>2. CASE span # NoBox
      <3>1. Hull(span, Seen)
        BY <1>1, <2>2 DEF SpanSound
      <3>2. Hull(UnionExtent(field, span), {field} \union Seen)
        BY <1>3, <1>5, <3>1, HullGrows
      <3> QED
        BY <1>4, <2>2, <3>2
    <2> QED
      BY <2>1, <2>2
  <1>7. \A a \in Windows : OnGround(a)
    BY <1>3, <1>4
  <1>8. OnGround(u)
    BY <1>6, <1>7, HullOnGround
  <1> QED
    BY <1>1, <1>6, <1>8, LoopBegins

LEMMA SyncExtentStep == IInv /\ SyncExtent => IInv'
  <1> SUFFICES ASSUME IInv, SyncExtent PROVE IInv'
    OBVIOUS
  <1> DEFINE u == Buffer(span, SyncBuffer)
             P == {Buffer(a, SyncBuffer) : a \in Seen}
  <1>1. TypeOK /\ SpanSound /\ path = "sync" /\ pc = "features" /\ span # NoBox
        /\ seen = Len(boundary) /\ Features = boundary /\ Loop(u)
    BY DEF IInv, Typing, SyncExtent, Features
  <1>2. Seen \subseteq Boxes /\ \A i \in 1 .. Len(boundary) : boundary[i] \in Boxes
    BY <1>1, FeatureAt
  <1>3. Seen = {boundary[i] : i \in 1 .. Len(boundary)}
    BY <1>1, <1>2, GroundAssumption DEF Seen
  <1>4. Windows = P
    BY <1>1, <1>3 DEF Windows
  <1>5. Hull(span, Seen) /\ Seen \in SUBSET Box /\ SyncBuffer \in Nat
    BY <1>1, <1>2, GroundAssumption DEF SpanSound
  <1>6. Hull(u, P)
    BY <1>5, HullBuffer
  <1>7. \A a \in P : OnGround(a)
    BY <1>2, BoxesOnGround
  <1> HIDE DEF u, P
  <1>8. OnGround(u) /\ Hull(u, Windows)
    BY <1>4, <1>6, <1>7, HullOnGround
  <1> QED
    BY <1>1, <1>8, LoopBegins

-----------------------------------------------------------------------------
(* The loops. *)

(* The hull of the windows stays what it is. *)
LEMMA Frame ==
    ASSUME box' = box, Windows' = Windows, OnGround(box) /\ Hull(box, Windows)
    PROVE  OnGround(box') /\ Hull(box', Windows')
  OBVIOUS

LEMMA NextTileStep == IInv /\ NextTile => IInv'
  <1> SUFFICES ASSUME IInv, NextTile PROVE IInv'
    OBVIOUS
  <1>1. TypeOK /\ Looped /\ OnGround(box) /\ pc = "tiles" /\ LoopSound
    BY DEF IInv, Typing, BoxSound, NextTile, Looped
  <1>2. /\ South \in Int /\ North \in Int /\ South <= North
        /\ East \in Int /\ West \in Int /\ East <= West
        /\ Lats(box) = South .. North /\ First(Lngs(box)) = East /\ Last(Lngs(box)) = West
    BY <1>1, Corners
  <1>3. /\ tile \in Int \X Int /\ tile[1] \in South .. North /\ tile[2] \in East .. West
        /\ asked \in Seq(Int \X Int)
    BY <1>1, <1>2 DEF TypeOK, NextTile, LoopSound
  <1>4. /\ South' = South /\ North' = North /\ East' = East /\ West' = West /\ Grid' = Grid
        /\ Looped' /\ box' = box /\ pc' = pc /\ path' = path /\ boundary' = boundary
        /\ area' = area /\ seen' = seen /\ span' = span /\ Windows' = Windows
    BY <1>1 DEF NextTile, South, North, East, West, Grid, Looped, Windows, Ceil
  <1>5. asked' = Append(asked, tile)
    BY DEF NextTile
  <1>6. /\ asked' \in Seq(Int \X Int) /\ Len(asked') = Len(asked) + 1 /\ Len(asked) \in Nat
        /\ asked'[Len(asked) + 1] = tile
        /\ \A i \in 1 .. Len(asked) : asked'[i] = asked[i]
    BY <1>3, <1>5, AppendProperties, LenProperties
  <1>7. \/ tile[2] < West /\ tile' = <<tile[1], tile[2] + 1>>
        \/ tile[2] = West /\ tile' = <<tile[1] + 1, East>>
    <2>1. tile' = IF tile[2] < West THEN <<tile[1], tile[2] + 1>> ELSE <<tile[1] + 1, East>>
      BY <1>2 DEF NextTile
    <2>2. tile[2] < West \/ tile[2] = West
      BY <1>2, <1>3
    <2> QED
      BY <2>1, <2>2
  <1>8. /\ tile' \in Int \X Int /\ tile'[1] \in South .. North + 1 /\ tile'[2] \in East .. West
        /\ tile'[1] = North + 1 => tile'[2] = East
    BY <1>2, <1>3, <1>7
  <1>9. TypeOK'
    BY <1>1, <1>4, <1>6, <1>8 DEF TypeOK, Features
  <1>10. Typing'
    BY <1>1, <1>4, <1>9 DEF IInv, Typing
  <1>11. SpanSound'
    BY <1>4 DEF IInv, SpanSound, Seen, Features, Hull, Tight, Inside
  <1>12. BoxSound'
    BY <1>1, <1>4, Frame DEF IInv, BoxSound
  <1>13. Before(tile, tile') /\ \A t \in Int \X Int : Before(t, tile) => Before(t, tile')
    BY <1>3, <1>7 DEF Before
  <1>14. \A t \in Grid : Before(t, tile') => Before(t, tile) \/ t = tile
    <2> SUFFICES ASSUME NEW t \in Grid, Before(t, tile') PROVE Before(t, tile) \/ t = tile
      OBVIOUS
    <2>1. t = <<t[1], t[2]>> /\ t[1] \in South .. North /\ t[2] \in East .. West
      BY DEF Grid
    <2>2. tile = <<tile[1], tile[2]>>
      BY <1>3
    <2>3. Before(t, tile) \/ (t[1] = tile[1] /\ t[2] = tile[2])
      BY <1>2, <1>3, <1>7, <2>1 DEF Before
    <2> QED
      BY <2>1, <2>2, <2>3
  <1>15. Grid \subseteq Int \X Int /\ tile \in Grid
    BY <1>2, <1>3 DEF Grid
  <1>16. \A i \in 1 .. Len(asked') : asked'[i] \in Grid /\ Before(asked'[i], tile')
    <2> SUFFICES ASSUME NEW i \in 1 .. Len(asked') PROVE asked'[i] \in Grid /\ Before(asked'[i], tile')
      OBVIOUS
    <2>1. CASE i = Len(asked) + 1
      BY <1>6, <1>13, <1>15, <2>1
    <2>2. CASE i \in 1 .. Len(asked)
      <3>1. asked[i] \in Grid /\ Before(asked[i], tile)
        BY <1>1, <2>2 DEF LoopSound
      <3> QED
        BY <1>6, <1>13, <1>15, <2>2, <3>1
    <2> QED
      BY <1>6, <2>1, <2>2
  <1>17. \A t \in Grid : Before(t, tile') => \E i \in 1 .. Len(asked') : asked'[i] = t
    <2> SUFFICES ASSUME NEW t \in Grid, Before(t, tile') PROVE \E i \in 1 .. Len(asked') : asked'[i] = t
      OBVIOUS
    <2>1. CASE t = tile
      BY <1>6, <2>1
    <2>2. CASE Before(t, tile)
      <3>1. PICK i \in 1 .. Len(asked) : asked[i] = t
        BY <1>1, <2>2 DEF LoopSound
      <3>2. i \in 1 .. Len(asked') /\ asked'[i] = t
        BY <1>6, <3>1
      <3> QED
        BY <3>2
    <2> QED
      BY <1>14, <2>1, <2>2
  <1>18. \A i, j \in 1 .. Len(asked') : i < j => Before(asked'[i], asked'[j])
    <2> SUFFICES ASSUME NEW i \in 1 .. Len(asked'), NEW j \in 1 .. Len(asked'), i < j
                 PROVE  Before(asked'[i], asked'[j])
      OBVIOUS
    <2>1. i \in 1 .. Len(asked)
      BY <1>6
    <2>2. CASE j = Len(asked) + 1
      BY <1>1, <1>6, <2>1, <2>2 DEF LoopSound
    <2>3. CASE j \in 1 .. Len(asked)
      <3>1. Before(asked[i], asked[j])
        BY <1>1, <2>1, <2>3 DEF LoopSound
      <3> QED
        BY <1>6, <2>1, <2>3, <3>1
    <2>4. j \in 1 .. Len(asked) + 1
      BY <1>6
    <2>5. j = Len(asked) + 1 \/ j \in 1 .. Len(asked)
      <3>1. \A n \in Nat : \A k \in 1 .. n + 1 : k = n + 1 \/ k \in 1 .. n
        OBVIOUS
      <3> QED
        BY <1>6, <2>4, <3>1
    <2> QED
      BY <2>2, <2>3, <2>5
  <1>19. Len(asked') = (tile'[1] - South) * (West - East + 1) + (tile'[2] - East)
    <2> DEFINE w == West - East + 1
               r == tile[1] - South
    <2>1. Len(asked) = r * w + (tile[2] - East)
      BY <1>1 DEF LoopSound
    <2>2. w \in Int /\ r \in Int /\ r * w \in Int /\ (r + 1) * w = r * w + w
      BY <1>2, <1>3
    <2>3. CASE tile[2] < West /\ tile' = <<tile[1], tile[2] + 1>>
      <3>1. tile'[1] - South = r /\ tile'[2] - East = tile[2] - East + 1
        BY <1>2, <1>3, <2>3
      <3> HIDE DEF w, r
      <3> QED
        BY <1>2, <1>3, <1>6, <2>1, <2>2, <3>1 DEF w
    <2>4. CASE tile[2] = West /\ tile' = <<tile[1] + 1, East>>
      <3>1. tile'[1] - South = r + 1 /\ tile'[2] - East = 0 /\ tile[2] - East = w - 1
        BY <1>2, <1>3, <2>4
      <3>2. Len(asked') = (r + 1) * w + 0
        <4> HIDE DEF w, r
        <4> QED
          BY <1>6, <2>1, <2>2, <3>1
      <3> QED
        BY <3>1, <3>2
    <2> QED
      BY <1>7, <2>3, <2>4
  <1>20. LoopSound'
    BY <1>4, <1>8, <1>16, <1>17, <1>18, <1>19 DEF LoopSound
  <1>21. EndSound'
    BY <1>1, <1>4 DEF EndSound
  <1> QED
    BY <1>10, <1>11, <1>12, <1>20, <1>21 DEF IInv

LEMMA FinishStep == IInv /\ Finish => IInv'
  <1> SUFFICES ASSUME IInv, Finish PROVE IInv'
    OBVIOUS
  <1>1. TypeOK /\ Looped /\ OnGround(box) /\ Hull(box, Windows) /\ pc = "tiles" /\ LoopSound
    BY DEF IInv, Typing, BoxSound, Finish, Looped
  <1>2. tile[1] = North + 1
    BY <1>1, Corners DEF Finish, LoopSound
  <1>3. path = "sync" => boundary # <<>>
    <2> SUFFICES ASSUME path = "sync", boundary = <<>> PROVE FALSE
      OBVIOUS
    <2>1. Windows = {}
      BY EmptySeq DEF Windows
    <2> QED
      BY <1>1, <2>1 DEF Hull, Tight
  <1>4. /\ South' = South /\ North' = North /\ East' = East /\ West' = West /\ Grid' = Grid
        /\ box' = box /\ path' = path /\ boundary' = boundary /\ tile' = tile /\ asked' = asked
        /\ area' = area /\ seen' = seen /\ span' = span /\ Windows' = Windows
    BY DEF Finish, South, North, East, West, Grid, Windows, Ceil
  <1>5. \/ pc' = "refused" /\ path = "sync" /\ Len(asked) > MaxTiles
        \/ pc' = "done" /\ ~(path = "sync" /\ Len(asked) > MaxTiles)
    BY DEF Finish
  <1>6. Looped'
    BY <1>3, <1>4, <1>5 DEF Looped
  <1>7. TypeOK'
    BY <1>1, <1>4, <1>5 DEF TypeOK, Features, Points
  <1>8. Typing'
    BY <1>1, <1>4, <1>5, <1>6, <1>7 DEF IInv, Typing
  <1>9. SpanSound' /\ BoxSound' /\ LoopSound'
    <2>1. SpanSound'
      BY <1>4 DEF IInv, SpanSound, Seen, Features, Hull, Tight, Inside
    <2>2. BoxSound'
      BY <1>1, <1>4, Frame DEF BoxSound
    <2>3. LoopSound'
      BY <1>1, <1>4 DEF LoopSound
    <2> QED
      BY <2>1, <2>2, <2>3
  <1>10. Len(asked) \in Nat /\ MaxTiles \in Nat
    BY <1>1, LenProperties, GroundAssumption DEF TypeOK
  <1>11. EndSound'
    BY <1>2, <1>4, <1>5, <1>10 DEF EndSound
  <1> QED
    BY <1>8, <1>9, <1>11 DEF IInv

LEMMA Stutter == IInv /\ UNCHANGED vars => IInv'
  <1> SUFFICES ASSUME IInv, UNCHANGED vars PROVE IInv'
    OBVIOUS
  <1>1. /\ South' = South /\ North' = North /\ East' = East /\ West' = West /\ Grid' = Grid
        /\ Windows' = Windows /\ Looped' = Looped /\ Features' = Features /\ Seen' = Seen
        /\ box' = box /\ path' = path /\ boundary' = boundary /\ tile' = tile /\ asked' = asked
        /\ area' = area /\ seen' = seen /\ span' = span /\ pc' = pc
    BY DEF vars, South, North, East, West, Grid, Windows, Ceil, Looped, Features, Seen
  <1>2. Typing'
    BY <1>1 DEF IInv, Typing, TypeOK
  <1>3. SpanSound'
    BY <1>1 DEF IInv, SpanSound, Hull, Tight, Inside
  <1>4. BoxSound'
    BY <1>1, Frame DEF IInv, BoxSound
  <1>5. LoopSound'
    BY <1>1 DEF IInv, LoopSound
  <1>6. EndSound'
    BY <1>1 DEF IInv, EndSound
  <1> QED
    BY <1>2, <1>3, <1>4, <1>5, <1>6 DEF IInv

LEMMA StepInv == IInv /\ [Next]_vars => IInv'
  BY FieldStep, FeatureStep, WorkerExtentStep, SyncExtentStep, NoCoordinatesStep, NextTileStep,
     FinishStep, Stutter DEF Next

LEMMA Invariance == Spec => []IInv
  BY InitInv, StepInv, PTL DEF Spec

-----------------------------------------------------------------------------
(* The theorems. *)

(* The variables of tiles_for_bbox and get_dem_raster_set keep their types. *)
THEOREM TypeCorrect == Spec => []TypeOK
  <1>1. IInv => TypeOK
    BY DEF IInv, Typing
  <1> QED
    BY <1>1, Invariance, PTL

(* No tile is in the list of get_dem_raster_set or tiles_for_bbox twice. *)
THEOREM NoTileTwiceCorrect == Spec => []NoTileTwice
  <1>1. IInv => NoTileTwice
    <2> SUFFICES ASSUME IInv, NEW i \in 1 .. Len(asked), NEW j \in 1 .. Len(asked),
                        asked[i] = asked[j], i # j
                 PROVE  FALSE
      BY DEF NoTileTwice
    <2>1. TypeOK
      BY DEF IInv, Typing
    <2>2. Len(asked) \in Nat /\ asked # <<>>
      BY <2>1, LenProperties, EmptySeq DEF TypeOK
    <2>3. Looped
      BY <2>2 DEF IInv, Typing
    <2>4. Before(asked[i], asked[j]) \/ Before(asked[j], asked[i])
      <3>1. i < j \/ j < i
        BY <2>2
      <3> QED
        BY <2>3, <3>1 DEF IInv, LoopSound
    <2>5. asked[i] \in Int \X Int
      BY <2>1, ElementOfSeq DEF TypeOK
    <2> QED
      BY <2>4, <2>5 DEF Before
  <1> QED
    BY <1>1, Invariance, PTL

(* Wherever the windows lie to the degree lines, no point of them lacks    *)
(* its tile, on either path.                                               *)
THEOREM CoverCorrect == Spec => []EveryPointCovered
  <1>1. IInv => EveryPointCovered
    <2> SUFFICES ASSUME IInv, pc = "done", NEW b \in Windows, NEW x \in b.w .. b.e, NEW y \in b.s .. b.n
                 PROVE  \E i \in 1 .. Len(asked) : Covers(asked[i], x, y)
      BY DEF EveryPointCovered
    <2>1. OnGround(box) /\ Inside(b, box) /\ LoopSound /\ Looped /\ tile[1] = North + 1
      BY DEF IInv, BoxSound, Looped, Hull, EndSound
    <2>2. /\ South \in Int /\ North \in Int /\ East \in Int /\ West \in Int
      BY <2>1, Corners
    <2>3. /\ box.w \in Int /\ box.s \in Int /\ box.e \in Int /\ box.n \in Int
          /\ -box.w \in Int /\ -box.e \in Int
      BY <2>1 DEF OnGround, Box
    <2>4. b.w \in Int /\ b.s \in Int /\ b.e \in Int /\ b.n \in Int
      <3>1. b \in Box
        <4>1. TypeOK /\ (path = "worker" => boundary # <<>>)
          BY DEF IInv, Typing
        <4>2. /\ \A i \in 1 .. Len(boundary) : boundary[i] \in Box
              /\ boundary # <<>> => boundary[1] \in Box
          BY <4>1, FeatureAt, GroundAssumption
        <4>3. \A i \in 1 .. Len(area) : area[i] \in Boxes \union {NoBox}
          BY <4>1, ElementOfSeq DEF TypeOK
        <4>4. FieldBuffer \in Nat /\ SyncBuffer \in Nat /\ Boxes \subseteq Box
          BY GroundAssumption
        <4>5. path = "worker" => Buffer(boundary[1], FieldBuffer) \in Box
          BY <4>1, <4>2, <4>4, BufferFacts
        <4>6. \A i \in 1 .. Len(boundary) : Buffer(boundary[i], SyncBuffer) \in Box
          BY <4>2, <4>4, BufferFacts
        <4>7. CASE path = "worker"
          BY <4>3, <4>4, <4>5, <4>7 DEF Windows
        <4>8. CASE path # "worker"
          BY <4>6, <4>8 DEF Windows
        <4> QED
          BY <4>7, <4>8
      <3> QED
        BY <3>1 DEF Box
    <2>5. x \in Int /\ y \in Int /\ -x \in Int
          /\ box.w <= x /\ x <= box.e /\ box.s <= y /\ y <= box.n
          /\ -box.e <= -x /\ -x <= -box.w
      BY <2>1, <2>3, <2>4 DEF Inside
    <2> DEFINE r == Ceil(y)
               c == Ceil(-x)
    <2>6. /\ r \in Int /\ (r - 1) * Deg < y /\ y <= r * Deg
          /\ c \in Int /\ (c - 1) * Deg < -x /\ -x <= c * Deg
      BY <2>5, CeilFacts
    <2>7. /\ (South - 1) * Deg < box.s /\ box.n <= North * Deg
          /\ (East - 1) * Deg < -box.e /\ -box.w <= West * Deg
      BY <2>3, CeilFacts DEF South, North, East, West
    <2>8. /\ North * Deg \in Int /\ West * Deg \in Int
          /\ (South - 1) * Deg \in Int /\ (East - 1) * Deg \in Int
      <3>1. South - 1 \in Int /\ East - 1 \in Int
        BY <2>2
      <3> QED
        BY <2>2, <3>1, Times
    <2>9. y <= North * Deg /\ -x <= West * Deg /\ (South - 1) * Deg < y /\ (East - 1) * Deg < -x
      BY <2>3, <2>5, <2>7, <2>8
    <2>10. r <= North /\ c <= West /\ South <= r /\ East <= c
      BY <2>2, <2>5, <2>9, CeilUnique
    <2> HIDE DEF r, c
    <2>11. <<r, c>> \in Grid
      BY <2>2, <2>6, <2>10 DEF Grid
    <2>12. Before(<<r, c>>, tile)
      BY <2>1, <2>2, <2>6, <2>10 DEF Before
    <2>13. PICK i \in 1 .. Len(asked) : asked[i] = <<r, c>>
      BY <2>1, <2>11, <2>12 DEF LoopSound
    <2>14. /\ r * Deg \in Int /\ c * Deg \in Int /\ Deg \in Nat
           /\ (c - 1) * Deg = c * Deg - Deg /\ (1 - c) * Deg = Deg - c * Deg
           /\ (r - 1) * Deg = r * Deg - Deg
      BY <2>6, Times, GroundAssumption
    <2>15. Covers(<<r, c>>, x, y)
      <3>1. (r - 1) * Deg <= y /\ y <= r * Deg
        BY <2>5, <2>6, <2>14
      <3>2. -(c * Deg) <= x /\ x <= (1 - c) * Deg
        BY <2>5, <2>6, <2>14
      <3> QED
        BY <3>1, <3>2 DEF Covers
    <2> QED
      BY <2>13, <2>15
  <1> QED
    BY <1>1, Invariance, PTL

(* Both loops ask only for tiles that own a point of the fetched extent. *)
THEOREM NeedCorrect == Spec => []NoIdleTile
  <1>1. IInv => NoIdleTile
    <2> SUFFICES ASSUME IInv, NEW i \in 1 .. Len(asked) PROVE Needed(asked[i])
      BY DEF NoIdleTile
    <2>1. TypeOK
      BY DEF IInv, Typing
    <2>2. Len(asked) \in Nat /\ asked # <<>>
      BY <2>1, LenProperties, EmptySeq DEF TypeOK
    <2>3. Looped
      BY <2>2 DEF IInv, Typing
    <2>4. OnGround(box) /\ Tight(box, Windows) /\ asked[i] \in Grid
      BY <2>3 DEF IInv, BoxSound, Hull, LoopSound
    <2> DEFINE r == asked[i][1]
               c == asked[i][2]
    <2>5. /\ South \in Int /\ North \in Int /\ East \in Int /\ West \in Int
      BY <2>4, Corners
    <2>6. r \in Int /\ c \in Int /\ South <= r /\ r <= North /\ East <= c /\ c <= West
      BY <2>4, <2>5 DEF Grid
    <2>7. /\ box.w \in Int /\ box.s \in Int /\ box.e \in Int /\ box.n \in Int
          /\ -box.w \in Int /\ -box.e \in Int
      BY <2>4 DEF OnGround, Box
    <2>8. /\ (North - 1) * Deg < box.n /\ box.s <= South * Deg
          /\ (West - 1) * Deg < -box.w /\ -box.e <= East * Deg
      BY <2>7, CeilFacts DEF South, North, East, West
    <2> HIDE DEF r, c
    <2>9. /\ North * Deg \in Int /\ West * Deg \in Int /\ South * Deg \in Int /\ East * Deg \in Int
          /\ r * Deg \in Int /\ c * Deg \in Int /\ Deg \in Nat
          /\ r * Deg <= North * Deg /\ South * Deg <= r * Deg
          /\ c * Deg <= West * Deg /\ East * Deg <= c * Deg
      BY <2>5, <2>6, Times, GroundAssumption
    <2>10. /\ (North - 1) * Deg = North * Deg - Deg /\ (West - 1) * Deg = West * Deg - Deg
           /\ (r - 1) * Deg = r * Deg - Deg /\ (1 - c) * Deg = Deg - c * Deg
      BY <2>5, <2>6, Times
    <2>11. (r - 1) * Deg < box.n /\ box.s <= r * Deg
      BY <2>7, <2>8, <2>9, <2>10
    <2>12. box.w < (1 - c) * Deg /\ -(c * Deg) <= box.e
      <3> DEFINE cd == c * Deg
                 wd == West * Deg
                 ed == East * Deg
                 w == box.w
                 e == box.e
      <3>1. /\ cd \in Int /\ wd \in Int /\ ed \in Int /\ cd <= wd /\ ed <= cd
            /\ wd - Deg < -w /\ -e <= ed
        BY <2>8, <2>9, <2>10
      <3>2. w \in Int /\ e \in Int /\ Deg \in Int
        BY <2>7, <2>9, <3>1
      <3> HIDE DEF cd, wd, ed, w, e
      <3>3. w < Deg - cd /\ -cd <= e
        BY <3>1, <3>2
      <3> QED
        BY <2>10, <3>3 DEF cd, w, e
    <2> QED
      BY <2>4, <2>11, <2>12 DEF Needed, Tight, r, c
  <1> QED
    BY <1>1, Invariance, PTL

(* The rows and columns that own a point of the extent are the loops'. *)
LEMMA RowsAndColumns ==
    ASSUME OnGround(box)
    PROVE  Rows(box) = South .. North /\ Columns(box) = East .. West
  <1>1. /\ box.w \in Int /\ box.s \in Int /\ box.e \in Int /\ box.n \in Int
        /\ -box.w \in Int /\ -box.e \in Int
    BY DEF OnGround, Box
  <1>2. /\ South \in 10 .. 99 /\ North \in 10 .. 99 /\ East \in 10 .. 999 /\ West \in 10 .. 999
    BY Ranges DEF South, North, East, West
  <1>3. ASSUME NEW k \in Int
        PROVE  /\ (k - 1) * Deg < box.n <=> k <= North
               /\ box.s <= k * Deg <=> South <= k
               /\ box.w < (1 - k) * Deg <=> k <= West
               /\ -k * Deg <= box.e <=> East <= k
    <2>1. /\ North \in Int /\ South \in Int /\ East \in Int /\ West \in Int /\ Deg \in Nat
          /\ (North - 1) * Deg < box.n /\ box.s <= South * Deg
          /\ (West - 1) * Deg < -box.w /\ -box.e <= East * Deg
      BY <1>1, CeilFacts, GroundAssumption DEF South, North, East, West
    <2> DEFINE kd == k * Deg
               nd == North * Deg
               sd == South * Deg
               wd == West * Deg
               ed == East * Deg
               w == box.w
               s == box.s
               e == box.e
               n == box.n
    <2>2. /\ kd \in Int /\ nd \in Int /\ sd \in Int /\ wd \in Int /\ ed \in Int
          /\ (k <= North => kd <= nd) /\ (South <= k => sd <= kd)
          /\ (k <= West => kd <= wd) /\ (East <= k => ed <= kd)
          /\ (k - 1) * Deg = kd - Deg /\ (1 - k) * Deg = Deg - kd /\ -k * Deg = -kd
          /\ (North - 1) * Deg = nd - Deg /\ (West - 1) * Deg = wd - Deg
      BY <2>1, Times
    <2>3. /\ (k - 1) * Deg < n => k <= North
          /\ s <= k * Deg => South <= k
          /\ (k - 1) * Deg < -w => k <= West
          /\ -e <= k * Deg => East <= k
      BY <1>1, CeilUnique DEF North, South, East, West
    <2>4. /\ w \in Int /\ s \in Int /\ e \in Int /\ n \in Int
          /\ nd - Deg < n /\ s <= sd /\ wd - Deg < -w /\ -e <= ed
          /\ kd - Deg < n => k <= North
          /\ s <= kd => South <= k
          /\ kd - Deg < -w => k <= West
          /\ -e <= kd => East <= k
      BY <1>1, <2>1, <2>2, <2>3
    <2> HIDE DEF kd, nd, sd, wd, ed, w, s, e, n
    <2>5. kd - Deg < n <=> k <= North
      BY <2>1, <2>2, <2>4
    <2>6. s <= kd <=> South <= k
      BY <2>1, <2>2, <2>4
    <2>7. w < Deg - kd <=> k <= West
      BY <2>1, <2>2, <2>4
    <2>8. -kd <= e <=> East <= k
      BY <2>1, <2>2, <2>4
    <2> QED
      BY <2>2, <2>5, <2>6, <2>7, <2>8 DEF kd, w, s, e, n
  <1>4. Rows(box) = South .. North
    <2>1. ASSUME NEW k PROVE k \in Rows(box) <=> k \in South .. North
      <3>1. k \in South .. North => k \in 0 .. 99
        BY <1>2
      <3>2. k \in Rows(box) <=> k \in 0 .. 99 /\ (k - 1) * Deg < box.n /\ box.s <= k * Deg
        BY DEF Rows
      <3>3. k \in 0 .. 99 => k \in Int
        OBVIOUS
      <3>4. k \in 0 .. 99 => (k \in Rows(box) <=> k <= North /\ South <= k)
        BY <1>3, <3>2, <3>3
      <3>5. k \in 0 .. 99 => (k \in South .. North <=> k <= North /\ South <= k)
        BY <1>2
      <3> QED
        BY <3>1, <3>2, <3>4, <3>5
    <2> QED
      BY <2>1
  <1>5. Columns(box) = East .. West
    <2>1. ASSUME NEW k PROVE k \in Columns(box) <=> k \in East .. West
      <3>1. k \in East .. West => k \in 0 .. 999
        BY <1>2
      <3>2. k \in Columns(box) <=> k \in 0 .. 999 /\ box.w < (1 - k) * Deg /\ -k * Deg <= box.e
        BY DEF Columns
      <3>3. k \in 0 .. 999 => k \in Int
        OBVIOUS
      <3>4. k \in 0 .. 999 => (k \in Columns(box) <=> k <= West /\ East <= k)
        BY <1>3, <3>2, <3>3
      <3>5. k \in 0 .. 999 => (k \in East .. West <=> k <= West /\ East <= k)
        BY <1>2
      <3> QED
        BY <3>1, <3>2, <3>4, <3>5
    <2> QED
      BY <2>1
  <1> QED
    BY <1>4, <1>5

(* render_elevation counts, and refuses, what its extent really touches. *)
THEOREM LimitCorrect == Spec => []LimitIsExact
  <1>1. IInv => LimitIsExact
    <2> SUFFICES ASSUME IInv, path = "sync", pc = "done" \/ (pc = "refused" /\ boundary # <<>>)
                 PROVE  LET count == Cardinality(Rows(box)) * Cardinality(Columns(box))
                        IN  (pc = "refused" => count > MaxTiles) /\ (pc = "done" => count <= MaxTiles)
      BY DEF LimitIsExact
    <2>1. Looped /\ OnGround(box) /\ LoopSound /\ tile[1] = North + 1
      BY DEF IInv, BoxSound, Looped, EndSound
    <2>2. /\ South \in Int /\ North \in Int /\ South <= North
          /\ East \in Int /\ West \in Int /\ East <= West
      BY <2>1, Corners
    <2>3. Cardinality(South .. North) = North - South + 1 /\ Cardinality(East .. West) = West - East + 1
      BY <2>2, FS_Interval
    <2>4. Cardinality(Rows(box)) = North - South + 1 /\ Cardinality(Columns(box)) = West - East + 1
      BY <2>1, <2>3, RowsAndColumns
    <2>5. tile[2] = East /\ Len(asked) = (North + 1 - South) * (West - East + 1) + (East - East)
      <3>1. tile[2] = East
        BY <2>1 DEF LoopSound
      <3>2. Len(asked) = (tile[1] - South) * (West - East + 1) + (tile[2] - East)
        BY <2>1 DEF LoopSound
      <3>3. tile[1] - South = North + 1 - South /\ tile[2] - East = East - East
        BY <2>1, <2>2, <3>1
      <3> DEFINE width == West - East + 1
      <3>4. Len(asked) = (tile[1] - South) * width + (tile[2] - East)
        BY <3>2
      <3> HIDE DEF width
      <3>5. Len(asked) = (North + 1 - South) * width + (East - East)
        BY <3>3, <3>4
      <3> QED
        BY <2>2, <3>1, <3>5 DEF width
    <2>6. Len(asked) = (North - South + 1) * (West - East + 1)
      <3>1. North + 1 - South = North - South + 1 /\ East - East = 0
        BY <2>2
      <3>2. \A m \in Int : m + 0 = m
        OBVIOUS
      <3>3. (North - South + 1) * (West - East + 1) \in Int
        BY <2>2
      <3> QED
        BY <2>5, <3>1, <3>2, <3>3
    <2> QED
      BY <2>4, <2>6 DEF IInv, EndSound
  <1> QED
    BY <1>1, Invariance, PTL

(* get_dem and tiles_for_bbox name the same files for the same extent. *)
THEOREM FilesCorrect == Spec => []SameFiles
  <1>1. IInv => SameFiles
    <2> SUFFICES ASSUME IInv, pc = "done"
                 PROVE  {WorkerName(t) : t \in WorkerLats(box) \X WorkerLngs(box)}
                            = {SyncName(t) : t \in SyncLats(box) \X SyncLngs(box)}
      BY DEF SameFiles
    <2>1. OnGround(box)
      BY DEF IInv, BoxSound, Looped
    <2>2. WorkerLats(box) = SyncLats(box) /\ WorkerLngs(box) = SyncLngs(box)
          /\ SyncLats(box) \subseteq 10 .. 99 /\ SyncLngs(box) \subseteq 10 .. 999
      <3>1. /\ Ceil(box.s) \in 10 .. 99 /\ Ceil(box.n) \in 10 .. 99
            /\ Ceil(-box.e) \in 10 .. 999 /\ Ceil(-box.w) \in 10 .. 999
        BY <2>1, Ranges
      <3>2. /\ WorkerLats(box) = SyncLats(box) /\ WorkerLngs(box) = SyncLngs(box)
            /\ SyncLats(box) = Ceil(box.s) .. Ceil(box.n)
            /\ SyncLngs(box) = Ceil(-box.e) .. Ceil(-box.w)
        BY <2>1, Ranges
      <3>3. ASSUME NEW a \in 10 .. 99, NEW b \in 10 .. 99, NEW k \in a .. b PROVE k \in 10 .. 99
        OBVIOUS
      <3>4. ASSUME NEW a \in 10 .. 999, NEW b \in 10 .. 999, NEW k \in a .. b PROVE k \in 10 .. 999
        OBVIOUS
      <3>5. ASSUME NEW k \in SyncLats(box) PROVE k \in 10 .. 99
        <4>1. k \in Ceil(box.s) .. Ceil(box.n)
          BY <3>2, <3>5, Zenon
        <4> QED
          BY <3>1, <3>3, <4>1, Zenon
      <3>6. ASSUME NEW k \in SyncLngs(box) PROVE k \in 10 .. 999
        <4>1. k \in Ceil(-box.e) .. Ceil(-box.w)
          BY <3>2, <3>6, Zenon
        <4> DEFINE p == Ceil(-box.e)
                   q == Ceil(-box.w)
        <4>2. p \in 10 .. 999 /\ q \in 10 .. 999 /\ k \in p .. q
          BY <3>1, <4>1, Zenon
        <4> HIDE DEF p, q
        <4> QED
          BY <4>2
      <3> QED
        BY <3>2, <3>5, <3>6, Zenon
    <2>3. ASSUME NEW t \in (10 .. 99) \X (10 .. 999) PROVE WorkerName(t) = SyncName(t)
      <3>1. t[1] \in 10 .. 99 /\ t[2] \in 10 .. 999
        OBVIOUS
      <3>2. t[2] % 1000 = t[2]
        BY <3>1
      <3>3. Digits(t[1]) = 2 /\ Digits(t[2]) \in {2, 3}
        BY <3>1 DEF Digits
      <3>4. /\ Digits(t[1]) = Greater(2, Digits(t[1]))
            /\ Lesser(3, Digits(t[2]) + 1) = 3 /\ Greater(3, Digits(t[2])) = 3
        BY <3>3 DEF Lesser, Greater
      <3> QED
        BY <3>2, <3>4 DEF WorkerName, SyncName
    <2> QED
      BY <2>2, <2>3
  <1> QED
    BY <1>1, Invariance, PTL

-----------------------------------------------------------------------------
(* Decided, short of its last temporal step: every step brings a request   *)
(* closer to its decision.                                                 *)

Stage == CASE pc = "field" -> 3 [] pc = "features" -> 2 [] pc = "tiles" -> 1 [] OTHER -> 0
FeaturesLeft == Len(Features) - seen
RowsLeft == IF pc = "tiles" THEN North + 1 - tile[1] ELSE 0
ColumnsLeft == IF pc = "tiles" THEN West - tile[2] ELSE 0

(* Lexicographically less. *)
Descends ==
    \/ Stage' < Stage
    \/ Stage' = Stage /\ FeaturesLeft' < FeaturesLeft
    \/ Stage' = Stage /\ FeaturesLeft' = FeaturesLeft /\ RowsLeft' < RowsLeft
    \/ /\ Stage' = Stage /\ FeaturesLeft' = FeaturesLeft
       /\ RowsLeft' = RowsLeft /\ ColumnsLeft' < ColumnsLeft

Measured == {Stage, FeaturesLeft, RowsLeft, ColumnsLeft} \subseteq Nat

LEMMA MeasuredAll == IInv => Measured
  <1> SUFFICES ASSUME IInv PROVE Measured
    OBVIOUS
  <1>1. Stage \in Nat
    BY DEF Stage
  <1>2. FeaturesLeft \in Nat
    <2>1. seen \in 0 .. Len(Features) /\ Len(Features) \in Nat
      BY FeatureAt DEF IInv, Typing, TypeOK
    <2> QED
      BY <2>1 DEF FeaturesLeft
  <1>3. ASSUME pc = "tiles" PROVE North + 1 - tile[1] \in Nat /\ West - tile[2] \in Nat
    <2>1. OnGround(box) /\ LoopSound /\ Looped
      BY <1>3 DEF IInv, BoxSound, Looped
    <2>2. /\ South \in Int /\ North \in Int /\ East \in Int /\ West \in Int
          /\ tile[1] \in South .. North + 1 /\ tile[2] \in East .. West
      BY <2>1, Corners DEF LoopSound
    <2> QED
      BY <2>2
  <1>4. RowsLeft \in Nat /\ ColumnsLeft \in Nat
    BY <1>3 DEF RowsLeft, ColumnsLeft
  <1> QED
    BY <1>1, <1>2, <1>4 DEF Measured

LEMMA FeatureDescends == IInv /\ Feature => Descends
  <1> SUFFICES ASSUME IInv, Feature PROVE Descends
    OBVIOUS
  <1>1. seen \in Nat /\ Len(Features) \in Nat /\ seen' = seen + 1 /\ Features' = Features
        /\ Stage' = Stage
    BY FeatureAt DEF IInv, Typing, Feature, Features, Stage
  <1>2. FeaturesLeft' < FeaturesLeft
    BY <1>1 DEF FeaturesLeft
  <1> QED
    BY <1>1, <1>2 DEF Descends

LEMMA TileDescends == IInv /\ NextTile => Descends
  <1> SUFFICES ASSUME IInv, NextTile PROVE Descends
    OBVIOUS
  <1>1. OnGround(box) /\ pc = "tiles" /\ pc' = "tiles" /\ LoopSound /\ Looped
    BY DEF IInv, BoxSound, NextTile, Looped
  <1>2. /\ South \in Int /\ North \in Int /\ East \in Int /\ West \in Int
        /\ tile[1] \in South .. North + 1 /\ tile[2] \in East .. West
        /\ First(Lngs(box)) = East /\ Last(Lngs(box)) = West
    BY <1>1, Corners DEF LoopSound
  <1>3. North' = North /\ West' = West /\ Stage' = Stage /\ FeaturesLeft' = FeaturesLeft
    BY <1>1 DEF NextTile, North, West, Ceil, Stage, FeaturesLeft, Features
  <1>4. \/ tile' = <<tile[1], tile[2] + 1>>
        \/ tile' = <<tile[1] + 1, East>>
    BY <1>2 DEF NextTile
  <1>5. \/ RowsLeft' = RowsLeft /\ ColumnsLeft' < ColumnsLeft
        \/ RowsLeft' < RowsLeft
    <2>1. /\ RowsLeft = North + 1 - tile[1] /\ RowsLeft' = North + 1 - tile'[1]
          /\ ColumnsLeft = West - tile[2] /\ ColumnsLeft' = West - tile'[2]
      BY <1>1, <1>3 DEF RowsLeft, ColumnsLeft
    <2>2. \/ tile'[1] = tile[1] /\ tile'[2] = tile[2] + 1
          \/ tile'[1] = tile[1] + 1
      BY <1>4
    <2>3. tile[1] \in Int /\ tile[2] \in Int
      BY <1>2
    <2> QED
      BY <1>2, <2>1, <2>2, <2>3
  <1> QED
    BY <1>3, <1>5 DEF Descends

(* Every step brings a request closer to its decision: features, rows and  *)
(* columns are used up, and no loop starts over.                           *)
THEOREM StepsDescend == Spec => [][Descends]_vars /\ []Measured
  <1>1. ASSUME IInv, Next PROVE Descends
    <2>1. CASE Field \/ WorkerExtent \/ SyncExtent \/ NoCoordinates \/ Finish
      <3>1. Stage' < Stage
        BY <2>1 DEF Field, WorkerExtent, SyncExtent, Loop, NoCoordinates, Finish, Stage
      <3> QED
        BY <3>1 DEF Descends
    <2> QED
      BY <1>1, <2>1, FeatureDescends, TileDescends DEF Next
  <1>2. IInv /\ [Next]_vars => [Descends]_vars
    BY <1>1
  <1> QED
    BY <1>2, MeasuredAll, Invariance, PTL DEF Spec

=============================================================================
