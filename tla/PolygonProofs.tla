---------------------------- MODULE PolygonProofs ----------------------------
(***************************************************************************)
(* Theorems about SupportPolygon, for any number of legs and all points of *)
(* the ground.                                                             *)
(***************************************************************************)
EXTENDS SupportPolygon, SequenceTheorems, WellFoundedInduction, TLAPS

-----------------------------------------------------------------------------
(* Vectors *)

Wedge(ux, uy, vx, vy) == ux * vy - uy * vx

(* The vectors that point forwards: a sum of them is zero only if all of   *)
(* them are.                                                               *)
Half(x, y) == x > 0 \/ (x = 0 /\ y >= 0)

Plane == [x : Int, y : Int]

(* From a to b is forwards, for a way of 1 or -1. *)
Ahead(way, a, b) == Half(way * (b.x - a.x), way * (b.y - a.y))

WedgeOf(a, b, c, d) == Wedge(b.x - a.x, b.y - a.y, d.x - c.x, d.y - c.y)

LEMMA WedgeType ==
  ASSUME NEW ux \in Int, NEW uy \in Int, NEW vx \in Int, NEW vy \in Int
  PROVE  Wedge(ux, uy, vx, vy) \in Int
BY DEF Wedge

(* A factor that two vectors forwards differ in is not negative.           *)
LEMMA Forwards ==
  ASSUME NEW k \in Int, NEW ux \in Int, NEW uy \in Int, NEW vx \in Int, NEW vy \in Int,
         Half(ux, uy), ux # 0 \/ uy # 0, Half(vx, vy), k * ux = vx, k * uy = vy
  PROVE  k >= 0
<1> SUFFICES ASSUME k < 0 PROVE FALSE
  OBVIOUS
<1>1. CASE ux > 0
  <2>1. k * ux < 0
    BY <1>1
  <2>2. QED
    BY <2>1 DEF Half
<1>2. CASE ux = 0 /\ uy > 0
  <2>1. k * uy < 0 /\ k * ux = 0
    BY <1>2
  <2>2. QED
    BY <2>1 DEF Half
<1>3. QED
  BY <1>1, <1>2 DEF Half

LEMMA HalfSum ==
  ASSUME NEW a \in Nat, NEW b \in Nat,
         NEW ux \in Int, NEW uy \in Int, NEW vx \in Int, NEW vy \in Int,
         Half(ux, uy), Half(vx, vy)
  PROVE  Half(a * ux + b * vx, a * uy + b * vy)
<1>1. ASSUME NEW k \in Nat, NEW x \in Int, NEW y \in Int, Half(x, y)
      PROVE  k * x \in Int /\ k * y \in Int /\ Half(k * x, k * y)
  <2>1. CASE x > 0
    <3>1. CASE k = 0
      BY <3>1 DEF Half
    <3>2. CASE k > 0
      <4>1. k * x > 0
        BY <2>1, <3>2
      <4>2. QED
        BY <4>1 DEF Half
    <3>3. QED
      BY <3>1, <3>2
  <2>2. CASE x = 0 /\ y >= 0
    <3>1. k * x = 0 /\ k * y >= 0
      BY <2>2
    <3>2. QED
      BY <3>1 DEF Half
  <2>3. QED
    BY <1>1, <2>1, <2>2 DEF Half
<1> DEFINE px == a * ux
           py == a * uy
           qx == b * vx
           qy == b * vy
<1>2. /\ px \in Int /\ py \in Int /\ qx \in Int /\ qy \in Int
      /\ Half(px, py) /\ Half(qx, qy)
  BY <1>1
<1> HIDE DEF px, py, qx, qy
<1>3. Half(px + qx, py + qy)
  BY <1>2 DEF Half
<1>4. QED
  BY <1>3 DEF px, py, qx, qy

(* Turning to the left from z to u and from u to w, without going          *)
(* backwards, is turning to the left.                                      *)
LEMMA LeftAndLeft ==
  ASSUME NEW zx \in Int, NEW zy \in Int, NEW ux \in Int, NEW uy \in Int,
         NEW wx \in Int, NEW wy \in Int,
         Half(zx, zy), Half(ux, uy), Half(wx, wy), ux # 0 \/ uy # 0,
         Wedge(zx, zy, ux, uy) >= 0, Wedge(ux, uy, wx, wy) >= 0
  PROVE  Wedge(zx, zy, wx, wy) >= 0
<1> DEFINE a == Wedge(ux, uy, wx, wy)
           b == Wedge(zx, zy, ux, uy)
           k == Wedge(zx, zy, wx, wy)
<1>1. a \in Nat /\ b \in Nat /\ k \in Int
  BY DEF Wedge
<1>2. k * ux = a * zx + b * wx /\ k * uy = a * zy + b * wy
  BY DEF Wedge
<1> HIDE DEF a, b, k
<1>3. Half(a * zx + b * wx, a * zy + b * wy)
  BY <1>1, HalfSum
<1>4. a * zx + b * wx \in Int /\ a * zy + b * wy \in Int
  BY <1>1
<1>5. k >= 0
  BY <1>1, <1>2, <1>3, <1>4, Forwards
<1>6. QED
  BY <1>5 DEF k

-----------------------------------------------------------------------------
(* Points *)

Ways == {1, -1}

(* The vector from a to b, which way it is looked at. *)
LEMMA VectorType ==
  ASSUME NEW way \in Ways, NEW a \in Plane, NEW b \in Plane
  PROVE  /\ a.x \in Int /\ a.y \in Int
         /\ way * (b.x - a.x) \in Int /\ way * (b.y - a.y) \in Int
BY DEF Ways, Plane

LEMMA CrossType ==
  ASSUME NEW a \in Plane, NEW b \in Plane, NEW c \in Plane, NEW d \in Plane
  PROVE  /\ Cross(a, b, c) \in Int
         /\ WedgeOf(a, b, c, d) \in Int
BY DEF Cross, WedgeOf, Wedge, Plane

LEMMA SamePoint ==
  ASSUME NEW way \in Ways, NEW a \in Plane, NEW b \in Plane
  PROVE  a = b <=> way * (b.x - a.x) = 0 /\ way * (b.y - a.y) = 0
BY DEF Ways, Plane

LEMMA AheadTrans ==
  ASSUME NEW way \in Ways, NEW a \in Plane, NEW b \in Plane, NEW c \in Plane,
         Ahead(way, a, b), Ahead(way, b, c)
  PROVE  Ahead(way, a, c)
BY DEF Ways, Plane, Ahead, Half

LEMMA AheadTotal ==
  ASSUME NEW way \in Ways, NEW a \in Plane, NEW b \in Plane
  PROVE  Ahead(way, a, b) \/ Ahead(way, b, a)
BY DEF Ways, Plane, Ahead, Half

LEMMA AheadAnti ==
  ASSUME NEW way \in Ways, NEW a \in Plane, NEW b \in Plane,
         Ahead(way, a, b), Ahead(way, b, a)
  PROVE  a = b
BY DEF Ways, Plane, Ahead, Half

LEMMA AheadOfItself ==
  ASSUME NEW way \in Ways, NEW a \in Plane
  PROVE  Ahead(way, a, a)
BY DEF Ways, Plane, Ahead, Half

(* Whichever way one looks, left is left. *)
LEMMA CrossIs ==
  ASSUME NEW way \in Ways, NEW a \in Plane, NEW b \in Plane, NEW c \in Plane, NEW d \in Plane
  PROVE  WedgeOf(a, b, c, d)
           = Wedge(way * (b.x - a.x), way * (b.y - a.y), way * (d.x - c.x), way * (d.y - c.y))
<1>1. a.x \in Int /\ a.y \in Int /\ b.x \in Int /\ b.y \in Int
      /\ c.x \in Int /\ c.y \in Int /\ d.x \in Int /\ d.y \in Int
  BY VectorType
<1>2. CASE way = 1
  BY <1>1, <1>2 DEF WedgeOf, Wedge
<1>3. CASE way = -1
  BY <1>1, <1>3 DEF WedgeOf, Wedge
<1>4. QED
  BY <1>2, <1>3 DEF Ways

LEMMA CrossSum ==
  ASSUME NEW a \in Plane, NEW b \in Plane, NEW c \in Plane, NEW d \in Plane
  PROVE  /\ Cross(a, b, d) = Cross(a, b, c) + WedgeOf(a, b, c, d)
         /\ WedgeOf(a, b, b, c) = Cross(a, b, c)
         /\ WedgeOf(a, b, a, c) = Cross(a, b, c)
         /\ WedgeOf(a, b, d, c) = -WedgeOf(a, b, c, d)
         /\ WedgeOf(c, d, a, b) = -WedgeOf(a, b, c, d)
         /\ Cross(a, b, a) = 0 /\ Cross(a, b, b) = 0 /\ Cross(a, a, b) = 0
         /\ Cross(b, a, c) = -Cross(a, b, c)
         /\ Cross(b, c, a) = Cross(a, b, c)
<1>1. a.x \in Int /\ a.y \in Int /\ b.x \in Int /\ b.y \in Int
      /\ c.x \in Int /\ c.y \in Int /\ d.x \in Int /\ d.y \in Int
  BY DEF Plane
<1>2. Cross(a, b, d) = Cross(a, b, c) + WedgeOf(a, b, c, d)
  BY <1>1 DEF WedgeOf, Wedge, Cross
<1>3. WedgeOf(a, b, b, c) = Cross(a, b, c) /\ WedgeOf(a, b, a, c) = Cross(a, b, c)
  BY <1>1 DEF WedgeOf, Wedge, Cross
<1>4. WedgeOf(a, b, d, c) = -WedgeOf(a, b, c, d) /\ WedgeOf(c, d, a, b) = -WedgeOf(a, b, c, d)
  BY <1>1 DEF WedgeOf, Wedge
<1>5. Cross(a, b, a) = 0 /\ Cross(a, b, b) = 0 /\ Cross(a, a, b) = 0
  BY <1>1 DEF Cross
<1>6. Cross(b, a, c) = -Cross(a, b, c)
  BY <1>1 DEF Cross
<1>7. Cross(b, c, a) = Cross(a, b, c)
  BY <1>1 DEF Cross
<1>8. QED
  BY <1>2, <1>3, <1>4, <1>5, <1>6, <1>7

(* A chain that turns left from a -- b to p has what is behind on its left *)
(* from b on.                                                              *)
LEMMA Behind ==
  ASSUME NEW way \in Ways,
         NEW a \in Plane, NEW b \in Plane, NEW p \in Plane, NEW q \in Plane,
         Ahead(way, a, b), Ahead(way, b, p), Ahead(way, q, b),
         Cross(a, b, p) > 0, Cross(a, b, q) >= 0
  PROVE  Cross(b, p, q) >= 0
<1> DEFINE ux == way * (b.x - a.x)
           uy == way * (b.y - a.y)
           wx == way * (p.x - b.x)
           wy == way * (p.y - b.y)
           zx == way * (b.x - q.x)
           zy == way * (b.y - q.y)
<1>1. /\ ux \in Int /\ uy \in Int /\ wx \in Int /\ wy \in Int /\ zx \in Int /\ zy \in Int
      /\ Half(ux, uy) /\ Half(wx, wy) /\ Half(zx, zy)
  BY VectorType DEF Ahead
<1>2. ux # 0 \/ uy # 0
  <2>1. a # b
    BY CrossSum
  <2>2. QED
    BY <2>1, SamePoint
<1>3. /\ WedgeOf(q, b, a, b) = Wedge(zx, zy, ux, uy)
      /\ WedgeOf(a, b, b, p) = Wedge(ux, uy, wx, wy)
      /\ WedgeOf(q, b, b, p) = Wedge(zx, zy, wx, wy)
  BY CrossIs
<1>4. /\ WedgeOf(q, b, a, b) = Cross(a, b, q)
      /\ WedgeOf(a, b, b, p) = Cross(a, b, p)
      /\ WedgeOf(q, b, b, p) = Cross(b, p, q)
  <2>1. /\ a.x \in Int /\ a.y \in Int /\ b.x \in Int /\ b.y \in Int
        /\ p.x \in Int /\ p.y \in Int /\ q.x \in Int /\ q.y \in Int
    BY DEF Plane
  <2>2. QED
    BY <2>1 DEF WedgeOf, Wedge, Cross
<1> HIDE DEF ux, uy, wx, wy, zx, zy
<1>5. Wedge(zx, zy, ux, uy) >= 0 /\ Wedge(ux, uy, wx, wy) >= 0
  BY <1>3, <1>4, CrossType
<1>6. Wedge(zx, zy, wx, wy) >= 0
  BY <1>1, <1>2, <1>5, LeftAndLeft
<1>7. QED
  BY <1>3, <1>4, <1>6

(* A corner that would not turn left can be cut: what is left of the edge  *)
(* to it is left of the edge that skips it.                                *)
LEMMA Beyond ==
  ASSUME NEW way \in Ways,
         NEW a \in Plane, NEW b \in Plane, NEW p \in Plane, NEW q \in Plane,
         Ahead(way, a, b), Ahead(way, b, p), Ahead(way, a, q), a # b,
         Cross(a, b, p) <= 0, Cross(a, b, q) >= 0
  PROVE  Cross(a, p, q) >= 0
<1> DEFINE ux == way * (b.x - a.x)
           uy == way * (b.y - a.y)
           wx == way * (p.x - b.x)
           wy == way * (p.y - b.y)
           zx == way * (q.x - a.x)
           zy == way * (q.y - a.y)
<1>1. /\ ux \in Int /\ uy \in Int /\ wx \in Int /\ wy \in Int /\ zx \in Int /\ zy \in Int
      /\ Half(ux, uy) /\ Half(wx, wy) /\ Half(zx, zy)
  BY VectorType DEF Ahead
<1>2. ux # 0 \/ uy # 0
  BY SamePoint
<1>3. /\ WedgeOf(b, p, a, b) = Wedge(wx, wy, ux, uy)
      /\ WedgeOf(a, b, a, q) = Wedge(ux, uy, zx, zy)
      /\ WedgeOf(b, p, a, q) = Wedge(wx, wy, zx, zy)
  BY CrossIs
<1>4. /\ WedgeOf(b, p, a, b) = -Cross(a, b, p)
      /\ WedgeOf(a, b, a, q) = Cross(a, b, q)
      /\ WedgeOf(b, p, a, q) + WedgeOf(a, b, a, q) = Cross(a, p, q)
  <2>1. /\ a.x \in Int /\ a.y \in Int /\ b.x \in Int /\ b.y \in Int
        /\ p.x \in Int /\ p.y \in Int /\ q.x \in Int /\ q.y \in Int
    BY DEF Plane
  <2>2. QED
    BY <2>1 DEF WedgeOf, Wedge, Cross
<1> HIDE DEF ux, uy, wx, wy, zx, zy
<1>5. Wedge(wx, wy, ux, uy) >= 0 /\ Wedge(ux, uy, zx, zy) >= 0
  BY <1>3, <1>4, CrossType
<1>6. Wedge(wx, wy, zx, zy) >= 0
  BY <1>1, <1>2, <1>5, LeftAndLeft
<1>7. WedgeOf(b, p, a, q) >= 0 /\ WedgeOf(a, b, a, q) >= 0
  BY <1>3, <1>5, <1>6
<1>8. QED
  BY <1>4, <1>7, CrossType

-----------------------------------------------------------------------------
(* What Popped keeps *)

LEMMA LeastNat ==
  ASSUME NEW S, S \subseteq Nat, S # {}
  PROVE  \E m \in S : \A k \in S : m <= k
<1> DEFINE R == OpToRel(<, Nat)
<1>1. IsWellFoundedOn(R, Nat)
  BY NatLessThanWellFounded
<1> HIDE DEF R
<1>2. PICK m \in S : \A k \in S : ~ (<<k, m>> \in R)
  BY <1>1, WFMin
<1>3. ASSUME NEW k \in S PROVE m <= k
  <2>1. k \in Nat /\ m \in Nat
    OBVIOUS
  <2>2. <<k, m>> \in Nat \X Nat /\ ~ (<<k, m>> \in R)
    BY <1>2, <2>1
  <2>3. ~ (k < m)
    BY <2>2 DEF R, OpToRel
  <2>4. QED
    BY <2>1, <2>3
<1>4. QED
  BY <1>3

(* The last number up to a bound that is in a set. *)
LEMMA GreatestUpTo ==
  ASSUME NEW bound \in Nat, NEW S, NEW first \in 0 .. bound, first \in S
  PROVE  \E n \in first .. bound : n \in S /\ \A m \in n + 1 .. bound : m \notin S
<1> DEFINE T == {k \in 0 .. bound - first : bound - k \in S}
<1>1. T \subseteq Nat /\ bound - first \in T
  <2>1. bound - (bound - first) = first /\ bound - first \in 0 .. bound - first
    OBVIOUS
  <2>2. QED
    BY <2>1
<1>2. PICK k \in T : \A l \in T : k <= l
  BY <1>1, LeastNat
<1>3. bound - k \in first .. bound /\ bound - k \in S
  OBVIOUS
<1>4. ASSUME NEW m \in bound - k + 1 .. bound, m \in S PROVE FALSE
  <2>1. bound - m \in 0 .. bound - first /\ bound - (bound - m) = m
    BY <1>3
  <2>2. bound - m \in T
    BY <1>4, <2>1
  <2>3. QED
    BY <1>2, <2>1, <2>2
<1>5. QED
  BY <1>3, <1>4

(* The first n of a chain are kept, which up to base never goes away.      *)
Kept(hull, point, base, n) ==
  /\ Popped(hull, point, base + 1) = SubSeq(hull, 1, n)
  /\ n > base => Cross(hull[n - 1], hull[n], point) > 0
  /\ n < Len(hull) => ~(Cross(hull[n], hull[n + 1], point) > 0)

LEMMA PoppedIs ==
  ASSUME NEW hull \in Seq(Plane), NEW point, NEW base \in Nat, base <= Len(hull)
  PROVE  \E n \in base .. Len(hull) : Kept(hull, point, base, n)
<1> DEFINE Stays(n) == n < base + 1 \/ Cross(hull[n - 1], hull[n], point) > 0
           IsKept(n) == Stays(n) /\ \A m \in n + 1 .. Len(hull) : ~Stays(m)
           S == {n \in 0 .. Len(hull) : Stays(n)}
           last == CHOOSE n \in 0 .. Len(hull) : IsKept(n)
<1>1. Len(hull) \in Nat
  OBVIOUS
<1>2. Popped(hull, point, base + 1) = SubSeq(hull, 1, last)
  BY DEF Popped
<1>3. base \in 0 .. Len(hull) /\ base \in S
  BY <1>1
<1>4. PICK k \in base .. Len(hull) : k \in S /\ \A m \in k + 1 .. Len(hull) : m \notin S
  <2> HIDE DEF S
  <2>1. QED
    BY <1>1, <1>3, GreatestUpTo
<1>5. k \in 0 .. Len(hull) /\ IsKept(k)
  <2>1. k \in Nat
    BY <1>1
  <2>2. \A m \in k + 1 .. Len(hull) : m \in 0 .. Len(hull)
    BY <1>1, <2>1
  <2>3. QED
    BY <1>4, <2>2
<1> HIDE DEF IsKept
<1>6. last \in 0 .. Len(hull) /\ IsKept(last)
  BY <1>5
<1> HIDE DEF last
<1>7. last >= base
  <2>1. CASE last < base
    <3>1. base \in last + 1 .. Len(hull)
      BY <1>1, <1>6, <2>1
    <3>2. ~Stays(base)
      BY <1>6, <3>1 DEF IsKept
    <3>3. QED
      BY <3>2
  <2>2. QED
    BY <1>1, <1>6, <2>1
<1>8. last \in base .. Len(hull)
  BY <1>1, <1>6, <1>7
<1>9. last > base => Cross(hull[last - 1], hull[last], point) > 0
  BY <1>6, <1>8 DEF IsKept
<1>10. last < Len(hull) => ~(Cross(hull[last], hull[last + 1], point) > 0)
  <2>1. last < Len(hull) => last + 1 \in last + 1 .. Len(hull) /\ (last + 1) - 1 = last
    BY <1>1, <1>8
  <2>2. last < Len(hull) => ~Stays(last + 1)
    BY <1>6, <2>1 DEF IsKept
  <2>3. QED
    BY <2>1, <2>2
<1>11. QED
  BY <1>2, <1>8, <1>9, <1>10 DEF Kept

LEMMA PoppedNothing == \A point : Popped(<<>>, point, 2) = <<>>
<1> SUFFICES ASSUME NEW point PROVE Popped(<<>>, point, 2) = <<>>
  OBVIOUS
<1> DEFINE Stays(n) == n < 2 \/ Cross(<<>>[n - 1], <<>>[n], point) > 0
           last == CHOOSE n \in 0 .. Len(<<>>) :
                     Stays(n) /\ \A m \in n + 1 .. Len(<<>>) : ~Stays(m)
<1>1. Popped(<<>>, point, 2) = SubSeq(<<>>, 1, last)
  BY DEF Popped
<1>2. Len(<<>>) = 0
  OBVIOUS
<1>3. 0 \in 0 .. Len(<<>>) /\ Stays(0) /\ \A m \in 0 + 1 .. Len(<<>>) : ~Stays(m)
  BY <1>2
<1>4. last \in 0 .. Len(<<>>)
  BY <1>3
<1> HIDE DEF last
<1>5. last = 0
  BY <1>2, <1>4
<1>6. QED
  BY <1>1, <1>5, SubSeqEmpty

-----------------------------------------------------------------------------
(* Half a hull *)

(* From base on, hull goes one way around the points it has seen: it never *)
(* goes back, it turns left, and has all of them on its left.              *)
IsChain(hull, base, way, seen) ==
  /\ hull \in Seq(Plane) /\ base \in 1 .. Len(hull)
  /\ seen \subseteq Plane
  /\ \A i \in base .. Len(hull) : hull[i] \in seen
  /\ \A q \in seen : Ahead(way, hull[base], q) /\ Ahead(way, q, hull[Len(hull)])
  /\ \A i \in base .. Len(hull) - 1 :
       /\ Ahead(way, hull[i], hull[i + 1])
       /\ hull[i] # hull[i + 1] \/ seen = {hull[base]}
       /\ \A q \in seen : Cross(hull[i], hull[i + 1], q) >= 0
  /\ \A i, j \in base .. Len(hull) - 1 :
       i < j => WedgeOf(hull[i], hull[i + 1], hull[j], hull[j + 1]) >= 0
  /\ \A i \in base + 1 .. Len(hull) - 1 : Cross(hull[i - 1], hull[i], hull[i + 1]) > 0

(* The next point, and how many of the chain stay before it.               *)
IsNext(hull, base, way, seen, point, n) ==
  /\ point \in Plane
  /\ \A q \in seen : Ahead(way, q, point)
  /\ n \in base .. Len(hull)
  /\ n > base => Cross(hull[n - 1], hull[n], point) > 0
  /\ n < Len(hull) => ~(Cross(hull[n], hull[n + 1], point) > 0)

LEMMA ChainPoints ==
  ASSUME NEW hull, NEW base, NEW way \in Ways, NEW seen, IsChain(hull, base, way, seen)
  PROVE  /\ base \in Nat /\ Len(hull) \in Nat
         /\ \A i \in base .. Len(hull) : i \in Nat /\ hull[i] \in Plane /\ hull[i] \in seen
BY DEF IsChain

(* A chain with an edge before the next one has no edge without length.    *)
LEMMA EdgesHaveLength ==
  ASSUME NEW hull, NEW base, NEW way \in Ways, NEW seen, IsChain(hull, base, way, seen),
         NEW point, NEW n, IsNext(hull, base, way, seen, point, n), n > base
  PROVE  \A i \in base .. Len(hull) - 1 : hull[i] # hull[i + 1]
<1> SUFFICES ASSUME NEW i \in base .. Len(hull) - 1, hull[i] = hull[i + 1] PROVE FALSE
  OBVIOUS
<1>1. seen = {hull[base]}
  BY DEF IsChain
<1>2. base \in Nat /\ Len(hull) \in Nat /\ n \in base .. Len(hull)
  BY ChainPoints DEF IsNext
<1>3. /\ n - 1 \in base .. Len(hull) /\ n \in base .. Len(hull)
      /\ base \in base .. Len(hull)
  BY <1>2
<1>4. \A k \in base .. Len(hull) : hull[k] \in Plane /\ hull[k] = hull[base]
  <2>1. \A k \in base .. Len(hull) : hull[k] \in Plane /\ hull[k] \in seen
    BY ChainPoints
  <2>2. QED
    BY <1>1, <2>1
<1>5. hull[n - 1] = hull[base] /\ hull[n] = hull[base] /\ hull[base] \in Plane
  BY <1>3, <1>4
<1>6. Cross(hull[n - 1], hull[n], point) = 0
  BY <1>5, CrossSum DEF IsNext
<1>7. QED
  BY <1>6 DEF IsNext

(* What was seen is on the left of the edge to the next point.             *)
LEMMA NewEdge ==
  ASSUME NEW hull, NEW base, NEW way \in Ways, NEW seen, IsChain(hull, base, way, seen),
         NEW point, NEW n, IsNext(hull, base, way, seen, point, n), NEW q \in seen
  PROVE  Cross(hull[n], point, q) >= 0
<1> DEFINE b == hull[n]
<1>1. /\ n \in Nat /\ base \in Nat /\ Len(hull) \in Nat /\ base <= n /\ n <= Len(hull)
      /\ n \in base .. Len(hull) /\ base \in base .. Len(hull)
  BY ChainPoints DEF IsNext
<1>2. b \in Plane /\ b \in seen /\ point \in Plane /\ q \in Plane
  BY <1>1, ChainPoints DEF IsNext, IsChain
<1>3. Ahead(way, b, point)
  BY <1>2 DEF IsNext
<1>4. CASE Ahead(way, q, b) /\ n > base
  <2> DEFINE a == hull[n - 1]
  <2>1. n - 1 \in base .. Len(hull) - 1 /\ n - 1 \in base .. Len(hull) /\ (n - 1) + 1 = n
    BY <1>1, <1>4
  <2>2. a \in Plane
    BY <2>1, ChainPoints
  <2>3. Ahead(way, a, b) /\ Cross(a, b, q) >= 0
    BY <2>1 DEF IsChain
  <2>4. Cross(a, b, point) > 0
    BY <1>4 DEF IsNext
  <2> HIDE DEF a, b
  <2>5. Cross(b, point, q) >= 0
    BY <1>2, <1>3, <1>4, <2>2, <2>3, <2>4, Behind
  <2>6. QED
    BY <2>5 DEF b
<1>5. CASE q = b
  BY <1>2, <1>5, CrossSum
<1>6. CASE Ahead(way, q, b) /\ n = base
  <2>1. Ahead(way, b, q)
    BY <1>6 DEF IsChain
  <2>2. q = b
    BY <1>2, <1>6, <2>1, AheadAnti
  <2>3. QED
    BY <1>5, <2>2
<1>7. CASE Ahead(way, b, q) /\ n = Len(hull)
  <2>1. Ahead(way, q, b)
    BY <1>7 DEF IsChain
  <2>2. q = b
    BY <1>2, <1>7, <2>1, AheadAnti
  <2>3. QED
    BY <1>5, <2>2
<1>8. CASE Ahead(way, b, q) /\ n < Len(hull)
  <2> DEFINE c == hull[n + 1]
  <2>1. n \in base .. Len(hull) - 1 /\ n + 1 \in base .. Len(hull)
    BY <1>1, <1>8
  <2>2. c \in Plane /\ c \in seen
    BY <2>1, ChainPoints
  <2>3. Ahead(way, b, c) /\ Cross(b, c, q) >= 0 /\ (b # c \/ seen = {hull[base]})
    BY <2>1 DEF IsChain
  <2>4. Cross(b, c, point) <= 0
    <3>1. ~(Cross(b, c, point) > 0)
      BY <1>8 DEF IsNext
    <3>2. QED
      BY <1>2, <2>2, <3>1, CrossType
  <2>5. Ahead(way, c, point)
    BY <2>2 DEF IsNext
  <2>6. CASE b # c
    <3> HIDE DEF b, c
    <3>1. Cross(b, point, q) >= 0
      BY <1>2, <1>8, <2>2, <2>3, <2>4, <2>5, <2>6, Beyond
    <3>2. QED
      BY <3>1 DEF b
  <2>7. CASE seen = {hull[base]}
    <3>1. q = b
      BY <1>2, <2>7
    <3>2. QED
      BY <1>5, <3>1
  <2>8. QED
    BY <2>3, <2>6, <2>7
<1>9. QED
  BY <1>1, <1>2, <1>4, <1>6, <1>7, <1>8, AheadTotal

(* The edge to the next point turns left of all edges before it.           *)
LEMMA NewTurn ==
  ASSUME NEW hull, NEW base, NEW way \in Ways, NEW seen, IsChain(hull, base, way, seen),
         NEW point, NEW n, IsNext(hull, base, way, seen, point, n), NEW i \in base .. n - 1
  PROVE  WedgeOf(hull[i], hull[i + 1], hull[n], point) >= 0
<1> DEFINE c == hull[i]
           d == hull[i + 1]
           a == hull[n - 1]
           b == hull[n]
<1>1. /\ n \in Nat /\ base \in Nat /\ Len(hull) \in Nat /\ base <= n /\ n <= Len(hull)
      /\ i \in Nat /\ i < n /\ n > base
  BY ChainPoints DEF IsNext
<1>2. /\ i \in base .. Len(hull) /\ i + 1 \in base .. Len(hull) /\ n \in base .. Len(hull)
      /\ n - 1 \in base .. Len(hull)
      /\ i \in base .. Len(hull) - 1 /\ n - 1 \in base .. Len(hull) - 1 /\ (n - 1) + 1 = n
  BY <1>1
<1>3. /\ a \in Plane /\ b \in Plane /\ c \in Plane /\ d \in Plane /\ point \in Plane
      /\ b \in seen
  BY <1>2, ChainPoints DEF IsNext
<1>4. Ahead(way, c, d) /\ Ahead(way, a, b)
  BY <1>2 DEF IsChain
<1>5. Ahead(way, b, point)
  BY <1>3 DEF IsNext
<1>6. Cross(a, b, point) > 0
  BY <1>1 DEF IsNext
<1>7. a # b
  BY <1>1, <1>2, EdgesHaveLength
<1>8. CASE i = n - 1
  <2>1. c = a /\ d = b
    BY <1>2, <1>8
  <2> HIDE DEF a, b, c, d
  <2>2. WedgeOf(a, b, b, point) = Cross(a, b, point)
    BY <1>3, CrossSum
  <2>3. WedgeOf(a, b, b, point) >= 0
    BY <1>3, <1>6, <2>2, CrossType
  <2>4. QED
    BY <2>1, <2>3 DEF a, b, c, d
<1>9. CASE i # n - 1
  <2>1. i < n - 1
    BY <1>1, <1>9
  <2>2. WedgeOf(c, d, a, b) >= 0
    BY <1>2, <2>1 DEF IsChain
  <2> DEFINE ux == way * (b.x - a.x)
             uy == way * (b.y - a.y)
             wx == way * (point.x - b.x)
             wy == way * (point.y - b.y)
             zx == way * (d.x - c.x)
             zy == way * (d.y - c.y)
  <2> HIDE DEF a, b, c, d
  <2>3. /\ ux \in Int /\ uy \in Int /\ wx \in Int /\ wy \in Int /\ zx \in Int /\ zy \in Int
        /\ Half(ux, uy) /\ Half(wx, wy) /\ Half(zx, zy)
    BY <1>3, <1>4, <1>5, VectorType DEF Ahead
  <2>4. ux # 0 \/ uy # 0
    BY <1>3, <1>7, SamePoint
  <2>5. /\ WedgeOf(c, d, a, b) = Wedge(zx, zy, ux, uy)
        /\ WedgeOf(a, b, b, point) = Wedge(ux, uy, wx, wy)
        /\ WedgeOf(c, d, b, point) = Wedge(zx, zy, wx, wy)
    BY <1>3, CrossIs
  <2>6. WedgeOf(a, b, b, point) >= 0
    <3>1. WedgeOf(a, b, b, point) = Cross(a, b, point)
      BY <1>3, CrossSum
    <3>2. QED
      BY <1>3, <1>6, <3>1, CrossType
  <2> HIDE DEF ux, uy, wx, wy, zx, zy
  <2>7. Wedge(zx, zy, ux, uy) >= 0 /\ Wedge(ux, uy, wx, wy) >= 0
    BY <2>2, <2>5, <2>6
  <2>8. Wedge(zx, zy, wx, wy) >= 0
    BY <2>3, <2>4, <2>7, LeftAndLeft
  <2>9. WedgeOf(c, d, b, point) >= 0
    BY <2>5, <2>8
  <2>10. QED
    BY <2>9 DEF b, c, d
<1>10. QED
  BY <1>8, <1>9

(* ... so that it is on the left of them.                                  *)
LEMMA NewPoint ==
  ASSUME NEW hull, NEW base, NEW way \in Ways, NEW seen, IsChain(hull, base, way, seen),
         NEW point, NEW n, IsNext(hull, base, way, seen, point, n), NEW i \in base .. n - 1
  PROVE  Cross(hull[i], hull[i + 1], point) >= 0
<1> DEFINE c == hull[i]
           d == hull[i + 1]
           b == hull[n]
<1>1. /\ n \in Nat /\ base \in Nat /\ Len(hull) \in Nat /\ base <= n /\ n <= Len(hull)
      /\ i \in Nat /\ i < n
  BY ChainPoints DEF IsNext
<1>2. /\ i \in base .. Len(hull) /\ i + 1 \in base .. Len(hull) /\ n \in base .. Len(hull)
      /\ i \in base .. Len(hull) - 1
  BY <1>1
<1>3. b \in Plane /\ c \in Plane /\ d \in Plane /\ point \in Plane /\ b \in seen
  BY <1>2, ChainPoints DEF IsNext
<1>4. Cross(c, d, b) >= 0
  BY <1>2, <1>3 DEF IsChain
<1>5. WedgeOf(c, d, b, point) >= 0
  BY NewTurn
<1> HIDE DEF b, c, d
<1>6. Cross(c, d, point) = Cross(c, d, b) + WedgeOf(c, d, b, point)
  BY <1>3, CrossSum
<1>7. Cross(c, d, point) >= 0
  BY <1>3, <1>4, <1>5, <1>6, CrossType
<1>8. QED
  BY <1>7 DEF c, d

(* What becomes of a chain when it goes on.                                *)
GoesOn(grown, hull, base, way, seen, point) ==
  /\ IsChain(grown, base, way, seen)
  /\ Len(grown) > base
  /\ grown[Len(grown)] = point
  /\ \A i \in 1 .. base : grown[i] = hull[i]

(* A chain grows by the next point.                                        *)
LEMMA ChainGrows ==
  ASSUME NEW hull, NEW base, NEW way \in Ways, NEW seen, IsChain(hull, base, way, seen),
         NEW point \in Plane, \A q \in seen : Ahead(way, q, point)
  PROVE  GoesOn(Append(Popped(hull, point, base + 1), point), hull, base, way,
                seen \cup {point}, point)
<1>1. /\ hull \in Seq(Plane) /\ base \in Nat /\ Len(hull) \in Nat /\ 1 <= base
      /\ base <= Len(hull) /\ seen \subseteq Plane
  BY ChainPoints DEF IsChain
<1>2. PICK n \in base .. Len(hull) : Kept(hull, point, base, n)
  BY <1>1, PoppedIs
<1>3. IsNext(hull, base, way, seen, point, n)
  BY <1>2 DEF Kept, IsNext
<1>4. n \in Nat /\ base <= n /\ n <= Len(hull) /\ n \in base .. Len(hull)
  BY <1>1
<1> DEFINE kept == SubSeq(hull, 1, n)
           grown == Append(kept, point)
<1>5. Popped(hull, point, base + 1) = kept
  BY <1>2 DEF Kept
<1>6. /\ kept \in Seq(Plane) /\ Len(kept) = n
      /\ \A i \in 1 .. n : kept[i] = hull[i]
  <2>1. \A i \in 1 .. n : hull[i] \in Plane
    BY <1>1, <1>4, ElementOfSeq
  <2>2. 1 \in Int /\ n \in Int /\ 1 <= n /\ n - 1 + 1 = n
    BY <1>1, <1>4
  <2>3. /\ SubSeq(hull, 1, n) \in Seq(Plane)
        /\ Len(SubSeq(hull, 1, n)) = IF 1 <= n THEN n - 1 + 1 ELSE 0
        /\ \A i \in 1 .. n - 1 + 1 : SubSeq(hull, 1, n)[i] = hull[1 + i - 1]
    BY <2>1, <2>2, SubSeqProperties
  <2>4. \A i \in 1 .. n : 1 + i - 1 = i
    OBVIOUS
  <2>5. QED
    BY <2>2, <2>3, <2>4
<1> HIDE DEF kept
<1>7. /\ grown \in Seq(Plane) /\ Len(grown) = n + 1 /\ grown[n + 1] = point
      /\ \A i \in 1 .. n : grown[i] = hull[i]
  BY <1>6, AppendProperties
<1> HIDE DEF grown
<1> DEFINE all == seen \cup {point}
<1>8. \A i \in base .. n : grown[i] = hull[i] /\ grown[i] \in Plane /\ grown[i] \in seen
  <2>1. \A i \in base .. n : i \in 1 .. n /\ i \in base .. Len(hull)
    BY <1>1, <1>4
  <2>2. \A i \in base .. Len(hull) : hull[i] \in Plane /\ hull[i] \in seen
    BY ChainPoints
  <2>3. QED
    BY <1>7, <2>1, <2>2
<1>9. grown[base] = hull[base] /\ grown[n] = hull[n] /\ hull[n] \in Plane /\ hull[n] \in seen
  BY <1>1, <1>4, <1>8
<1>10. Ahead(way, hull[n], point)
  BY <1>9
<1>11. \A i \in base .. Len(grown) - 1 :
         \/ i \in base .. n - 1 /\ i \in base .. Len(hull) - 1
            /\ grown[i] = hull[i] /\ grown[i + 1] = hull[i + 1]
         \/ i = n /\ grown[i] = hull[n] /\ grown[i + 1] = point
  <2>1. \A i \in base .. n - 1 : i \in base .. n /\ i + 1 \in base .. n /\ i \in base .. Len(hull) - 1
    BY <1>1, <1>4
  <2>2. \A i \in base .. Len(grown) - 1 : i \in base .. n - 1 \/ i = n
    BY <1>1, <1>4, <1>7
  <2>3. QED
    BY <1>7, <1>8, <1>9, <2>1, <2>2
<1>12. base \in 1 .. Len(grown)
  BY <1>1, <1>4, <1>7
<1>13. \A i \in base .. Len(grown) : grown[i] \in all
  <2>1. \A i \in base .. Len(grown) : i \in base .. n \/ i = n + 1
    BY <1>1, <1>4, <1>7
  <2>2. QED
    BY <1>7, <1>8, <2>1
<1>14. \A q \in all : Ahead(way, grown[base], q) /\ Ahead(way, q, grown[Len(grown)])
  <2>1. grown[Len(grown)] = point
    BY <1>7
  <2>2. \A q \in seen : Ahead(way, grown[base], q) /\ Ahead(way, q, point)
    BY <1>9 DEF IsChain
  <2>3. Ahead(way, grown[base], point)
    <3>1. base \in base .. n
      BY <1>1, <1>4
    <3>2. grown[base] \in seen
      BY <1>8, <3>1
    <3>3. QED
      BY <3>2
  <2>4. QED
    BY <2>1, <2>2, <2>3, AheadOfItself
<1>15. \A i \in base .. Len(grown) - 1 : Ahead(way, grown[i], grown[i + 1])
  <2>1. \A i \in base .. Len(hull) - 1 : Ahead(way, hull[i], hull[i + 1])
    BY DEF IsChain
  <2>2. QED
    BY <1>10, <1>11, <2>1
<1>16. \A i \in base .. Len(grown) - 1 : \A q \in all : Cross(grown[i], grown[i + 1], q) >= 0
  <2>1. \A i \in base .. Len(hull) - 1 : \A q \in seen : Cross(hull[i], hull[i + 1], q) >= 0
    BY DEF IsChain
  <2>2. \A i \in base .. n - 1 : Cross(hull[i], hull[i + 1], point) >= 0
    BY <1>3, NewPoint
  <2>3. \A q \in seen : Cross(hull[n], point, q) >= 0
    BY <1>3, NewEdge
  <2>4. Cross(hull[n], point, point) >= 0
    BY <1>9, CrossSum
  <2>5. QED
    BY <1>11, <2>1, <2>2, <2>3, <2>4
<1>17. \A i \in base .. Len(grown) - 1 : grown[i] # grown[i + 1] \/ all = {grown[base]}
  <2>1. CASE n > base
    <3>1. \A i \in base .. Len(hull) - 1 : hull[i] # hull[i + 1]
      BY <1>3, <2>1, EdgesHaveLength
    <3>2. hull[n] # point
      <4>1. Cross(hull[n - 1], hull[n], point) > 0
        BY <1>3, <2>1 DEF IsNext
      <4>2. n - 1 \in base .. n
        BY <1>1, <1>4, <2>1
      <4>3. hull[n - 1] \in Plane
        BY <1>8, <4>2
      <4>4. Cross(hull[n - 1], hull[n], hull[n]) = 0
        BY <1>9, <4>3, CrossSum
      <4>5. QED
        BY <4>1, <4>4
    <3>3. QED
      BY <1>11, <3>1, <3>2
  <2>2. CASE n = base /\ hull[n] # point
    <3>1. \A i \in base .. Len(grown) - 1 : i = n
      BY <1>1, <1>7, <2>2
    <3>2. QED
      BY <1>7, <1>9, <2>2, <3>1
  <2>3. CASE n = base /\ hull[n] = point
    <3>1. ASSUME NEW q \in seen PROVE q = point
      <4>1. Ahead(way, point, q) /\ Ahead(way, q, point) /\ q \in Plane
        BY <1>1, <2>3 DEF IsChain
      <4>2. QED
        BY <4>1, AheadAnti
    <3>2. all = {point}
      BY <3>1
    <3>3. QED
      BY <1>9, <2>3, <3>2
  <2>4. QED
    BY <1>1, <1>4, <2>1, <2>2, <2>3
<1>18. \A i, j \in base .. Len(grown) - 1 :
         i < j => WedgeOf(grown[i], grown[i + 1], grown[j], grown[j + 1]) >= 0
  <2> SUFFICES ASSUME NEW i \in base .. Len(grown) - 1, NEW j \in base .. Len(grown) - 1, i < j
               PROVE  WedgeOf(grown[i], grown[i + 1], grown[j], grown[j + 1]) >= 0
    OBVIOUS
  <2>1. i # n
    BY <1>1, <1>4, <1>7
  <2>2. /\ i \in base .. n - 1 /\ i \in base .. Len(hull) - 1
        /\ grown[i] = hull[i] /\ grown[i + 1] = hull[i + 1]
    BY <1>11, <2>1
  <2>3. CASE j = n /\ grown[j] = hull[n] /\ grown[j + 1] = point
    <3>1. WedgeOf(hull[i], hull[i + 1], hull[n], point) >= 0
      BY <1>3, <2>2, NewTurn
    <3>2. QED
      BY <2>2, <2>3, <3>1
  <2>4. CASE j \in base .. Len(hull) - 1 /\ grown[j] = hull[j] /\ grown[j + 1] = hull[j + 1]
    <3>1. WedgeOf(hull[i], hull[i + 1], hull[j], hull[j + 1]) >= 0
      BY <2>2, <2>4 DEF IsChain
    <3>2. QED
      BY <2>2, <2>4, <3>1
  <2>5. QED
    BY <1>11, <2>3, <2>4
<1>19. \A i \in base + 1 .. Len(grown) - 1 : Cross(grown[i - 1], grown[i], grown[i + 1]) > 0
  <2> SUFFICES ASSUME NEW i \in base + 1 .. Len(grown) - 1
               PROVE  Cross(grown[i - 1], grown[i], grown[i + 1]) > 0
    OBVIOUS
  <2>1. /\ i \in base .. Len(grown) - 1 /\ i - 1 \in base .. n /\ i \in base .. n
        /\ i - 1 \in Int /\ i > base
    BY <1>1, <1>4, <1>7
  <2>2. grown[i - 1] = hull[i - 1] /\ grown[i] = hull[i]
    BY <1>8, <2>1
  <2>3. CASE i = n /\ grown[i] = hull[n] /\ grown[i + 1] = point
    <3>1. Cross(hull[n - 1], hull[n], point) > 0
      BY <1>3, <2>1, <2>3 DEF IsNext
    <3>2. QED
      BY <2>2, <2>3, <3>1
  <2>4. CASE i \in base .. Len(hull) - 1 /\ grown[i + 1] = hull[i + 1]
    <3>1. i \in base + 1 .. Len(hull) - 1
      BY <1>1, <2>1, <2>4
    <3>2. Cross(hull[i - 1], hull[i], hull[i + 1]) > 0
      BY <3>1 DEF IsChain
    <3>3. QED
      BY <2>2, <2>4, <3>2
  <2>5. QED
    BY <1>11, <2>1, <2>3, <2>4
<1>20. all \subseteq Plane
  BY <1>1
<1>21. IsChain(grown, base, way, all)
  BY <1>7, <1>12, <1>13, <1>14, <1>15, <1>16, <1>17, <1>18, <1>19, <1>20 DEF IsChain
<1>22. /\ Len(grown) > base /\ grown[Len(grown)] = point
       /\ \A i \in 1 .. base : grown[i] = hull[i]
  <2>1. \A i \in 1 .. base : i \in 1 .. n
    BY <1>1, <1>4
  <2>2. QED
    BY <1>1, <1>4, <1>7, <2>1
<1>23. QED
  BY <1>5, <1>21, <1>22 DEF GoesOn, grown

-----------------------------------------------------------------------------
(* One item after the other *)

LEMMA UpTo ==
  ASSUME NEW n \in Nat, NEW T, 0 \in T, \A i \in 0 .. n - 1 : i \in T => i + 1 \in T
  PROVE  \A i \in 0 .. n : i \in T
<1> DEFINE S == {i \in 0 .. n : i \notin T}
<1> SUFFICES ASSUME S # {} PROVE FALSE
  OBVIOUS
<1>1. S \subseteq Nat
  OBVIOUS
<1>2. PICK m \in S : \A k \in S : m <= k
  BY <1>1, LeastNat
<1>3. m \in Nat /\ m # 0 /\ m <= n
  OBVIOUS
<1>4. m - 1 \in 0 .. n - 1 /\ m - 1 \in 0 .. n /\ (m - 1) + 1 = m /\ ~(m <= m - 1)
  BY <1>3
<1>5. m - 1 \in T
  BY <1>2, <1>4
<1>6. m \in T
  BY <1>4, <1>5
<1>7. QED
  BY <1>6

(* Folding the first n items by step. *)
Folds(g, n, start, step, items) ==
  \A i \in 0 .. n : g[i] = IF i = 0 THEN start ELSE step[<<g[i - 1], items[i]>>]

LEMMA FoldExists ==
  ASSUME NEW S, NEW P, NEW n \in Nat, NEW start \in S, NEW step \in [S \X P -> S],
         NEW items, \A i \in 1 .. n : items[i] \in P
  PROVE  \E g \in [0 .. n -> S] : Folds(g, n, start, step, items)
<1> DEFINE Can(k) == \E g \in [0 .. k -> S] : Folds(g, k, start, step, items)
           T == {k \in 0 .. n : Can(k)}
<1>1. Can(0)
  <2> DEFINE g == [i \in 0 .. 0 |-> start]
  <2>1. g \in [0 .. 0 -> S] /\ Folds(g, 0, start, step, items)
    BY DEF Folds
  <2>2. QED
    BY <2>1
<1>2. ASSUME NEW k \in 0 .. n - 1, Can(k) PROVE Can(k + 1)
  <2>1. PICK g \in [0 .. k -> S] : Folds(g, k, start, step, items)
    BY <1>2
  <2>2. k \in Nat /\ k + 1 \in 1 .. n /\ k \in 0 .. k /\ k + 1 # 0 /\ (k + 1) - 1 = k
    OBVIOUS
  <2> DEFINE next == step[<<g[k], items[k + 1]>>]
             h == [i \in 0 .. k + 1 |-> IF i = k + 1 THEN next ELSE g[i]]
  <2>3. next \in S
    BY <2>2
  <2> HIDE DEF next
  <2>4. h \in [0 .. k + 1 -> S]
    <3>1. \A i \in 0 .. k + 1 : i = k + 1 \/ i \in 0 .. k
      BY <2>2
    <3>2. QED
      BY <2>3, <3>1
  <2>5. \A i \in 0 .. k : h[i] = g[i]
    BY <2>2
  <2>6. h[k + 1] = next
    BY <2>2
  <2> HIDE DEF h
  <2>7. ASSUME NEW i \in 0 .. k + 1
        PROVE  h[i] = IF i = 0 THEN start ELSE step[<<h[i - 1], items[i]>>]
    <3>1. CASE i = k + 1
      BY <2>2, <2>5, <2>6, <3>1 DEF next
    <3>2. CASE i \in 0 .. k /\ i = 0
      BY <2>1, <2>5, <3>2 DEF Folds
    <3>3. CASE i \in 0 .. k /\ i # 0
      <4>1. i - 1 \in 0 .. k
        BY <2>2, <3>3
      <4>2. h[i] = g[i] /\ h[i - 1] = g[i - 1]
        BY <2>5, <3>3, <4>1
      <4>3. g[i] = step[<<g[i - 1], items[i]>>]
        BY <2>1, <3>3 DEF Folds
      <4>4. QED
        BY <3>3, <4>2, <4>3
    <3>4. QED
      BY <2>2, <3>1, <3>2, <3>3
  <2>8. Folds(h, k + 1, start, step, items)
    BY <2>7 DEF Folds
  <2>9. QED
    BY <2>4, <2>8
<1>3. 0 \in T /\ \A i \in 0 .. n - 1 : i \in T => i + 1 \in T
  <2> HIDE DEF Can
  <2>1. QED
    BY <1>1, <1>2
<1> HIDE DEF T
<1>4. n \in T
  BY <1>3, UpTo
<1>5. QED
  BY <1>4 DEF T

LEMMA PoppedType ==
  ASSUME NEW hull \in Seq(Plane), NEW point, NEW least \in Nat \ {0}
  PROVE  Popped(hull, point, least) \in Seq(Plane)
<1> DEFINE Stays(n) == n < least \/ Cross(hull[n - 1], hull[n], point) > 0
           IsKept(n) == Stays(n) /\ \A m \in n + 1 .. Len(hull) : ~Stays(m)
           S == {n \in 0 .. Len(hull) : Stays(n)}
           last == CHOOSE n \in 0 .. Len(hull) : IsKept(n)
<1>1. Len(hull) \in Nat
  OBVIOUS
<1>2. Popped(hull, point, least) = SubSeq(hull, 1, last)
  BY DEF Popped
<1>3. 0 \in 0 .. Len(hull) /\ 0 \in S
  BY <1>1
<1>4. PICK k \in 0 .. Len(hull) : k \in S /\ \A m \in k + 1 .. Len(hull) : m \notin S
  <2> HIDE DEF S
  <2>1. QED
    BY <1>1, <1>3, GreatestUpTo
<1>5. k \in 0 .. Len(hull) /\ IsKept(k)
  <2>1. k \in Nat
    BY <1>1
  <2>2. \A m \in k + 1 .. Len(hull) : m \in 0 .. Len(hull)
    BY <1>1, <2>1
  <2>3. QED
    BY <1>4, <2>2
<1> HIDE DEF IsKept
<1>6. last \in 0 .. Len(hull)
  BY <1>5
<1> HIDE DEF last
<1>7. \A i \in 1 .. last : hull[i] \in Plane
  <2>1. \A i \in 1 .. last : i \in 1 .. Len(hull)
    BY <1>1, <1>6
  <2>2. QED
    BY <2>1, ElementOfSeq
<1>8. 1 \in Int /\ last \in Int
  BY <1>1, <1>6
<1>9. SubSeq(hull, 1, last) \in Seq(Plane)
  BY <1>7, <1>8, SubSeqProperties
<1>10. QED
  BY <1>2, <1>9

LEMMA ChainIs ==
  ASSUME NEW hull \in Seq(Plane), NEW points \in Seq(Plane), NEW least \in Nat \ {0}
  PROVE  \E g \in [0 .. Len(points) -> Seq(Plane)] :
           /\ g[0] = hull
           /\ \A i \in 1 .. Len(points) :
                g[i] = Append(Popped(g[i - 1], points[i], least), points[i])
           /\ Chain(hull, points, least) = g[Len(points)]
<1> DEFINE n == Len(points)
           S == Seq(Plane)
           step == [c \in S \X Plane |-> Append(Popped(c[1], c[2], least), c[2])]
           Grown(g) == [i \in 0 .. n |->
             IF i = 0 THEN hull ELSE Append(Popped(g[i - 1], points[i], least), points[i])]
           grown == CHOOSE g : g = Grown(g)
<1>1. n \in Nat /\ \A i \in 1 .. n : points[i] \in Plane
  BY ElementOfSeq
<1>2. step \in [S \X Plane -> S]
  <2>1. ASSUME NEW c \in S \X Plane PROVE Append(Popped(c[1], c[2], least), c[2]) \in S
    <3>1. c[1] \in S /\ c[2] \in Plane
      OBVIOUS
    <3>2. Popped(c[1], c[2], least) \in Seq(Plane)
      BY <3>1, PoppedType
    <3>3. QED
      BY <3>1, <3>2, AppendProperties
  <2>2. QED
    BY <2>1
<1>3. ASSUME NEW s \in S, NEW p \in Plane
      PROVE  step[<<s, p>>] = Append(Popped(s, p, least), p)
  OBVIOUS
<1> HIDE DEF n, S, step
<1>4. PICK f \in [0 .. n -> S] : Folds(f, n, hull, step, points)
  <2>1. hull \in S
    BY DEF S
  <2>2. QED
    BY <1>1, <1>2, <2>1, FoldExists
<1>5. f = Grown(f)
  <2>1. ASSUME NEW i \in 0 .. n
        PROVE  f[i] = IF i = 0 THEN hull ELSE Append(Popped(f[i - 1], points[i], least), points[i])
    <3>1. CASE i = 0
      BY <1>4, <3>1 DEF Folds
    <3>2. CASE i # 0
      <4>1. i \in 1 .. n /\ i - 1 \in 0 .. n
        BY <1>1, <3>2
      <4>2. f[i - 1] \in S /\ points[i] \in Plane
        BY <1>1, <4>1
      <4>3. f[i] = step[<<f[i - 1], points[i]>>]
        BY <1>4, <3>2 DEF Folds
      <4>4. QED
        BY <1>3, <3>2, <4>2, <4>3
    <3>3. QED
      BY <3>1, <3>2
  <2>2. f = [i \in 0 .. n |-> f[i]]
    OBVIOUS
  <2>3. QED
    BY <2>1, <2>2
<1>6. grown = Grown(grown)
  <2> HIDE DEF Grown
  <2>1. QED
    BY <1>5
<1>7. Chain(hull, points, least) = grown[n]
  BY DEF Chain, n
<1> HIDE DEF grown
<1>8. /\ grown[0] = hull
      /\ \A i \in 1 .. n :
           grown[i] = Append(Popped(grown[i - 1], points[i], least), points[i])
  <2>1. \A i \in 0 .. n : grown[i] =
          IF i = 0 THEN hull ELSE Append(Popped(grown[i - 1], points[i], least), points[i])
    BY <1>6
  <2>2. 0 \in 0 .. n /\ \A i \in 1 .. n : i \in 0 .. n /\ i # 0
    BY <1>1
  <2>3. QED
    BY <2>1, <2>2
<1>9. grown \in [0 .. n -> S]
  <2> DEFINE T == {i \in 0 .. n : grown[i] \in S}
  <2>1. 0 \in T
    BY <1>1, <1>8 DEF S
  <2>2. ASSUME NEW i \in 0 .. n - 1, i \in T PROVE i + 1 \in T
    <3>1. i + 1 \in 1 .. n /\ i + 1 \in 0 .. n /\ (i + 1) - 1 = i
      BY <1>1
    <3>2. grown[i + 1] = Append(Popped(grown[i], points[i + 1], least), points[i + 1])
      BY <1>8, <3>1
    <3>3. grown[i] \in Seq(Plane) /\ points[i + 1] \in Plane
      BY <1>1, <2>2, <3>1 DEF S
    <3>4. Popped(grown[i], points[i + 1], least) \in Seq(Plane)
      BY <3>3, PoppedType
    <3>5. grown[i + 1] \in S
      BY <3>2, <3>3, <3>4, AppendProperties DEF S
    <3>6. QED
      BY <3>1, <3>5
  <2> HIDE DEF T
  <2>3. \A i \in 0 .. n : i \in T
    BY <1>1, <2>1, <2>2, UpTo
  <2>4. \A i \in 0 .. n : grown[i] \in S
    BY <2>3 DEF T
  <2>5. QED
    BY <1>6, <2>4
<1>10. QED
  BY <1>7, <1>8, <1>9 DEF n, S

-----------------------------------------------------------------------------
(* The points in order *)

PointsOf(s) == {s[i] : i \in 1 .. Len(s)}

Ordered(s) == \A i, j \in 1 .. Len(s) : i <= j => Ahead(1, s[i], s[j])

OrderedPoints == {s \in Seq(Plane) : Ordered(s)}

LEMMA NotBefore ==
  ASSUME NEW a \in Plane, NEW b \in Plane
  PROVE  ~Before(b, a) <=> Ahead(1, a, b)
BY DEF Plane, Before, Ahead, Half

LEMMA InsertAtIs ==
  ASSUME NEW s \in Seq(Plane), NEW p \in Plane, NEW k \in 1 .. Len(s) + 1
  PROVE  /\ InsertAt(s, k, p) \in Seq(Plane)
         /\ Len(InsertAt(s, k, p)) = Len(s) + 1
         /\ \A i \in 1 .. k - 1 : InsertAt(s, k, p)[i] = s[i]
         /\ InsertAt(s, k, p)[k] = p
         /\ \A i \in k + 1 .. Len(s) + 1 : InsertAt(s, k, p)[i] = s[i - 1]
<1> DEFINE front == SubSeq(s, 1, k - 1)
           back == SubSeq(s, k, Len(s))
           start == front \o <<p>>
           all == start \o back
           n == Len(s)
<1>1. n \in Nat /\ k \in Nat /\ 1 <= k /\ k <= n + 1
  OBVIOUS
<1>2. \A i \in 1 .. n : s[i] \in Plane
  BY ElementOfSeq
<1> HIDE DEF n
<1>3. front \in Seq(Plane) /\ Len(front) = k - 1 /\ \A i \in 1 .. k - 1 : front[i] = s[i]
  <2>1. 1 \in Int /\ k - 1 \in Int /\ \A i \in 1 .. k - 1 : s[i] \in Plane
    BY <1>1, <1>2
  <2>2. /\ front \in Seq(Plane) /\ Len(front) = IF 1 <= k - 1 THEN (k - 1) - 1 + 1 ELSE 0
        /\ \A i \in 1 .. (k - 1) - 1 + 1 : front[i] = s[1 + i - 1]
    BY <2>1, SubSeqProperties
  <2>3. (k - 1) - 1 + 1 = k - 1 /\ \A i \in 1 .. k - 1 : 1 + i - 1 = i
    BY <1>1
  <2>4. Len(front) = k - 1
    BY <1>1, <2>2
  <2>5. QED
    BY <2>2, <2>3, <2>4
<1>4. /\ back \in Seq(Plane) /\ Len(back) = n - k + 1
      /\ \A i \in 1 .. n - k + 1 : back[i] = s[k + i - 1]
  <2>1. k \in Int /\ n \in Int /\ \A i \in k .. n : s[i] \in Plane
    BY <1>1, <1>2
  <2>2. /\ SubSeq(s, k, n) \in Seq(Plane)
        /\ Len(SubSeq(s, k, n)) = IF k <= n THEN n - k + 1 ELSE 0
        /\ \A i \in 1 .. n - k + 1 : SubSeq(s, k, n)[i] = s[k + i - 1]
    BY <2>1, SubSeqProperties
  <2>3. Len(SubSeq(s, k, n)) = n - k + 1
    BY <1>1, <2>2
  <2>4. QED
    BY <2>2, <2>3 DEF n
<1> HIDE DEF front, back
<1>5. /\ start \in Seq(Plane) /\ Len(start) = k
      /\ \A i \in 1 .. k - 1 : start[i] = s[i]
      /\ start[k] = p
  <2>1. <<p>> \in Seq(Plane) /\ Len(<<p>>) = 1 /\ <<p>>[1] = p
    OBVIOUS
  <2>2. /\ start \in Seq(Plane) /\ Len(start) = Len(front) + Len(<<p>>)
        /\ \A i \in 1 .. Len(front) + Len(<<p>>) :
             start[i] = IF i <= Len(front) THEN front[i] ELSE <<p>>[i - Len(front)]
    BY <1>3, <2>1, ConcatProperties
  <2>3. Len(front) + Len(<<p>>) = k /\ k \in 1 .. k /\ k - (k - 1) = 1 /\ ~(k <= k - 1)
        /\ \A i \in 1 .. k - 1 : i \in 1 .. k /\ i <= k - 1
    BY <1>1, <1>3, <2>1
  <2>4. start[k] = p
    BY <1>3, <2>1, <2>2, <2>3
  <2>5. \A i \in 1 .. k - 1 : start[i] = s[i]
    BY <1>3, <2>2, <2>3
  <2>6. QED
    BY <2>2, <2>3, <2>4, <2>5
<1> HIDE DEF start
<1>6. /\ all \in Seq(Plane) /\ Len(all) = n + 1
      /\ \A i \in 1 .. n + 1 : all[i] = IF i <= k THEN start[i] ELSE back[i - k]
  <2>1. /\ all \in Seq(Plane) /\ Len(all) = Len(start) + Len(back)
        /\ \A i \in 1 .. Len(start) + Len(back) :
             all[i] = IF i <= Len(start) THEN start[i] ELSE back[i - Len(start)]
    BY <1>4, <1>5, ConcatProperties
  <2>2. Len(start) + Len(back) = n + 1
    BY <1>1, <1>4, <1>5
  <2>3. QED
    BY <1>5, <2>1, <2>2
<1>7. InsertAt(s, k, p) = all
  BY DEF InsertAt, start, front, back
<1> HIDE DEF all
<1>8. \A i \in 1 .. k - 1 : all[i] = s[i]
  <2>1. \A i \in 1 .. k - 1 : i \in 1 .. n + 1 /\ i <= k
    BY <1>1
  <2>2. QED
    BY <1>5, <1>6, <2>1
<1>9. all[k] = p
  BY <1>1, <1>5, <1>6
<1>10. \A i \in k + 1 .. n + 1 : all[i] = s[i - 1]
  <2>1. ASSUME NEW i \in k + 1 .. n + 1 PROVE all[i] = s[i - 1]
    <3>1. i \in 1 .. n + 1 /\ ~(i <= k) /\ i - k \in 1 .. n - k + 1 /\ k + (i - k) - 1 = i - 1
      BY <1>1
    <3>2. all[i] = back[i - k] /\ back[i - k] = s[k + (i - k) - 1]
      BY <1>4, <1>6, <3>1
    <3>3. QED
      BY <3>1, <3>2
  <2>2. QED
    BY <2>1
<1>11. QED
  BY <1>6, <1>7, <1>8, <1>9, <1>10 DEF n

(* A point finds its place among ordered ones.                             *)
LEMMA InsertedIs ==
  ASSUME NEW s \in OrderedPoints, NEW p \in Plane
  PROVE  /\ Inserted(s, p) \in OrderedPoints
         /\ Len(Inserted(s, p)) = Len(s) + 1
         /\ PointsOf(Inserted(s, p)) = PointsOf(s) \cup {p}
<1> DEFINE n == Len(s)
           Place(k) == \A i \in 1 .. Len(s) : i < k <=> ~Before(p, s[i])
           place == CHOOSE k \in 1 .. Len(s) + 1 : Place(k)
           r == InsertAt(s, place, p)
<1>1. s \in Seq(Plane) /\ n \in Nat /\ Ordered(s) /\ \A i \in 1 .. n : s[i] \in Plane
  BY ElementOfSeq DEF OrderedPoints
<1>2. \E k \in 1 .. n + 1 : Place(k)
  <2> DEFINE S == {i \in 0 .. n : i = 0 \/ ~Before(p, s[i])}
  <2>1. 0 \in 0 .. n /\ 0 \in S
    BY <1>1
  <2>2. PICK m \in 0 .. n : m \in S /\ \A j \in m + 1 .. n : j \notin S
    <3> HIDE DEF S, n
    <3>1. QED
      BY <1>1, <2>1, GreatestUpTo
  <2>3. m + 1 \in 1 .. n + 1 /\ m \in Nat
    BY <1>1
  <2>4. ASSUME NEW i \in 1 .. n, i < m + 1 PROVE ~Before(p, s[i])
    <3>1. m \in 1 .. n /\ i <= m
      BY <1>1, <2>3, <2>4
    <3>2. Ahead(1, s[i], s[m])
      BY <1>1, <3>1 DEF Ordered
    <3>3. ~Before(p, s[m])
      BY <2>2, <3>1
    <3>4. s[i] \in Plane /\ s[m] \in Plane
      BY <1>1, <3>1
    <3>5. Ahead(1, s[m], p)
      BY <3>3, <3>4, NotBefore
    <3>6. Ahead(1, s[i], p)
      BY <3>2, <3>4, <3>5, AheadTrans DEF Ways
    <3>7. QED
      BY <3>4, <3>6, NotBefore
  <2>5. ASSUME NEW i \in 1 .. n, ~(i < m + 1) PROVE Before(p, s[i])
    <3>1. i \in m + 1 .. n /\ i \in 0 .. n
      BY <1>1, <2>3, <2>5
    <3>2. QED
      BY <2>2, <3>1
  <2>6. Place(m + 1)
    BY <2>4, <2>5
  <2>7. QED
    BY <2>3, <2>6
<1>3. place \in 1 .. n + 1 /\ Place(place)
  <2> HIDE DEF Place
  <2>1. QED
    BY <1>2
<1>4. Inserted(s, p) = r
  BY DEF Inserted
<1> HIDE DEF place
<1>5. place \in Nat /\ 1 <= place /\ place <= n + 1
  BY <1>1, <1>3
<1>6. /\ r \in Seq(Plane) /\ Len(r) = n + 1
      /\ \A i \in 1 .. place - 1 : r[i] = s[i]
      /\ r[place] = p
      /\ \A i \in place + 1 .. n + 1 : r[i] = s[i - 1]
  <2> HIDE DEF Place
  <2>1. s \in Seq(Plane) /\ place \in 1 .. Len(s) + 1
    BY <1>1, <1>3
  <2>2. QED
    BY <2>1, InsertAtIs
<1> HIDE DEF r
<1>7. \A i \in 1 .. n + 1 : i \in 1 .. place - 1 \/ i = place \/ i \in place + 1 .. n + 1
  BY <1>1, <1>5
<1>8. \A i \in 1 .. place - 1 : i \in 1 .. n /\ r[i] = s[i] /\ s[i] \in Plane /\ Ahead(1, s[i], p)
  <2>1. \A i \in 1 .. place - 1 : i \in 1 .. n /\ i < place
    BY <1>1, <1>5
  <2>2. QED
    BY <1>1, <1>3, <1>6, <2>1, NotBefore
<1>9. \A i \in place + 1 .. n + 1 :
        i - 1 \in 1 .. n /\ r[i] = s[i - 1] /\ s[i - 1] \in Plane /\ Ahead(1, p, s[i - 1])
  <2>1. \A i \in place + 1 .. n + 1 : i - 1 \in 1 .. n /\ ~(i - 1 < place)
    BY <1>1, <1>5
  <2>2. ASSUME NEW j \in 1 .. n, ~(j < place) PROVE Ahead(1, p, s[j])
    <3>1. Before(p, s[j]) /\ s[j] \in Plane
      BY <1>1, <1>3, <2>2
    <3>2. ~Ahead(1, s[j], p)
      BY <3>1, NotBefore
    <3>3. QED
      BY <3>1, <3>2, AheadTotal DEF Ways
  <2>3. QED
    BY <1>1, <1>6, <2>1, <2>2
<1>10. Ordered(r)
  <2> SUFFICES ASSUME NEW i \in 1 .. n + 1, NEW j \in 1 .. n + 1, i <= j
               PROVE  Ahead(1, r[i], r[j])
    BY <1>6 DEF Ordered
  <2>1. CASE i \in 1 .. place - 1 /\ j \in 1 .. place - 1
    <3>1. i \in 1 .. n /\ j \in 1 .. n /\ r[i] = s[i] /\ r[j] = s[j]
      BY <1>8, <2>1
    <3>2. QED
      BY <1>1, <3>1 DEF Ordered
  <2>2. CASE i \in 1 .. place - 1 /\ j = place
    BY <1>6, <1>8, <2>2
  <2>3. CASE i \in 1 .. place - 1 /\ j \in place + 1 .. n + 1
    <3>1. /\ r[i] = s[i] /\ s[i] \in Plane /\ Ahead(1, s[i], p)
          /\ r[j] = s[j - 1] /\ s[j - 1] \in Plane /\ Ahead(1, p, s[j - 1])
      BY <1>8, <1>9, <2>3
    <3>2. QED
      BY <3>1, AheadTrans DEF Ways
  <2>4. CASE i = place /\ j = place
    BY <1>6, <2>4, AheadOfItself DEF Ways
  <2>5. CASE i = place /\ j \in place + 1 .. n + 1
    BY <1>6, <1>9, <2>5
  <2>6. CASE i \in place + 1 .. n + 1 /\ j \in place + 1 .. n + 1
    <3>1. i - 1 \in 1 .. n /\ j - 1 \in 1 .. n /\ r[i] = s[i - 1] /\ r[j] = s[j - 1]
      BY <1>9, <2>6
    <3>2. i - 1 <= j - 1
      OBVIOUS
    <3>3. QED
      BY <1>1, <3>1, <3>2 DEF Ordered
  <2>7. ~(i = place /\ j \in 1 .. place - 1) /\ ~(i \in place + 1 .. n + 1 /\ j = place)
        /\ ~(i \in place + 1 .. n + 1 /\ j \in 1 .. place - 1)
    BY <1>5
  <2>8. QED
    BY <1>7, <2>1, <2>2, <2>3, <2>4, <2>5, <2>6, <2>7
<1>11. PointsOf(r) = PointsOf(s) \cup {p}
  <2>1. ASSUME NEW i \in 1 .. n + 1 PROVE r[i] \in PointsOf(s) \cup {p}
    BY <1>6, <1>7, <1>8, <1>9 DEF PointsOf
  <2>2. ASSUME NEW i \in 1 .. n PROVE \E j \in 1 .. n + 1 : r[j] = s[i]
    <3>1. CASE i < place
      <4>1. i \in 1 .. place - 1 /\ i \in 1 .. n + 1
        BY <1>1, <1>5, <3>1
      <4>2. QED
        BY <1>6, <4>1
    <3>2. CASE ~(i < place)
      <4>1. i + 1 \in place + 1 .. n + 1 /\ i + 1 \in 1 .. n + 1 /\ (i + 1) - 1 = i
        BY <1>1, <1>5, <3>2
      <4>2. QED
        BY <1>6, <4>1
    <3>3. QED
      BY <3>1, <3>2
  <2>3. place \in 1 .. n + 1 /\ r[place] = p
    BY <1>3, <1>6
  <2>4. PointsOf(r) = {r[i] : i \in 1 .. n + 1}
    BY <1>6 DEF PointsOf
  <2>5. QED
    BY <2>1, <2>2, <2>3, <2>4 DEF PointsOf
<1>12. QED
  BY <1>4, <1>6, <1>10, <1>11 DEF OrderedPoints

LEMMA SortedIs ==
  ASSUME NEW points \in Seq(Plane)
  PROVE  /\ Sorted(points) \in OrderedPoints
         /\ Len(Sorted(points)) = Len(points)
         /\ PointsOf(Sorted(points)) = PointsOf(points)
<1> DEFINE n == Len(points)
           S == OrderedPoints
           step == [c \in S \X Plane |-> Inserted(c[1], c[2])]
           Placed(g) == [i \in 0 .. n |-> IF i = 0 THEN <<>> ELSE Inserted(g[i - 1], points[i])]
           placed == CHOOSE g : g = Placed(g)
<1>1. n \in Nat /\ \A i \in 1 .. n : points[i] \in Plane
  BY ElementOfSeq
<1>2. step \in [S \X Plane -> S]
  <2>1. ASSUME NEW c \in S \X Plane PROVE Inserted(c[1], c[2]) \in S
    <3>1. c[1] \in S /\ c[2] \in Plane
      OBVIOUS
    <3>2. QED
      BY <3>1, InsertedIs
  <2>2. QED
    BY <2>1
<1>3. ASSUME NEW s \in S, NEW p \in Plane PROVE step[<<s, p>>] = Inserted(s, p)
  OBVIOUS
<1>4. <<>> \in S
  BY EmptySeq DEF OrderedPoints, Ordered
<1> HIDE DEF n, S, step
<1>5. PICK f \in [0 .. n -> S] : Folds(f, n, <<>>, step, points)
  BY <1>1, <1>2, <1>4, FoldExists
<1>6. f = Placed(f)
  <2>1. ASSUME NEW i \in 0 .. n
        PROVE  f[i] = IF i = 0 THEN <<>> ELSE Inserted(f[i - 1], points[i])
    <3>1. CASE i = 0
      BY <1>5, <3>1 DEF Folds
    <3>2. CASE i # 0
      <4>1. i \in 1 .. n /\ i - 1 \in 0 .. n
        BY <1>1, <3>2
      <4>2. f[i - 1] \in S /\ points[i] \in Plane
        BY <1>1, <4>1
      <4>3. f[i] = step[<<f[i - 1], points[i]>>]
        BY <1>5, <3>2 DEF Folds
      <4>4. QED
        BY <1>3, <3>2, <4>2, <4>3
    <3>3. QED
      BY <3>1, <3>2
  <2>2. f = [i \in 0 .. n |-> f[i]]
    OBVIOUS
  <2>3. QED
    BY <2>1, <2>2
<1>7. placed = Placed(placed)
  <2> HIDE DEF Placed
  <2>1. QED
    BY <1>6
<1>8. Sorted(points) = placed[n]
  BY DEF Sorted, n
<1> HIDE DEF placed
<1>9. /\ placed[0] = <<>>
      /\ \A i \in 1 .. n : placed[i] = Inserted(placed[i - 1], points[i])
  <2>1. \A i \in 0 .. n : placed[i] =
          IF i = 0 THEN <<>> ELSE Inserted(placed[i - 1], points[i])
    BY <1>7
  <2>2. 0 \in 0 .. n /\ \A i \in 1 .. n : i \in 0 .. n /\ i # 0
    BY <1>1
  <2>3. QED
    BY <2>1, <2>2
<1> DEFINE Are(i) == /\ placed[i] \in OrderedPoints /\ Len(placed[i]) = i
                     /\ PointsOf(placed[i]) = {points[j] : j \in 1 .. i}
           T == {i \in 0 .. n : Are(i)}
<1>10. 0 \in T
  <2>1. PointsOf(<<>>) = {} /\ {points[j] : j \in 1 .. 0} = {} /\ Len(<<>>) = 0
    BY EmptySeq DEF PointsOf
  <2>2. QED
    BY <1>1, <1>4, <1>9, <2>1 DEF S
<1>11. ASSUME NEW i \in 0 .. n - 1, Are(i) PROVE i + 1 \in 0 .. n /\ Are(i + 1)
  <2>1. i + 1 \in 1 .. n /\ i + 1 \in 0 .. n /\ (i + 1) - 1 = i
    BY <1>1
  <2>2. placed[i + 1] = Inserted(placed[i], points[i + 1]) /\ points[i + 1] \in Plane
    BY <1>1, <1>9, <2>1
  <2>3. /\ placed[i + 1] \in OrderedPoints /\ Len(placed[i + 1]) = i + 1
        /\ PointsOf(placed[i + 1]) = PointsOf(placed[i]) \cup {points[i + 1]}
    BY <1>11, <2>2, InsertedIs
  <2>4. {points[j] : j \in 1 .. i + 1} = {points[j] : j \in 1 .. i} \cup {points[i + 1]}
    <3>1. \A j \in 1 .. i + 1 : j \in 1 .. i \/ j = i + 1
      BY <1>1
    <3>2. \A j \in 1 .. i : j \in 1 .. i + 1
      BY <1>1
    <3>3. i + 1 \in 1 .. i + 1
      BY <1>1
    <3>4. QED
      BY <3>1, <3>2, <3>3
  <2>5. QED
    BY <1>11, <2>1, <2>3, <2>4
<1>12. n \in T
  <2> HIDE DEF Are
  <2>1. n \in Nat /\ 0 \in T /\ \A i \in 0 .. n - 1 : i \in T => i + 1 \in T
    BY <1>1, <1>10, <1>11
  <2> HIDE DEF T
  <2>2. \A i \in 0 .. n : i \in T
    BY <2>1, UpTo
  <2>3. QED
    BY <2>1, <2>2
<1>13. Are(n)
  BY <1>12
<1>14. PointsOf(points) = {points[j] : j \in 1 .. n}
  BY DEF PointsOf, n
<1>15. QED
  BY <1>8, <1>13, <1>14 DEF n

-----------------------------------------------------------------------------
(* The hull *)

(* A chain goes along with the points that lie ahead of it.                *)
Along(n, g, points, base, way, seen, from) ==
  \A i \in from + 1 .. n :
    /\ points[i] \in Plane
    /\ g[i] = Append(Popped(g[i - 1], points[i], base + 1), points[i])
    /\ \A q \in seen : Ahead(way, q, points[i])
    /\ \A j \in from + 1 .. i : Ahead(way, points[j], points[i])

Onwards(points, seen, from, n) == seen \cup {points[j] : j \in from + 1 .. n}

LEMMA ChainAlong ==
  ASSUME NEW n \in Nat, NEW g, NEW points, NEW base, NEW way \in Ways, NEW seen,
         NEW from \in 0 .. n - 1, IsChain(g[from], base, way, seen),
         Along(n, g, points, base, way, seen, from)
  PROVE  GoesOn(g[n], g[from], base, way, Onwards(points, seen, from, n), points[n])
<1> USE DEF Along
<1> DEFINE Seen(i) == seen \cup {points[j] : j \in from + 1 .. i}
           Is(i) == /\ IsChain(g[i], base, way, Seen(i))
                    /\ i > from => Len(g[i]) > base /\ g[i][Len(g[i])] = points[i]
                    /\ \A j \in 1 .. base : g[i][j] = g[from][j]
           T == {i \in 0 .. n : i < from \/ Is(i)}
<1>1. from \in Nat /\ from < n
  OBVIOUS
<1>2. Is(from)
  <2>1. Seen(from) = seen
    <3>1. ~ \E j \in from + 1 .. from : TRUE
      BY <1>1
    <3>2. QED
      BY <3>1
  <2>2. ~(from > from)
    BY <1>1
  <2> HIDE DEF Seen
  <2>3. QED
    BY <2>1, <2>2
<1>3. ASSUME NEW i \in from .. n - 1, Is(i) PROVE Is(i + 1)
  <2>1. /\ i + 1 \in from + 1 .. n /\ (i + 1) - 1 = i /\ i \in Nat
        /\ \A j \in from + 1 .. i : j \in from + 1 .. i + 1
        /\ i + 1 \in from + 1 .. i + 1
        /\ \A j \in from + 1 .. i + 1 : j \in from + 1 .. i \/ j = i + 1
    <3> HIDE DEF Is
    <3>1. i \in Nat /\ from <= i /\ i <= n - 1
      BY <1>1
    <3>2. QED
      BY <1>1, <3>1
  <2> DEFINE point == points[i + 1]
  <2>2. point \in Plane /\ g[i + 1] = Append(Popped(g[i], point, base + 1), point)
    BY <2>1
  <2>3. \A q \in Seen(i) : Ahead(way, q, point)
    BY <2>1
  <2>4. Seen(i + 1) = Seen(i) \cup {point}
    BY <2>1
  <2> HIDE DEF point, Seen
  <2>5. /\ IsChain(g[i + 1], base, way, Seen(i) \cup {point})
        /\ Len(g[i + 1]) > base
        /\ g[i + 1][Len(g[i + 1])] = point
        /\ \A j \in 1 .. base : g[i + 1][j] = g[i][j]
    <3> DEFINE hull == g[i]
               old == Seen(i)
               grown == Append(Popped(hull, point, base + 1), point)
    <3>1. IsChain(hull, base, way, old) /\ \A q \in old : Ahead(way, q, point)
      BY <1>3, <2>3
    <3> HIDE DEF hull, old
    <3>2. GoesOn(grown, hull, base, way, old \cup {point}, point)
      BY <2>2, <3>1, ChainGrows
    <3>3. g[i + 1] = grown
      BY <2>2 DEF hull
    <3>4. QED
      BY <3>2, <3>3 DEF hull, old, GoesOn
  <2>6. QED
    BY <1>3, <2>4, <2>5 DEF point
<1>4. 0 \in T
  <2>1. from = 0 \/ 0 < from
    BY <1>1
  <2> HIDE DEF Is
  <2>2. QED
    BY <1>1, <1>2, <2>1
<1>5. n \in Nat /\ 0 \in T /\ \A i \in 0 .. n - 1 : i \in T => i + 1 \in T
  <2> SUFFICES ASSUME NEW i \in 0 .. n - 1, i \in T PROVE i + 1 \in T
    BY <1>4
  <2>1. i + 1 \in 0 .. n
    OBVIOUS
  <2>2. CASE i + 1 < from
    BY <2>1, <2>2
  <2>3. CASE i + 1 = from
    <3> HIDE DEF Is
    <3>1. QED
      BY <1>2, <2>1, <2>3
  <2>4. CASE i >= from
    <3>1. i \in from .. n - 1 /\ ~(i < from)
      BY <1>1, <2>4
    <3> HIDE DEF Is
    <3>2. Is(i)
      BY <3>1
    <3>3. Is(i + 1)
      BY <1>3, <3>1, <3>2
    <3>4. QED
      BY <2>1, <3>3
  <2>5. QED
    BY <1>1, <2>2, <2>3, <2>4
<1>6. \A i \in 0 .. n : i \in T
  <2> HIDE DEF T
  <2>1. QED
    BY <1>5, UpTo
<1>7. Is(n)
  <2>1. n \in 0 .. n /\ ~(n < from)
    BY <1>1
  <2> HIDE DEF Is
  <2>2. QED
    BY <1>6, <2>1
<1>8. Seen(n) = Onwards(points, seen, from, n)
  BY DEF Onwards
<1>9. QED
  BY <1>1, <1>7, <1>8 DEF GoesOn

LEMMA AheadBack ==
  ASSUME NEW a \in Plane, NEW b \in Plane
  PROVE  Ahead(-1, a, b) <=> Ahead(1, b, a)
BY DEF Plane, Ahead, Half

(* The lower chain goes from the first of all points to the last.          *)
LEMMA LowerChain ==
  ASSUME NEW s \in OrderedPoints, Len(s) >= 2
  PROVE  LET lower == Chain(<<>>, s, 2)
         IN  /\ IsChain(lower, 1, 1, PointsOf(s))
             /\ Len(lower) > 1
             /\ lower[Len(lower)] = s[Len(s)]
             /\ lower[1] = s[1]
<1> DEFINE n == Len(s)
           lower == Chain(<<>>, s, 2)
<1>1. /\ s \in Seq(Plane) /\ n \in Nat /\ n >= 2 /\ Ordered(s)
      /\ \A i \in 1 .. n : s[i] \in Plane
  BY ElementOfSeq DEF OrderedPoints
<1>2. PICK g \in [0 .. n -> Seq(Plane)] :
        /\ g[0] = <<>>
        /\ \A i \in 1 .. n : g[i] = Append(Popped(g[i - 1], s[i], 2), s[i])
        /\ lower = g[n]
  <2>1. 2 \in Nat \ {0} /\ <<>> \in Seq(Plane)
    BY EmptySeq
  <2>2. QED
    BY <1>1, <2>1, ChainIs, ZenonT(60)
<1> HIDE DEF n, lower
<1>3. g[1] = <<s[1]>>
  <2>1. 1 \in 1 .. n /\ 1 - 1 = 0
    BY <1>1
  <2>2. g[1] = Append(<<>>, s[1])
    BY <1>2, <2>1, PoppedNothing
  <2>3. QED
    BY <2>2
<1>4. s[1] \in Plane /\ 1 \in Ways
  BY <1>1 DEF Ways
<1>5. IsChain(g[1], 1, 1, {s[1]})
  <2> DEFINE h == <<s[1]>>
  <2>1. h \in Seq(Plane) /\ Len(h) = 1 /\ h[1] = s[1]
    BY <1>4
  <2>2. Ahead(1, s[1], s[1])
    BY <1>4, AheadOfItself
  <2> HIDE DEF h
  <2>3. \A i \in 1 .. Len(h) : i = 1
    BY <2>1
  <2>4. (~ \E i \in 1 .. Len(h) - 1 : TRUE) /\ (~ \E i \in 1 + 1 .. Len(h) - 1 : TRUE)
    BY <2>1
  <2>5. IsChain(h, 1, 1, {s[1]})
    BY <1>4, <2>1, <2>2, <2>3, <2>4 DEF IsChain
  <2>6. QED
    BY <1>3, <2>5 DEF h
<1>6. Along(n, g, s, 1, 1, {s[1]}, 1)
  <2>1. ASSUME NEW i \in 2 .. n
        PROVE  /\ s[i] \in Plane
               /\ g[i] = Append(Popped(g[i - 1], s[i], 2), s[i])
               /\ Ahead(1, s[1], s[i])
               /\ \A j \in 2 .. i : Ahead(1, s[j], s[i])
    <3>1. 1 \in 1 .. n /\ i \in 1 .. n /\ 1 <= i
      BY <1>1
    <3>2. \A j \in 2 .. i : j \in 1 .. n /\ j <= i
      BY <1>1
    <3>3. \A j, k \in 1 .. n : j <= k => Ahead(1, s[j], s[k])
      BY <1>1 DEF Ordered, n
    <3>4. QED
      BY <1>1, <1>2, <3>1, <3>2, <3>3
  <2>2. 1 + 1 = 2
    OBVIOUS
  <2>3. QED
    BY <2>1, <2>2 DEF Along
<1>7. GoesOn(g[n], g[1], 1, 1, Onwards(s, {s[1]}, 1, n), s[n])
  <2> DEFINE base == 1
             way == 1
             from == 1
             first == {s[1]}
  <2>1. /\ from \in 0 .. n - 1 /\ n \in Nat /\ way \in Ways
        /\ IsChain(g[from], base, way, first)
        /\ Along(n, g, s, base, way, first, from)
    BY <1>1, <1>4, <1>5, <1>6
  <2> HIDE DEF base, way, from, first
  <2>2. GoesOn(g[n], g[from], base, way, Onwards(s, first, from, n), s[n])
    BY <2>1, ChainAlong
  <2>3. QED
    BY <2>2 DEF base, way, from, first
<1>8. Onwards(s, {s[1]}, 1, n) = PointsOf(s)
  <2>1. 1 \in 1 .. n /\ \A j \in 1 .. n : j = 1 \/ j \in 1 + 1 .. n
    BY <1>1
  <2>2. \A j \in 1 + 1 .. n : j \in 1 .. n
    BY <1>1
  <2>3. PointsOf(s) = {s[j] : j \in 1 .. n}
    BY DEF PointsOf, n
  <2>4. QED
    BY <2>1, <2>2, <2>3 DEF Onwards
<1>9. g[n][1] = s[1]
  <2>1. 1 \in 1 .. 1 /\ g[1][1] = s[1]
    BY <1>3
  <2>2. QED
    BY <1>7, <2>1 DEF GoesOn
<1>10. QED
  BY <1>2, <1>7, <1>8, <1>9 DEF GoesOn, n, lower

(* The upper chain goes on from there, back to the first.                  *)
LEMMA UpperChain ==
  ASSUME NEW s \in OrderedPoints, Len(s) >= 2,
         NEW lower \in Seq(Plane), Len(lower) > 1, lower[Len(lower)] = s[Len(s)]
  PROVE  GoesOn(Chain(lower, Reverse(Front(s)), Len(lower) + 1), lower, Len(lower), -1,
                PointsOf(s), s[1])
<1> DEFINE n == Len(s)
           m == Len(lower)
           front == Front(s)
           back == Reverse(front)
           upper == Chain(lower, back, m + 1)
           way == -1
           end == {s[n]}
<1>1. /\ s \in Seq(Plane) /\ n \in Nat /\ n >= 2 /\ Ordered(s) /\ m \in Nat /\ m > 1
      /\ \A i \in 1 .. n : s[i] \in Plane
  BY ElementOfSeq DEF OrderedPoints
<1>2. way \in Ways
  BY DEF Ways
<1>3. \A i, j \in 1 .. n : i <= j => Ahead(way, s[j], s[i])
  <2> SUFFICES ASSUME NEW i \in 1 .. n, NEW j \in 1 .. n, i <= j
               PROVE  Ahead(-1, s[j], s[i])
    OBVIOUS
  <2>1. Ahead(1, s[i], s[j]) /\ s[i] \in Plane /\ s[j] \in Plane
    BY <1>1 DEF Ordered
  <2>2. QED
    BY <2>1, AheadBack
<1> HIDE DEF n, way
<1>4. front \in Seq(Plane) /\ Len(front) = n - 1 /\ \A i \in 1 .. n - 1 : front[i] = s[i]
  <2>1. 1 \in Int /\ n - 1 \in Int /\ \A i \in 1 .. n - 1 : s[i] \in Plane
    BY <1>1
  <2>2. /\ SubSeq(s, 1, n - 1) \in Seq(Plane)
        /\ Len(SubSeq(s, 1, n - 1)) = IF 1 <= n - 1 THEN (n - 1) - 1 + 1 ELSE 0
        /\ \A i \in 1 .. (n - 1) - 1 + 1 : SubSeq(s, 1, n - 1)[i] = s[1 + i - 1]
    BY <2>1, SubSeqProperties
  <2>3. (n - 1) - 1 + 1 = n - 1 /\ 1 <= n - 1 /\ \A i \in 1 .. n - 1 : 1 + i - 1 = i
    BY <1>1
  <2>4. front = SubSeq(s, 1, n - 1)
    BY DEF Front, n
  <2>5. QED
    BY <2>2, <2>3, <2>4
<1> HIDE DEF front
<1>5. back \in Seq(Plane) /\ Len(back) = n - 1 /\ \A i \in 1 .. n - 1 : back[i] = s[n - i]
  <2>1. back = [i \in 1 .. n - 1 |-> front[(n - 1 - i) + 1]]
    BY <1>4 DEF Reverse
  <2>2. \A i \in 1 .. n - 1 : (n - 1 - i) + 1 = n - i /\ n - i \in 1 .. n - 1
    BY <1>1
  <2>3. \A i \in 1 .. n - 1 : back[i] = s[n - i]
    BY <1>4, <2>1, <2>2
  <2>4. \A i \in 1 .. n - 1 : back[i] \in Plane
    BY <1>1, <2>2, <2>3
  <2>5. back \in [1 .. n - 1 -> Plane] /\ n - 1 \in Nat
    BY <1>1, <2>1, <2>4
  <2>6. QED
    BY <2>3, <2>5
<1> HIDE DEF back
<1>6. PICK g \in [0 .. n - 1 -> Seq(Plane)] :
        /\ g[0] = lower
        /\ \A i \in 1 .. n - 1 : g[i] = Append(Popped(g[i - 1], back[i], m + 1), back[i])
        /\ upper = g[n - 1]
  <2> DEFINE k == Len(back)
             least == m + 1
  <2>1. least \in Nat \ {0} /\ k = n - 1
    BY <1>1, <1>5
  <2> HIDE DEF m, least
  <2>2. \E g \in [0 .. Len(back) -> Seq(Plane)] :
          /\ g[0] = lower
          /\ \A i \in 1 .. Len(back) : g[i] = Append(Popped(g[i - 1], back[i], least), back[i])
          /\ Chain(lower, back, least) = g[Len(back)]
    BY <1>5, <2>1, ChainIs, ZenonT(60)
  <2>3. \E g \in [0 .. k -> Seq(Plane)] :
          /\ g[0] = lower
          /\ \A i \in 1 .. k : g[i] = Append(Popped(g[i - 1], back[i], least), back[i])
          /\ upper = g[k]
    BY <2>2 DEF least
  <2> HIDE DEF k, upper
  <2>4. QED
    BY <2>1, <2>3 DEF least
<1> HIDE DEF m, upper, end
<1>7. lower[m] = s[n] /\ s[n] \in Plane
  <2>1. n \in 1 .. n
    BY <1>1
  <2>2. QED
    BY <1>1, <2>1 DEF n, m
<1>8. IsChain(g[0], m, way, end)
  <2>1. m \in 1 .. m /\ Len(lower) = m
    BY <1>1 DEF m
  <2>2. Ahead(way, s[n], s[n])
    BY <1>2, <1>7, AheadOfItself
  <2>3. /\ \A i \in m .. m : i = m
        /\ ~ \E i \in m .. m - 1 : TRUE
        /\ ~ \E i \in m + 1 .. m - 1 : TRUE
    BY <1>1
  <2>4. IsChain(lower, m, way, end)
    BY <1>7, <2>1, <2>2, <2>3 DEF IsChain, end
  <2>5. QED
    BY <1>6, <2>4
<1>9. Along(n - 1, g, back, m, way, end, 0)
  <2> SUFFICES ASSUME NEW i \in 0 + 1 .. n - 1
               PROVE  /\ back[i] \in Plane
                      /\ g[i] = Append(Popped(g[i - 1], back[i], m + 1), back[i])
                      /\ \A q \in end : Ahead(way, q, back[i])
                      /\ \A j \in 0 + 1 .. i : Ahead(way, back[j], back[i])
    BY DEF Along
  <2>1. i \in 1 .. n - 1 /\ n - i \in 1 .. n /\ n \in 1 .. n /\ n - i <= n
    BY <1>1
  <2>2. back[i] = s[n - i] /\ s[n - i] \in Plane
    BY <1>1, <1>5, <2>1
  <2>3. g[i] = Append(Popped(g[i - 1], back[i], m + 1), back[i])
    BY <1>6, <2>1
  <2>4. Ahead(way, s[n], back[i])
    BY <1>3, <2>1, <2>2
  <2>5. ASSUME NEW j \in 0 + 1 .. i PROVE Ahead(way, back[j], back[i])
    <3>1. j \in 1 .. n - 1 /\ n - j \in 1 .. n /\ n - i <= n - j
      BY <1>1, <2>1
    <3>2. back[j] = s[n - j]
      BY <1>5, <3>1
    <3>3. QED
      BY <1>3, <2>1, <2>2, <3>1, <3>2
  <2>6. QED
    BY <2>2, <2>3, <2>4, <2>5 DEF end
<1>10. GoesOn(g[n - 1], g[0], m, way, Onwards(back, end, 0, n - 1), back[n - 1])
  <2> DEFINE from == 0
             k == n - 1
  <2>1. /\ from \in 0 .. k - 1 /\ k \in Nat
        /\ IsChain(g[from], m, way, end) /\ Along(k, g, back, m, way, end, from)
    BY <1>1, <1>8, <1>9
  <2> HIDE DEF from, k
  <2>2. GoesOn(g[k], g[from], m, way, Onwards(back, end, from, k), back[k])
    BY <1>2, <2>1, ChainAlong
  <2>3. QED
    BY <2>2 DEF from, k
<1>11. Onwards(back, end, 0, n - 1) = PointsOf(s)
  <2>1. PointsOf(s) = {s[i] : i \in 1 .. n}
    BY DEF PointsOf, n
  <2>2. \A i \in 0 + 1 .. n - 1 : i \in 1 .. n - 1 /\ n - i \in 1 .. n
    BY <1>1
  <2>3. n \in 1 .. n
    BY <1>1
  <2>4. ASSUME NEW i \in 1 .. n
        PROVE  i = n \/ \E j \in 0 + 1 .. n - 1 : back[j] = s[i]
    <3>1. CASE i # n
      <4>1. n - i \in 0 + 1 .. n - 1 /\ n - i \in 1 .. n - 1 /\ n - (n - i) = i
        BY <1>1, <3>1
      <4>2. back[n - i] = s[i]
        BY <1>5, <4>1
      <4>3. QED
        BY <4>1, <4>2
    <3>2. QED
      BY <3>1
  <2>5. \A p \in Onwards(back, end, 0, n - 1) : p \in PointsOf(s)
    BY <1>5, <2>1, <2>2, <2>3 DEF Onwards, end
  <2>6. \A p \in PointsOf(s) : p \in Onwards(back, end, 0, n - 1)
    BY <2>1, <2>4 DEF Onwards, end
  <2>7. QED
    BY <2>5, <2>6
<1>12. back[n - 1] = s[1]
  <2>1. n - 1 \in 1 .. n - 1 /\ n - (n - 1) = 1
    BY <1>1
  <2>2. QED
    BY <1>5, <2>1
<1>13. GoesOn(upper, lower, m, way, PointsOf(s), s[1])
  BY <1>6, <1>10, <1>11, <1>12
<1>14. QED
  BY <1>13 DEF m, n, way, upper, back, front

(* Both chains together, from the first point round to itself.             *)
IsRound(round, turn, seen) ==
  /\ round \in Seq(Plane)
  /\ turn \in 2 .. Len(round) - 1
  /\ round[1] = round[Len(round)]
  /\ seen \subseteq Plane
  /\ \A i \in 1 .. Len(round) : round[i] \in seen
  /\ \A q \in seen : Ahead(1, round[1], q) /\ Ahead(1, q, round[turn])
  /\ \A i \in 1 .. Len(round) - 1 :
       /\ Ahead(IF i < turn THEN 1 ELSE -1, round[i], round[i + 1])
       /\ round[i] # round[i + 1] \/ \E q \in seen : seen = {q}
       /\ \A q \in seen : Cross(round[i], round[i + 1], q) >= 0
  /\ \A i \in 2 .. Len(round) - 1 :
       i # turn => Cross(round[i - 1], round[i], round[i + 1]) > 0

LEMMA RoundIs ==
  ASSUME NEW points \in Seq(Plane), Len(points) >= 2
  PROVE  \E round, turn : /\ IsRound(round, turn, PointsOf(points))
                          /\ ConvexHull(points) = Front(round)
<1> DEFINE s == Sorted(points)
           lower == Chain(<<>>, s, 2)
           m == Len(lower)
           round == Chain(lower, Reverse(Front(s)), m + 1)
           seen == PointsOf(points)
           len == Len(round)
<1>1. s \in OrderedPoints /\ Len(s) = Len(points) /\ PointsOf(s) = seen
  BY SortedIs
<1>2. ConvexHull(points) = Front(round)
  BY DEF ConvexHull
<1> HIDE DEF s, seen
<1>3. IsChain(lower, 1, 1, seen) /\ m > 1 /\ lower[m] = s[Len(s)] /\ lower[1] = s[1]
  BY <1>1, LowerChain
<1>4. lower \in Seq(Plane)
  BY <1>3 DEF IsChain
<1>5. GoesOn(round, lower, m, -1, seen, s[1])
  <2> HIDE DEF lower
  <2>1. QED
    BY <1>1, <1>3, <1>4, UpperChain
<1> HIDE DEF lower, round
<1>6. /\ IsChain(round, m, -1, seen) /\ len > m /\ round[len] = s[1]
      /\ \A i \in 1 .. m : round[i] = lower[i]
  BY <1>5 DEF GoesOn
<1>7. /\ round \in Seq(Plane) /\ seen \subseteq Plane /\ len \in Nat /\ m \in Nat
      /\ m > 1 /\ m < len
  BY <1>3, <1>4, <1>6 DEF IsChain
<1> HIDE DEF m, len
<1>8. /\ round[1] = lower[1] /\ round[m] = lower[m]
      /\ \A i \in 1 .. m - 1 : round[i] = lower[i] /\ round[i + 1] = lower[i + 1]
  <2>1. 1 \in 1 .. m /\ m \in 1 .. m /\ \A i \in 1 .. m - 1 : i \in 1 .. m /\ i + 1 \in 1 .. m
    BY <1>7
  <2>2. QED
    BY <1>6, <2>1
<1>9. /\ \A i \in 1 .. m : lower[i] \in seen
      /\ \A q \in seen : Ahead(1, lower[1], q) /\ Ahead(1, q, lower[m])
      /\ \A i \in 1 .. m - 1 :
           /\ Ahead(1, lower[i], lower[i + 1])
           /\ lower[i] # lower[i + 1] \/ seen = {lower[1]}
           /\ \A q \in seen : Cross(lower[i], lower[i + 1], q) >= 0
      /\ \A i \in 1 + 1 .. m - 1 : Cross(lower[i - 1], lower[i], lower[i + 1]) > 0
  BY <1>3 DEF IsChain, m
<1>10. /\ \A i \in m .. len : round[i] \in seen
       /\ \A i \in m .. len - 1 :
            /\ Ahead(-1, round[i], round[i + 1])
            /\ round[i] # round[i + 1] \/ seen = {round[m]}
            /\ \A q \in seen : Cross(round[i], round[i + 1], q) >= 0
       /\ \A i \in m + 1 .. len - 1 : Cross(round[i - 1], round[i], round[i + 1]) > 0
  BY <1>6 DEF IsChain, len
<1>11. round[1] = round[len]
  BY <1>3, <1>6, <1>8
<1>12. \A i \in 1 .. len : round[i] \in seen
  <2>1. \A i \in 1 .. len : i \in 1 .. m \/ i \in m .. len
    BY <1>7
  <2>2. QED
    BY <1>6, <1>9, <1>10, <2>1
<1>13. \A q \in seen : Ahead(1, round[1], q) /\ Ahead(1, q, round[m])
  BY <1>8, <1>9
<1>14. ASSUME NEW i \in 1 .. len - 1
       PROVE  /\ Ahead(IF i < m THEN 1 ELSE -1, round[i], round[i + 1])
              /\ round[i] # round[i + 1] \/ \E q \in seen : seen = {q}
              /\ \A q \in seen : Cross(round[i], round[i + 1], q) >= 0
  <2>1. CASE i < m
    <3>1. i \in 1 .. m - 1
      BY <1>7, <2>1
    <3>2. QED
      BY <1>8, <1>9, <2>1, <3>1
  <2>2. CASE ~(i < m)
    <3>1. i \in m .. len - 1
      BY <1>7, <2>2
    <3>2. QED
      BY <1>10, <2>2, <3>1
  <2>3. QED
    BY <2>1, <2>2
<1>15. ASSUME NEW i \in 2 .. len - 1, i # m
       PROVE  Cross(round[i - 1], round[i], round[i + 1]) > 0
  <2>1. CASE i < m
    <3>1. i \in 1 + 1 .. m - 1 /\ i - 1 \in 1 .. m /\ i \in 1 .. m - 1
      BY <1>7, <2>1
    <3>2. round[i - 1] = lower[i - 1] /\ round[i] = lower[i] /\ round[i + 1] = lower[i + 1]
      BY <1>6, <1>8, <3>1
    <3>3. QED
      BY <1>9, <3>1, <3>2
  <2>2. CASE i > m
    <3>1. i \in m + 1 .. len - 1
      BY <1>7, <2>2
    <3>2. QED
      BY <1>10, <3>1
  <2>3. QED
    BY <1>7, <1>15, <2>1, <2>2
<1>16. m \in 2 .. len - 1
  BY <1>7
<1>17. IsRound(round, m, seen)
  BY <1>7, <1>11, <1>12, <1>13, <1>14, <1>15, <1>16 DEF IsRound, len
<1>18. QED
  BY <1>2, <1>17 DEF seen

-----------------------------------------------------------------------------
(* What the hull encloses *)

Encloses(seen) == \E a, b, c \in seen : Cross(a, b, c) # 0

(* What is parallel to one vector is parallel to each other.               *)
LEMMA Parallel ==
  ASSUME NEW ux \in Int, NEW uy \in Int, NEW px \in Int, NEW py \in Int,
         NEW qx \in Int, NEW qy \in Int,
         ux # 0 \/ uy # 0, Wedge(ux, uy, px, py) = 0, Wedge(ux, uy, qx, qy) = 0
  PROVE  Wedge(px, py, qx, qy) = 0
<1> DEFINE k == Wedge(px, py, qx, qy)
           a == Wedge(ux, uy, px, py)
           b == Wedge(ux, uy, qx, qy)
<1>1. k \in Int
  BY WedgeType
<1>2. ux * k = px * b - qx * a /\ uy * k = py * b - qy * a
  BY DEF Wedge
<1>3. a = 0 /\ b = 0
  OBVIOUS
<1> HIDE DEF k, a, b
<1>4. ux * k = 0 /\ uy * k = 0
  BY <1>2, <1>3
<1>5. k = 0
  BY <1>1, <1>4
<1>6. QED
  BY <1>5 DEF k

LEMMA Collinear ==
  ASSUME NEW a \in Plane, NEW b \in Plane, a # b,
         NEW p \in Plane, NEW q \in Plane, NEW r \in Plane,
         Cross(a, b, p) = 0, Cross(a, b, q) = 0, Cross(a, b, r) = 0
  PROVE  Cross(p, q, r) = 0
<1> DEFINE ux == b.x - a.x
           uy == b.y - a.y
           px == q.x - p.x
           py == q.y - p.y
           qx == r.x - p.x
           qy == r.y - p.y
<1>1. /\ a.x \in Int /\ a.y \in Int /\ b.x \in Int /\ b.y \in Int /\ p.x \in Int /\ p.y \in Int
      /\ q.x \in Int /\ q.y \in Int /\ r.x \in Int /\ r.y \in Int
  BY DEF Plane
<1>2. /\ ux \in Int /\ uy \in Int /\ px \in Int /\ py \in Int /\ qx \in Int /\ qy \in Int
  BY <1>1
<1>3. ux # 0 \/ uy # 0
  BY <1>1 DEF Plane
<1>4. WedgeOf(a, b, p, q) = 0 /\ WedgeOf(a, b, p, r) = 0
  <2>1. /\ Cross(a, b, q) = Cross(a, b, p) + WedgeOf(a, b, p, q)
        /\ Cross(a, b, r) = Cross(a, b, p) + WedgeOf(a, b, p, r)
    BY CrossSum
  <2>2. WedgeOf(a, b, p, q) \in Int /\ WedgeOf(a, b, p, r) \in Int
    BY CrossType
  <2>3. QED
    BY <2>1, <2>2
<1>5. /\ WedgeOf(a, b, p, q) = Wedge(ux, uy, px, py)
      /\ WedgeOf(a, b, p, r) = Wedge(ux, uy, qx, qy)
      /\ WedgeOf(p, q, p, r) = Wedge(px, py, qx, qy)
  BY DEF WedgeOf
<1>6. WedgeOf(p, q, p, r) = Cross(p, q, r)
  BY CrossSum
<1> HIDE DEF ux, uy, px, py, qx, qy
<1>7. Wedge(px, py, qx, qy) = 0
  BY <1>2, <1>3, <1>4, <1>5, Parallel
<1>8. QED
  BY <1>5, <1>6, <1>7

(* With all on one line there is nothing to enclose.                       *)
LEMMA LineEnclosesNothing ==
  ASSUME NEW seen, seen \subseteq Plane, NEW a \in Plane, NEW b \in Plane, a # b,
         \A q \in seen : Cross(a, b, q) = 0
  PROVE  ~Encloses(seen)
BY Collinear DEF Encloses

LEMMA PointEnclosesNothing ==
  ASSUME NEW seen, seen \subseteq Plane, NEW p, seen = {p}
  PROVE  ~Encloses(seen)
BY CrossSum DEF Encloses

(* Two vectors that point forwards cannot cancel out.                      *)
LEMMA NoCancel ==
  ASSUME NEW ux \in Int, NEW uy \in Int, NEW wx \in Int, NEW wy \in Int,
         Half(ux, uy), ux # 0 \/ uy # 0, Half(wx, wy), wx # 0 \/ wy # 0,
         NEW a \in Nat, NEW b \in Nat, a * wx + b * ux = 0, a * wy + b * uy = 0
  PROVE  a = 0
<1> SUFFICES ASSUME a > 0 PROVE FALSE
  OBVIOUS
<1>1. CASE wx > 0
  <2>1. a * wx > 0
    BY <1>1
  <2>2. ux >= 0
    BY DEF Half
  <2>3. b * ux >= 0
    BY <2>2
  <2> DEFINE p == a * wx
             q == b * ux
  <2>4. p \in Int /\ q \in Int /\ p > 0 /\ q >= 0 /\ p + q = 0
    BY <2>1, <2>3
  <2> HIDE DEF p, q
  <2>5. QED
    BY <2>4
<1>2. CASE wx = 0 /\ wy > 0
  <2>1. a * wx = 0 /\ a * wy > 0 /\ b * ux \in Int /\ b * uy \in Int
    BY <1>2
  <2>2. b * ux = 0
    BY <2>1
  <2>3. CASE ux = 0 /\ uy > 0
    <3>1. b * uy >= 0
      BY <2>3
    <3> DEFINE p == a * wy
               q == b * uy
    <3>2. p \in Int /\ q \in Int /\ p > 0 /\ q >= 0 /\ p + q = 0
      BY <2>1, <3>1
    <3> HIDE DEF p, q
    <3>3. QED
      BY <3>2
  <2>4. CASE ux > 0
    <3>1. b = 0
      BY <2>2, <2>4
    <3>2. b * uy = 0
      BY <3>1
    <3>3. a * wy = 0
      BY <2>1, <3>2
    <3>4. QED
      BY <2>1, <3>3
  <2>5. QED
    BY <2>3, <2>4 DEF Half
<1>3. QED
  BY <1>1, <1>2 DEF Half

(* Where a chain goes straight back, all that lies to its left is on it.   *)
LEMMA NoTurnBack ==
  ASSUME NEW way \in Ways, NEW back \in Ways, way + back = 0,
         NEW a \in Plane, NEW b \in Plane, NEW c \in Plane, NEW q \in Plane,
         Ahead(way, a, b), a # b, Ahead(back, b, c), b # c, Cross(a, b, c) = 0,
         Cross(a, b, q) >= 0, Cross(b, c, q) >= 0
  PROVE  Cross(a, b, q) = 0
<1> DEFINE ux == way * (b.x - a.x)
           uy == way * (b.y - a.y)
           wx == way * (b.x - c.x)
           wy == way * (b.y - c.y)
           zx == way * (q.x - b.x)
           zy == way * (q.y - b.y)
           m == Wedge(ux, uy, zx, zy)
           n == Wedge(zx, zy, wx, wy)
           k == Wedge(ux, uy, wx, wy)
<1>1. /\ ux \in Int /\ uy \in Int /\ wx \in Int /\ wy \in Int /\ zx \in Int /\ zy \in Int
      /\ Half(ux, uy)
  BY VectorType DEF Ahead
<1>2. Half(wx, wy)
  <2>1. /\ b.x \in Int /\ b.y \in Int /\ c.x \in Int /\ c.y \in Int /\ way \in Int
    BY DEF Plane, Ways
  <2>2. back * (c.x - b.x) = wx /\ back * (c.y - b.y) = wy
    <3>1. (way = 1 /\ back = -1) \/ (way = -1 /\ back = 1)
      BY DEF Ways
    <3>2. CASE way = 1 /\ back = -1
      BY <2>1, <3>2
    <3>3. CASE way = -1 /\ back = 1
      BY <2>1, <3>3
    <3>4. QED
      BY <3>1, <3>2, <3>3
  <2>3. QED
    BY <2>2 DEF Ahead
<1>3. (ux # 0 \/ uy # 0) /\ (wx # 0 \/ wy # 0)
  BY SamePoint
<1>4. WedgeOf(a, b, b, q) = m /\ WedgeOf(b, q, c, b) = n /\ WedgeOf(a, b, c, b) = k
  BY CrossIs
<1>5. /\ WedgeOf(a, b, b, q) = Cross(a, b, q)
      /\ WedgeOf(b, q, c, b) = Cross(b, c, q)
      /\ WedgeOf(a, b, c, b) = -Cross(a, b, c)
  <2>1. /\ a.x \in Int /\ a.y \in Int /\ b.x \in Int /\ b.y \in Int
        /\ c.x \in Int /\ c.y \in Int /\ q.x \in Int /\ q.y \in Int
    BY DEF Plane
  <2>2. QED
    BY <2>1 DEF WedgeOf, Wedge, Cross
<1>6. m = Cross(a, b, q) /\ n = Cross(b, c, q) /\ k = 0
  BY <1>4, <1>5
<1>7. m \in Nat /\ n \in Nat
  BY <1>6, CrossType
<1> HIDE DEF ux, uy, wx, wy, zx, zy
<1>8. m * wx + n * ux = k * zx /\ m * wy + n * uy = k * zy
  BY <1>1 DEF Wedge
<1> HIDE DEF m, n, k
<1>9. m * wx + n * ux = 0 /\ m * wy + n * uy = 0
  BY <1>1, <1>6, <1>8
<1>10. m = 0
  BY <1>1, <1>2, <1>3, <1>7, <1>9, NoCancel
<1>11. QED
  BY <1>6, <1>10

-----------------------------------------------------------------------------
(* The polygon *)

EdgesOf(round) == {<<round[i], round[i + 1]>> : i \in 1 .. Len(round) - 1}

LEMMA RoundPoints ==
  ASSUME NEW round, NEW turn, NEW seen, IsRound(round, turn, seen)
  PROVE  /\ Len(round) \in Nat /\ turn \in Nat /\ 2 <= turn /\ turn < Len(round)
         /\ \A i \in 1 .. Len(round) : round[i] \in Plane /\ round[i] \in seen
BY DEF IsRound

(* StabilityMargin closes the hull where ConvexHull opened it.             *)
LEMMA EdgesAre ==
  ASSUME NEW round, NEW turn, NEW seen, IsRound(round, turn, seen)
  PROVE  /\ Len(Front(round)) = Len(round) - 1
         /\ Edges(Front(round)) = EdgesOf(round)
<1> DEFINE n == Len(round) - 1
           hull == Front(round)
<1>1. n \in Nat /\ n >= 2 /\ Len(round) = n + 1
  BY RoundPoints
<1>2. \A i \in 1 .. n + 1 : round[i] \in Plane
  BY <1>1, RoundPoints
<1>3. hull = SubSeq(round, 1, n)
  BY DEF Front
<1>4. round[n + 1] = round[1]
  BY <1>1 DEF IsRound
<1>5. EdgesOf(round) = {<<round[i], round[i + 1]>> : i \in 1 .. n}
  BY DEF EdgesOf
<1> HIDE DEF n, hull
<1>6. Len(hull) = n /\ \A i \in 1 .. n : hull[i] = round[i]
  <2>1. 1 \in Int /\ n \in Int /\ \A i \in 1 .. n : round[i] \in Plane
    BY <1>1, <1>2
  <2>2. /\ Len(SubSeq(round, 1, n)) = IF 1 <= n THEN n - 1 + 1 ELSE 0
        /\ \A i \in 1 .. n - 1 + 1 : SubSeq(round, 1, n)[i] = round[1 + i - 1]
    BY <2>1, SubSeqProperties
  <2>3. n - 1 + 1 = n /\ 1 <= n /\ \A i \in 1 .. n : 1 + i - 1 = i
    BY <1>1
  <2>4. QED
    BY <1>3, <2>2, <2>3
<1>7. \A i \in 1 .. n : hull[i] = round[i] /\ hull[(i % n) + 1] = round[i + 1]
  <2>1. ASSUME NEW i \in 1 .. n PROVE (i % n) + 1 = IF i < n THEN i + 1 ELSE 1
    <3>1. n > 0
      BY <1>1
    <3>2. QED
      BY <1>1, <3>1
  <2>2. 1 \in 1 .. n
    BY <1>1
  <2>3. ASSUME NEW i \in 1 .. n PROVE hull[(i % n) + 1] = round[i + 1]
    <3>1. CASE i < n
      <4>1. i + 1 \in 1 .. n
        BY <1>1, <3>1
      <4>2. QED
        BY <1>6, <2>1, <3>1, <4>1
    <3>2. CASE ~(i < n)
      <4>1. i = n
        BY <1>1, <3>2
      <4>2. QED
        BY <1>4, <1>6, <2>1, <2>2, <3>2, <4>1
    <3>3. QED
      BY <3>1, <3>2
  <2>4. QED
    BY <1>6, <2>3
<1>8. Edges(hull) = {<<hull[i], hull[(i % n) + 1]>> : i \in 1 .. n}
  BY <1>6 DEF Edges
<1>9. Edges(hull) = EdgesOf(round)
  BY <1>5, <1>7, <1>8
<1>10. QED
  BY <1>6, <1>9 DEF hull, n

(* A hull of two points at most encloses nothing.                          *)
LEMMA NarrowRound ==
  ASSUME NEW round, NEW turn, NEW seen, IsRound(round, turn, seen), Encloses(seen)
  PROVE  /\ Len(round) >= 4
         /\ \A i \in 1 .. Len(round) - 1 : round[i] # round[i + 1]
<1>1. \A i \in 1 .. Len(round) - 1 : round[i] # round[i + 1]
  BY PointEnclosesNothing DEF IsRound
<1>2. CASE Len(round) = 3
  <2> DEFINE a == round[1]
             b == round[2]
  <2>1. 1 \in 1 .. Len(round) - 1 /\ 2 \in 1 .. Len(round) - 1 /\ 1 + 1 = 2 /\ 2 + 1 = 3
        /\ 1 \in 1 .. Len(round) /\ 2 \in 1 .. Len(round)
    BY <1>2
  <2>2. a \in Plane /\ b \in Plane
    BY <2>1, RoundPoints
  <2>3. a # b
    BY <1>1, <2>1
  <2>4. round[3] = a
    BY <1>2 DEF IsRound
  <2>5. \A q \in seen : Cross(a, b, q) >= 0 /\ Cross(b, a, q) >= 0
    <3>1. \A i \in 1 .. Len(round) - 1 : \A q \in seen : Cross(round[i], round[i + 1], q) >= 0
      BY DEF IsRound
    <3>2. QED
      BY <2>1, <2>4, <3>1
  <2> HIDE DEF a, b
  <2>6. seen \subseteq Plane
    BY DEF IsRound
  <2>7. \A q \in seen : Cross(a, b, q) = 0
    <3>1. \A q \in seen : Cross(b, a, q) = -Cross(a, b, q) /\ Cross(a, b, q) \in Int
      BY <2>2, <2>6, CrossSum, CrossType
    <3>2. QED
      BY <2>5, <3>1
  <2>8. QED
    BY <2>2, <2>3, <2>6, <2>7, LineEnclosesNothing
<1>3. Len(round) >= 3
  BY RoundPoints
<1>4. Len(round) \in Nat
  BY RoundPoints
<1>5. Len(round) >= 4
  BY <1>2, <1>3, <1>4
<1>6. QED
  BY <1>1, <1>5

LEMMA WideRound ==
  ASSUME NEW round, NEW turn, NEW seen, IsRound(round, turn, seen), Len(round) >= 4
  PROVE  Encloses(seen)
<1>1. \A i \in 2 .. Len(round) - 1 :
        i # turn => Cross(round[i - 1], round[i], round[i + 1]) > 0
  BY DEF IsRound
<1>2. PICK i \in 2 .. Len(round) - 1 : i # turn
  <2>1. 2 \in 2 .. Len(round) - 1 /\ 3 \in 2 .. Len(round) - 1
    BY RoundPoints
  <2>2. QED
    BY <2>1
<1>3. i - 1 \in 1 .. Len(round) /\ i \in 1 .. Len(round) /\ i + 1 \in 1 .. Len(round)
  BY RoundPoints
<1>4. round[i - 1] \in seen /\ round[i] \in seen /\ round[i + 1] \in seen
  BY <1>3, RoundPoints
<1>5. Cross(round[i - 1], round[i], round[i + 1]) # 0
  BY <1>1, <1>2
<1>6. QED
  BY <1>4, <1>5 DEF Encloses

(* Edges that go round, each with all points on its left.                  *)
Polygon(edges, seen) ==
  /\ seen \subseteq Plane
  /\ edges \subseteq seen \X seen
  /\ \A e \in edges :
       /\ e[1] # e[2]
       /\ \A q \in seen : Cross(e[1], e[2], q) >= 0
       /\ \E f \in edges : f[1] = e[2] /\ Cross(e[1], e[2], f[2]) > 0
       /\ \E f \in edges : f[2] = e[1] /\ Cross(f[1], f[2], e[2]) > 0

(* Where the chains meet, the polygon turns left as it does elsewhere.     *)
LEMMA Corner ==
  ASSUME NEW seen, seen \subseteq Plane, Encloses(seen),
         NEW way \in Ways, NEW back \in Ways, way + back = 0,
         NEW a \in Plane, NEW b \in Plane, NEW c \in seen,
         Ahead(way, a, b), a # b, Ahead(back, b, c), b # c,
         \A q \in seen : Cross(a, b, q) >= 0 /\ Cross(b, c, q) >= 0
  PROVE  Cross(a, b, c) > 0
<1>1. c \in Plane /\ Cross(a, b, c) \in Int /\ Cross(a, b, c) >= 0
  BY CrossType
<1>2. CASE Cross(a, b, c) = 0
  <2>1. \A q \in seen : Cross(a, b, q) = 0
    <3> SUFFICES ASSUME NEW q \in seen PROVE Cross(a, b, q) = 0
      OBVIOUS
    <3>1. q \in Plane /\ Cross(a, b, q) >= 0 /\ Cross(b, c, q) >= 0
      OBVIOUS
    <3>2. QED
      BY <1>1, <1>2, <3>1, NoTurnBack
  <2>2. QED
    BY <2>1, LineEnclosesNothing
<1>3. QED
  BY <1>1, <1>2

LEMMA RoundIsPolygon ==
  ASSUME NEW round, NEW turn, NEW seen, IsRound(round, turn, seen), Encloses(seen)
  PROVE  Polygon(EdgesOf(round), seen)
<1> DEFINE n == Len(round) - 1
           edges == EdgesOf(round)
<1>1. n \in Nat /\ n >= 3 /\ Len(round) = n + 1 /\ turn \in 2 .. n /\ seen \subseteq Plane
  BY RoundPoints, NarrowRound DEF IsRound
<1>2. \A i \in 1 .. n + 1 : round[i] \in Plane /\ round[i] \in seen
  BY <1>1, RoundPoints
<1>3. round[n + 1] = round[1]
  BY <1>1 DEF IsRound
<1>4. \A i \in 1 .. n : round[i] # round[i + 1]
  BY NarrowRound
<1>5. \A i \in 1 .. n :
        /\ Ahead(IF i < turn THEN 1 ELSE -1, round[i], round[i + 1])
        /\ \A q \in seen : Cross(round[i], round[i + 1], q) >= 0
  BY DEF IsRound
<1>6. \A i \in 2 .. n : i # turn => Cross(round[i - 1], round[i], round[i + 1]) > 0
  BY DEF IsRound
<1>7. edges = {<<round[i], round[i + 1]>> : i \in 1 .. n}
  BY DEF EdgesOf
<1> HIDE DEF n, edges
<1>8. \A i \in 2 .. n : Cross(round[i - 1], round[i], round[i + 1]) > 0
  <2> SUFFICES Cross(round[turn - 1], round[turn], round[turn + 1]) > 0
    BY <1>6
  <2> DEFINE a == round[turn - 1]
             b == round[turn]
             c == round[turn + 1]
             way == 1
             back == -1
  <2>1. /\ turn - 1 \in 1 .. n /\ turn \in 1 .. n /\ turn - 1 < turn /\ ~(turn < turn)
        /\ (turn - 1) + 1 = turn
        /\ turn - 1 \in 1 .. n + 1 /\ turn \in 1 .. n + 1 /\ turn + 1 \in 1 .. n + 1
    BY <1>1
  <2>2. a \in Plane /\ b \in Plane /\ c \in seen
    BY <1>2, <2>1
  <2>3. /\ Ahead(way, a, b) /\ Ahead(back, b, c) /\ a # b /\ b # c
        /\ \A q \in seen : Cross(a, b, q) >= 0 /\ Cross(b, c, q) >= 0
    BY <1>4, <1>5, <2>1
  <2>4. way \in Ways /\ back \in Ways /\ way + back = 0
    BY DEF Ways
  <2> HIDE DEF a, b, c, way, back
  <2>5. Cross(a, b, c) > 0
    BY <1>1, <2>2, <2>3, <2>4, Corner
  <2>6. QED
    BY <2>5 DEF a, b, c
<1>9. Cross(round[n], round[1], round[2]) > 0
  <2> DEFINE a == round[n]
             b == round[1]
             c == round[2]
             way == -1
             back == 1
  <2>1. /\ n \in 1 .. n /\ 1 \in 1 .. n /\ ~(n < turn) /\ 1 < turn /\ 1 + 1 = 2
        /\ n \in 1 .. n + 1 /\ 1 \in 1 .. n + 1 /\ 2 \in 1 .. n + 1
    BY <1>1
  <2>2. a \in Plane /\ b \in Plane /\ c \in seen
    BY <1>2, <2>1
  <2>3. /\ Ahead(way, a, b) /\ Ahead(back, b, c) /\ a # b /\ b # c
        /\ \A q \in seen : Cross(a, b, q) >= 0 /\ Cross(b, c, q) >= 0
    BY <1>3, <1>4, <1>5, <2>1
  <2>4. way \in Ways /\ back \in Ways /\ way + back = 0
    BY DEF Ways
  <2> HIDE DEF a, b, c, way, back
  <2>5. Cross(a, b, c) > 0
    BY <1>1, <2>2, <2>3, <2>4, Corner
  <2>6. QED
    BY <2>5 DEF a, b, c
<1>10. edges \subseteq seen \X seen
  <2>1. \A i \in 1 .. n : i \in 1 .. n + 1 /\ i + 1 \in 1 .. n + 1
    BY <1>1
  <2>2. QED
    BY <1>2, <1>7, <2>1
<1>11. ASSUME NEW e \in edges
       PROVE  /\ e[1] # e[2]
              /\ \A q \in seen : Cross(e[1], e[2], q) >= 0
              /\ \E f \in edges : f[1] = e[2] /\ Cross(e[1], e[2], f[2]) > 0
              /\ \E f \in edges : f[2] = e[1] /\ Cross(f[1], f[2], e[2]) > 0
  <2>1. PICK i \in 1 .. n : e = <<round[i], round[i + 1]>>
    BY <1>7
  <2>2. e[1] = round[i] /\ e[2] = round[i + 1]
    BY <2>1
  <2>3. e[1] # e[2] /\ \A q \in seen : Cross(e[1], e[2], q) >= 0
    BY <1>4, <1>5, <2>2
  <2> DEFINE to == [j \in 1 .. n |-> <<round[j], round[j + 1]>>]
  <2>4. \A j \in 1 .. n : to[j] \in edges /\ to[j][1] = round[j] /\ to[j][2] = round[j + 1]
    BY <1>7
  <2> HIDE DEF to
  <2>5. \E f \in edges : f[1] = e[2] /\ Cross(e[1], e[2], f[2]) > 0
    <3>1. CASE i < n
      <4>1. i + 1 \in 1 .. n /\ i + 1 \in 2 .. n /\ (i + 1) - 1 = i
        BY <1>1, <3>1
      <4>2. Cross(round[i], round[i + 1], round[(i + 1) + 1]) > 0
        BY <1>8, <4>1
      <4>3. to[i + 1] \in edges /\ to[i + 1][1] = round[i + 1]
            /\ to[i + 1][2] = round[(i + 1) + 1]
        BY <2>4, <4>1
      <4>4. QED
        BY <2>2, <4>2, <4>3
    <3>2. CASE i = n
      <4>1. 1 \in 1 .. n /\ 1 + 1 = 2
        BY <1>1
      <4>2. to[1] \in edges /\ to[1][1] = round[1] /\ to[1][2] = round[2]
        BY <2>4, <4>1
      <4>3. e[1] = round[n] /\ e[2] = round[1]
        BY <1>3, <2>2, <3>2
      <4>4. QED
        BY <1>9, <4>2, <4>3
    <3>3. QED
      BY <1>1, <3>1, <3>2
  <2>6. \E f \in edges : f[2] = e[1] /\ Cross(f[1], f[2], e[2]) > 0
    <3>1. CASE i > 1
      <4>1. i - 1 \in 1 .. n /\ i \in 2 .. n /\ (i - 1) + 1 = i
        BY <1>1, <3>1
      <4>2. Cross(round[i - 1], round[i], round[i + 1]) > 0
        BY <1>8, <4>1
      <4>3. to[i - 1] \in edges /\ to[i - 1][1] = round[i - 1] /\ to[i - 1][2] = round[i]
        BY <2>4, <4>1
      <4>4. QED
        BY <2>2, <4>2, <4>3
    <3>2. CASE i = 1
      <4>1. n \in 1 .. n
        BY <1>1
      <4>2. to[n] \in edges /\ to[n][1] = round[n] /\ to[n][2] = round[1]
        BY <1>3, <2>4, <4>1
      <4>3. e[1] = round[1] /\ e[2] = round[2]
        BY <2>2, <3>2
      <4>4. QED
        BY <1>9, <4>2, <4>3
    <3>3. QED
      BY <1>1, <3>1, <3>2
  <2>7. QED
    BY <2>3, <2>5, <2>6
<1>12. QED
  BY <1>1, <1>10, <1>11 DEF Polygon, edges

-----------------------------------------------------------------------------
(* Squares *)

Norm(x, y) == x * x + y * y

Dot(ux, uy, vx, vy) == ux * vx + uy * vy

LEMMA SquareType ==
  ASSUME NEW n \in Int
  PROVE  n * n \in Nat /\ (n # 0 => n * n > 0)
<1>1. CASE n >= 0
  BY <1>1
<1>2. CASE n < 0
  <2>1. (-n) * (-n) > 0
    BY <1>2
  <2>2. (-n) * (-n) = n * n
    OBVIOUS
  <2>3. n * n \in Int
    OBVIOUS
  <2>4. QED
    BY <2>1, <2>2, <2>3
<1>3. QED
  BY <1>1, <1>2

LEMMA NormType ==
  ASSUME NEW x \in Int, NEW y \in Int
  PROVE  Norm(x, y) \in Nat /\ (x # 0 \/ y # 0 => Norm(x, y) > 0)
<1> DEFINE p == x * x
           q == y * y
<1>1. p \in Nat /\ q \in Nat /\ (x # 0 => p > 0) /\ (y # 0 => q > 0)
  BY SquareType
<1> HIDE DEF p, q
<1>2. p + q \in Nat /\ (x # 0 \/ y # 0 => p + q > 0)
  BY <1>1
<1>3. QED
  BY <1>2 DEF Norm, p, q

LEMMA ProductMono ==
  ASSUME NEW a \in Nat, NEW b \in Nat, NEW c \in Nat, NEW d \in Nat, a <= c, b <= d
  PROVE  a * b <= c * d
<1>1. a * b <= a * d
  OBVIOUS
<1>2. a * d <= c * d
  OBVIOUS
<1>3. a * b \in Int /\ a * d \in Int /\ c * d \in Int
  OBVIOUS
<1>4. QED
  BY <1>1, <1>2, <1>3

LEMMA RootMono ==
  ASSUME NEW a \in Int, NEW b \in Nat, a * a <= b * b
  PROVE  a <= b
<1> SUFFICES ASSUME a > b PROVE FALSE
  OBVIOUS
<1>1. a * a > b * b
  <2>1. a * a > a * b \/ b = 0
    OBVIOUS
  <2>2. a * b >= b * b
    OBVIOUS
  <2>3. a * a > 0
    OBVIOUS
  <2>4. QED
    BY <2>1, <2>2, <2>3
<1>2. a * a \in Int /\ b * b \in Int
  OBVIOUS
<1>3. QED
  BY <1>1, <1>2

LEMMA CancelFactor ==
  ASSUME NEW c \in Int, c > 0, NEW a \in Int, NEW b \in Int, c * a <= c * b
  PROVE  a <= b
<1> SUFFICES ASSUME a > b PROVE FALSE
  OBVIOUS
<1>1. c * (a - b) > 0
  OBVIOUS
<1>2. c * (a - b) = c * a - c * b
  OBVIOUS
<1>3. c * a \in Int /\ c * b \in Int
  OBVIOUS
<1>4. QED
  BY <1>1, <1>2, <1>3

LEMMA Lagrange ==
  ASSUME NEW ux \in Int, NEW uy \in Int, NEW vx \in Int, NEW vy \in Int
  PROVE  /\ Norm(ux, uy) * Norm(vx, vy)
              = Square(Wedge(ux, uy, vx, vy)) + Square(Dot(ux, uy, vx, vy))
         /\ Square(Dot(ux, uy, vx, vy)) <= Norm(ux, uy) * Norm(vx, vy)
         /\ Square(Wedge(ux, uy, vx, vy)) <= Norm(ux, uy) * Norm(vx, vy)
<1>1. Norm(ux, uy) * Norm(vx, vy)
        = Square(Wedge(ux, uy, vx, vy)) + Square(Dot(ux, uy, vx, vy))
  BY DEF Norm, Square, Wedge, Dot
<1> DEFINE w == Wedge(ux, uy, vx, vy)
           d == Dot(ux, uy, vx, vy)
<1>2. w \in Int /\ d \in Int
  BY DEF Wedge, Dot
<1> HIDE DEF w, d
<1>3. Square(w) \in Nat /\ Square(d) \in Nat
  BY <1>2, SquareType DEF Square
<1>4. QED
  BY <1>1, <1>3 DEF w, d

(* The product of two distances that are at least those of the margin.     *)
LEMMA MixedTerm ==
  ASSUME NEW ux \in Int, NEW uy \in Int, NEW vx \in Int, NEW vy \in Int,
         NEW p \in Nat, NEW q \in Nat, NEW m \in Nat, NEW d \in Nat,
         m * Norm(ux, uy) <= p * p * d, m * Norm(vx, vy) <= q * q * d
  PROVE  m * Dot(ux, uy, vx, vy) <= p * q * d
<1> DEFINE U == Norm(ux, uy)
           V == Norm(vx, vy)
           k == Dot(ux, uy, vx, vy)
           a == p * p * d
           b == q * q * d
           r == p * q * d
<1>1. U \in Nat /\ V \in Nat /\ k \in Int /\ Square(k) <= U * V
  BY NormType, Lagrange DEF Dot
<1>2. a \in Nat /\ b \in Nat /\ r \in Nat
  OBVIOUS
<1>3. a * b = r * r
  OBVIOUS
<1> HIDE DEF U, V, k, a, b, r
<1>4. m * U \in Nat /\ m * V \in Nat
  BY <1>1
<1>5. (m * U) * (m * V) <= a * b
  <2>1. m * U <= a /\ m * V <= b
    BY DEF U, V, a, b
  <2> DEFINE x == m * U
             y == m * V
  <2>2. x \in Nat /\ y \in Nat /\ x <= a /\ y <= b
    BY <1>4, <2>1
  <2> HIDE DEF x, y
  <2>3. x * y <= a * b
    BY <1>2, <2>2, ProductMono
  <2>4. QED
    BY <2>3 DEF x, y
<1>6. (m * k) * (m * k) <= (m * U) * (m * V)
  <2> DEFINE n == m * m
             s == k * k
             t == U * V
  <2>1. n \in Nat /\ s \in Nat /\ t \in Nat /\ s <= t
    BY <1>1, SquareType DEF Square
  <2>2. (m * k) * (m * k) = n * s /\ (m * U) * (m * V) = n * t
    BY <1>1
  <2> HIDE DEF n, s, t
  <2>3. n * s <= n * t
    BY <2>1, ProductMono
  <2>4. QED
    BY <2>2, <2>3
<1>7. (m * k) * (m * k) <= r * r
  <2>1. (m * k) * (m * k) \in Int /\ (m * U) * (m * V) \in Int /\ r * r \in Int
    BY <1>1, <1>2
  <2>2. QED
    BY <1>3, <1>5, <1>6, <2>1
<1>8. m * k <= r
  <2> DEFINE x == m * k
  <2>1. x \in Int /\ x * x <= r * r
    BY <1>1, <1>7
  <2> HIDE DEF x
  <2>2. x <= r
    BY <1>2, <2>1, RootMono
  <2>3. QED
    BY <2>2 DEF x
<1>9. QED
  BY <1>8 DEF k, r

(* A line beyond a corner: e is between the directions u and v of the      *)
(* sides of the corner, 1 / c times l u + k v.                             *)
IsBeyond(ux, uy, vx, vy, ex, ey, c, l, k, p, q, y, m, d) ==
  /\ ux \in Int /\ uy \in Int /\ vx \in Int /\ vy \in Int /\ ex \in Int /\ ey \in Int
  /\ c \in Nat /\ c > 0 /\ l \in Nat /\ k \in Nat
  /\ c * ex = l * ux + k * vx /\ c * ey = l * uy + k * vy
  /\ p \in Nat /\ q \in Nat /\ y \in Int /\ c * y >= l * p + k * q
  /\ m \in Nat /\ d \in Nat /\ d > 0
  /\ m * Norm(ux, uy) <= p * p * d /\ m * Norm(vx, vy) <= q * q * d

(* It is no nearer than the sides.                                         *)
LEMMA BeyondCorner ==
  ASSUME NEW ux, NEW uy, NEW vx, NEW vy, NEW ex, NEW ey, NEW c, NEW l, NEW k,
         NEW p, NEW q, NEW y, NEW m, NEW d,
         IsBeyond(ux, uy, vx, vy, ex, ey, c, l, k, p, q, y, m, d)
  PROVE  y >= 0 /\ m * Norm(ex, ey) <= y * y * d
<1>0. /\ ux \in Int /\ uy \in Int /\ vx \in Int /\ vy \in Int /\ ex \in Int /\ ey \in Int
      /\ c \in Nat /\ c > 0 /\ l \in Nat /\ k \in Nat
      /\ c * ex = l * ux + k * vx /\ c * ey = l * uy + k * vy
      /\ p \in Nat /\ q \in Nat /\ y \in Int /\ c * y >= l * p + k * q
      /\ m \in Nat /\ d \in Nat /\ d > 0
      /\ m * Norm(ux, uy) <= p * p * d /\ m * Norm(vx, vy) <= q * q * d
  BY DEF IsBeyond
<1> USE <1>0
<1> DEFINE U == Norm(ux, uy)
           V == Norm(vx, vy)
           E == Norm(ex, ey)
           h == Dot(ux, uy, vx, vy)
           r == l * p + k * q
           a == p * p * d
           b == q * q * d
           f == p * q * d
           ll == l * l
           kk == k * k
           lk == l * k
           cc == c * c
<1>1. U \in Nat /\ V \in Nat /\ E \in Nat /\ h \in Int
  <2>1. U \in Nat /\ V \in Nat /\ E \in Nat
    BY NormType
  <2>2. h \in Int
    BY DEF Dot
  <2>3. QED
    BY <2>1, <2>2
<1>2. a \in Nat /\ b \in Nat /\ f \in Nat /\ r \in Nat /\ ll \in Nat /\ kk \in Nat /\ lk \in Nat
  OBVIOUS
<1>3. cc \in Nat /\ cc > 0
  BY SquareType
<1>4. m * h <= f
  BY MixedTerm
<1>5. r * r * d = ll * a + 2 * lk * f + kk * b
  OBVIOUS
<1>6. cc * E = ll * U + 2 * lk * h + kk * V
  <2>1. cc * E = (c * ex) * (c * ex) + (c * ey) * (c * ey)
    BY DEF Norm
  <2>2. cc * E = (l * ux + k * vx) * (l * ux + k * vx) + (l * uy + k * vy) * (l * uy + k * vy)
    BY <2>1
  <2>3. (l * ux + k * vx) * (l * ux + k * vx) + (l * uy + k * vy) * (l * uy + k * vy)
          = ll * U + 2 * lk * h + kk * V
    BY DEF Norm, Dot
  <2>4. QED
    BY <2>2, <2>3
<1>7. y >= 0 /\ r * r <= cc * (y * y)
  <2>1. y >= 0
    <3>1. CASE y < 0
      <4>1. c * y < 0
        BY <3>1
      <4>2. c * y \in Int
        OBVIOUS
      <4>3. r \in Nat /\ c * y >= r
        BY <1>2
      <4> HIDE DEF r
      <4>4. QED
        BY <4>1, <4>2, <4>3
    <3>2. QED
      BY <3>1
  <2> DEFINE z == c * y
  <2>2. z \in Nat /\ r <= z
    BY <2>1
  <2>3. z * z = cc * (y * y)
    OBVIOUS
  <2> HIDE DEF z, r
  <2>4. r * r <= z * z
    BY <1>2, <2>2, ProductMono
  <2>5. QED
    BY <2>1, <2>3, <2>4
<1>8. m * U <= a /\ m * V <= b
  OBVIOUS
<1> HIDE DEF U, V, E, h, r, a, b, f, ll, kk, lk, cc
<1>9. m * (cc * E) <= r * r * d
  <2>1. m * (cc * E) = ll * (m * U) + 2 * lk * (m * h) + kk * (m * V)
    BY <1>1, <1>2, <1>6
  <2> DEFINE mu == m * U
             mv == m * V
             mh == m * h
  <2>2. mu \in Int /\ mv \in Int /\ mh \in Int /\ mu <= a /\ mv <= b /\ mh <= f
    BY <1>1, <1>4, <1>8
  <2>3. m * (cc * E) = ll * mu + 2 * lk * mh + kk * mv
    BY <2>1
  <2> HIDE DEF mu, mv, mh
  <2>4. ll * mu <= ll * a /\ kk * mv <= kk * b /\ 2 * lk * mh <= 2 * lk * f
    <3>1. ASSUME NEW n \in Nat, NEW i \in Int, NEW j \in Int, i <= j PROVE n * i <= n * j
      BY <3>1
    <3>2. ll * mu <= ll * a /\ kk * mv <= kk * b
      BY <1>2, <2>2, <3>1
    <3>3. lk * mh <= lk * f
      BY <1>2, <2>2, <3>1
    <3>4. 2 * lk * mh = 2 * (lk * mh) /\ 2 * lk * f = 2 * (lk * f)
      BY <1>2, <2>2
    <3>5. lk * mh \in Int /\ lk * f \in Int
      BY <1>2, <2>2
    <3>6. QED
      BY <3>2, <3>3, <3>4, <3>5
  <2> DEFINE x1 == ll * mu
             x2 == 2 * lk * mh
             x3 == kk * mv
             y1 == ll * a
             y2 == 2 * lk * f
             y3 == kk * b
  <2>5. /\ x1 \in Int /\ x2 \in Int /\ x3 \in Int /\ y1 \in Int /\ y2 \in Int /\ y3 \in Int
        /\ x1 <= y1 /\ x2 <= y2 /\ x3 <= y3
    BY <1>2, <2>2, <2>4
  <2>6. m * (cc * E) = x1 + x2 + x3 /\ r * r * d = y1 + y2 + y3
    BY <1>5, <2>3
  <2> HIDE DEF x1, x2, x3, y1, y2, y3
  <2>7. QED
    BY <2>5, <2>6
<1>10. r * r * d <= cc * (y * y * d)
  <2> DEFINE x == r * r
             z == cc * (y * y)
  <2>1. x \in Nat /\ z \in Nat /\ x <= z
    <3>1. y * y \in Nat
      BY SquareType
    <3>2. QED
      BY <1>2, <1>3, <1>7, <3>1
  <2>2. r * r * d = x * d /\ cc * (y * y * d) = z * d
    BY <1>2, <1>3
  <2> HIDE DEF x, z
  <2>3. x * d <= z * d
    BY <2>1, ProductMono
  <2>4. QED
    BY <2>2, <2>3
<1>11. cc * (m * E) <= cc * (y * y * d)
  <2>1. m * (cc * E) = cc * (m * E)
    BY <1>1, <1>3
  <2>2. cc * (m * E) \in Int /\ r * r * d \in Int /\ cc * (y * y * d) \in Int
    BY <1>1, <1>2, <1>3
  <2>3. QED
    BY <1>9, <1>10, <2>1, <2>2
<1>12. m * E <= y * y * d
  <2> DEFINE x == m * E
             z == y * y * d
  <2>1. x \in Int /\ z \in Int /\ cc * x <= cc * z
    BY <1>1, <1>11
  <2> HIDE DEF x, z
  <2>2. x <= z
    BY <1>3, <2>1, CancelFactor
  <2>3. QED
    BY <2>2 DEF x, z
<1>13. QED
  BY <1>7, <1>12 DEF E

-----------------------------------------------------------------------------
(* Lines around the polygon *)

(* The line a -- b has p on its left, sqrt(m / d) away from it or more.    *)
Clear(a, b, p, m, d) ==
  /\ Cross(a, b, p) >= 0
  /\ m * Dist2(a, b) <= Square(Cross(a, b, p)) * d

LEMMA Dist2Is ==
  ASSUME NEW a \in Plane, NEW b \in Plane
  PROVE  /\ Dist2(a, b) = Norm(b.x - a.x, b.y - a.y)
         /\ Dist2(a, b) \in Nat
         /\ a # b => Dist2(a, b) > 0
<1>1. a.x \in Int /\ a.y \in Int /\ b.x \in Int /\ b.y \in Int
  BY DEF Plane
<1>2. Dist2(a, b) = Norm(b.x - a.x, b.y - a.y)
  BY DEF Dist2, Norm, Square
<1>3. a # b => b.x - a.x # 0 \/ b.y - a.y # 0
  BY <1>1 DEF Plane
<1>4. b.x - a.x \in Int /\ b.y - a.y \in Int
  BY <1>1
<1>5. QED
  BY <1>2, <1>3, <1>4, NormType

(* A line that has the corner p -- v -- n on its left, v nearest.          *)
LEMMA CornerLine ==
  ASSUME NEW a \in Plane, NEW b \in Plane, NEW centre \in Plane,
         NEW p \in Plane, NEW v \in Plane, NEW n \in Plane,
         Cross(p, v, n) > 0, Cross(a, b, v) >= 0,
         Cross(a, b, v) <= Cross(a, b, p), Cross(a, b, v) <= Cross(a, b, n),
         NEW m \in Nat, NEW d \in Nat, d > 0,
         Clear(p, v, centre, m, d), Clear(v, n, centre, m, d)
  PROVE  Clear(a, b, centre, m, d)
<1> DEFINE ux == v.x - p.x
           uy == v.y - p.y
           vx == n.x - v.x
           vy == n.y - v.y
           ex == b.x - a.x
           ey == b.y - a.y
           wx == centre.x - v.x
           wy == centre.y - v.y
           c == Cross(p, v, n)
           l == Cross(a, b, n) - Cross(a, b, v)
           k == Cross(a, b, p) - Cross(a, b, v)
           s == Cross(p, v, centre)
           t == Cross(v, n, centre)
           y == Cross(a, b, centre)
           z == y - Cross(a, b, v)
<1>1. /\ a.x \in Int /\ a.y \in Int /\ b.x \in Int /\ b.y \in Int /\ centre.x \in Int /\ centre.y \in Int
      /\ p.x \in Int /\ p.y \in Int /\ v.x \in Int /\ v.y \in Int /\ n.x \in Int /\ n.y \in Int
  BY DEF Plane
<1>2. /\ ux \in Int /\ uy \in Int /\ vx \in Int /\ vy \in Int /\ ex \in Int /\ ey \in Int
      /\ wx \in Int /\ wy \in Int
  BY <1>1
<1>3. c = Wedge(ux, uy, vx, vy) /\ s = Wedge(ux, uy, wx, wy) /\ t = Wedge(vx, vy, wx, wy)
  BY <1>1 DEF Cross, Wedge
<1>4. l = Wedge(ex, ey, vx, vy) /\ k = Wedge(ux, uy, ex, ey) /\ z = Wedge(ex, ey, wx, wy)
  BY <1>1 DEF Cross, Wedge
<1>5. c \in Nat /\ c > 0 /\ l \in Nat /\ k \in Nat /\ y \in Int /\ s \in Nat /\ t \in Nat
  <2>1. /\ c \in Int /\ Cross(a, b, n) \in Int /\ Cross(a, b, v) \in Int
        /\ Cross(a, b, p) \in Int /\ y \in Int /\ s \in Int /\ t \in Int
    BY CrossType
  <2>2. s >= 0 /\ t >= 0
    BY DEF Clear
  <2>3. QED
    BY <2>1, <2>2
<1>6. z \in Int /\ z <= y
  BY CrossType
<1>7. /\ m * Norm(ux, uy) <= s * s * d
      /\ m * Norm(vx, vy) <= t * t * d
      /\ Dist2(a, b) = Norm(ex, ey)
  BY Dist2Is DEF Clear, Square
<1> HIDE DEF ux, uy, vx, vy, ex, ey, wx, wy, c, l, k, s, t, z
<1>8. c * ex = l * ux + k * vx /\ c * ey = l * uy + k * vy
  BY <1>2, <1>3, <1>4 DEF Wedge
<1>9. c * z = l * s + k * t
  BY <1>2, <1>3, <1>4 DEF Wedge
<1>10. c * y >= l * s + k * t
  <2> HIDE DEF y
  <2>1. c * z <= c * y
    BY <1>5, <1>6
  <2>2. c * z \in Int /\ c * y \in Int
    BY <1>5, <1>6
  <2>3. QED
    BY <1>9, <2>1, <2>2
<1> HIDE DEF y
<1>11. y >= 0 /\ m * Norm(ex, ey) <= y * y * d
  <2>1. IsBeyond(ux, uy, vx, vy, ex, ey, c, l, k, s, t, y, m, d)
    BY <1>2, <1>5, <1>7, <1>8, <1>10 DEF IsBeyond
  <2>2. QED
    BY <2>1, BeyondCorner
<1>12. QED
  BY <1>7, <1>11 DEF Clear, Square, y

(* If all edges of the polygon are clear of the centre of mass, all lines  *)
(* are that have the polygon on their left.                                *)
LEMMA SupportLine ==
  ASSUME NEW edges, NEW seen, Polygon(edges, seen), edges # {},
         NEW centre \in Plane, NEW m \in Nat, NEW d \in Nat, d > 0,
         \A e \in edges : Clear(e[1], e[2], centre, m, d),
         NEW a \in Plane, NEW b \in Plane, \A q \in seen : Cross(a, b, q) >= 0
  PROVE  Clear(a, b, centre, m, d)
<1>1. \A e \in edges : e[1] \in Plane /\ e[2] \in Plane /\ e[1] \in seen /\ e[2] \in seen
  BY DEF Polygon
<1> DEFINE heights == {Cross(a, b, e[1]) : e \in edges}
<1>2. heights \subseteq Nat /\ heights # {}
  <2>1. \A e \in edges : Cross(a, b, e[1]) \in Int /\ Cross(a, b, e[1]) >= 0
    BY <1>1, CrossType
  <2>2. QED
    BY <2>1
<1>3. PICK h \in heights : \A k \in heights : h <= k
  <2> HIDE DEF heights
  <2>1. QED
    BY <1>2, LeastNat
<1>4. PICK e \in edges : h = Cross(a, b, e[1])
  OBVIOUS
<1>5. PICK f \in edges : f[2] = e[1] /\ Cross(f[1], f[2], e[2]) > 0
  BY DEF Polygon
<1>6. PICK g \in edges : g[1] = e[2]
  BY DEF Polygon
<1> DEFINE p == f[1]
           v == e[1]
           n == e[2]
<1>7. p \in Plane /\ v \in Plane /\ n \in Plane /\ v \in seen
  BY <1>1
<1>8. Cross(p, v, n) > 0 /\ Cross(a, b, v) >= 0
  BY <1>5, <1>7
<1>9. Cross(a, b, v) <= Cross(a, b, p) /\ Cross(a, b, v) <= Cross(a, b, n)
  BY <1>3, <1>4, <1>6
<1>10. Clear(p, v, centre, m, d) /\ Clear(v, n, centre, m, d)
  BY <1>5
<1> HIDE DEF p, v, n
<1>11. QED
  BY <1>7, <1>8, <1>9, <1>10, CornerLine

-----------------------------------------------------------------------------
(* The nearest edge *)

Distances == [num : Int, den : Nat \ {0}]

LEMMA SignedSquareType ==
  ASSUME NEW n \in Int
  PROVE  /\ SignedSquare(n) \in Int
         /\ n < 0 => SignedSquare(n) < 0
         /\ n >= 0 => SignedSquare(n) = n * n
         /\ n > 0 => SignedSquare(n) > 0
<1>1. n * n \in Nat /\ (n # 0 => n * n > 0)
  BY SquareType
<1>2. QED
  BY <1>1 DEF SignedSquare, Square

LEMMA LessTrans ==
  ASSUME NEW c \in Distances, NEW d \in Distances, NEW e \in Distances,
         Less(c, d), Less(d, e)
  PROVE  Less(c, e)
<1> DEFINE x == SignedSquare(c.num)
           y == SignedSquare(d.num)
           z == SignedSquare(e.num)
           i == c.den
           j == d.den
           k == e.den
<1>1. x \in Int /\ y \in Int /\ z \in Int
  BY SignedSquareType DEF Distances
<1>2. i \in Nat /\ j \in Nat /\ k \in Nat /\ i > 0 /\ j > 0 /\ k > 0
  BY DEF Distances
<1>3. x * j < y * i /\ y * k < z * j
  BY DEF Less
<1> HIDE DEF x, y, z, i, j, k
<1>4. k * (x * j) < k * (y * i)
  <2> DEFINE p == x * j
             q == y * i
  <2>1. p \in Int /\ q \in Int /\ p < q
    BY <1>1, <1>2, <1>3
  <2> HIDE DEF p, q
  <2>2. k * p < k * q
    BY <1>2, <2>1
  <2>3. QED
    BY <2>2 DEF p, q
<1>5. i * (y * k) < i * (z * j)
  <2> DEFINE p == y * k
             q == z * j
  <2>1. p \in Int /\ q \in Int /\ p < q
    BY <1>1, <1>2, <1>3
  <2> HIDE DEF p, q
  <2>2. i * p < i * q
    BY <1>2, <2>1
  <2>3. QED
    BY <2>2 DEF p, q
<1>6. /\ k * (x * j) = j * (x * k) /\ k * (y * i) = i * (y * k) /\ i * (z * j) = j * (z * i)
      /\ k * (x * j) \in Int /\ k * (y * i) \in Int /\ i * (z * j) \in Int
  BY <1>1, <1>2
<1>7. j * (x * k) < j * (z * i)
  BY <1>4, <1>5, <1>6
<1>8. x * k < z * i
  <2> DEFINE p == x * k
             q == z * i
  <2>1. p \in Int /\ q \in Int /\ j * p < j * q
    BY <1>1, <1>2, <1>7
  <2> HIDE DEF p, q
  <2>2. ASSUME q <= p PROVE FALSE
    <3>1. j * q <= j * p
      BY <1>2, <2>1, <2>2
    <3>2. j * p \in Int /\ j * q \in Int
      BY <1>2, <2>1
    <3>3. QED
      BY <2>1, <3>1, <3>2
  <2>3. p < q
    BY <2>1, <2>2
  <2>4. QED
    BY <2>3 DEF p, q
<1>9. QED
  BY <1>8 DEF Less, x, z, i, k

LEMMA LessOfItself ==
  ASSUME NEW d \in Distances
  PROVE  ~Less(d, d) /\ Less(d, Unbounded) /\ ~Less(Unbounded, d)
<1>1. SignedSquare(d.num) \in Int /\ d.den \in Nat /\ d.den > 0
  BY SignedSquareType DEF Distances
<1>2. Unbounded.num = 1 /\ Unbounded.den = 0 /\ SignedSquare(1) = 1
  BY DEF Unbounded, SignedSquare, Square
<1> DEFINE s == SignedSquare(d.num)
           k == d.den
<1>3. s * k \in Int /\ s * 0 = 0 /\ 1 * k = k
  BY <1>1
<1>4. QED
  BY <1>1, <1>2, <1>3 DEF Less

(* There is a smallest distance, and it is that of an edge.                *)
LEMMA SmallestIs ==
  ASSUME NEW n \in Nat, n > 0, NEW dist, \A i \in 1 .. n : dist[i] \in Distances
  PROVE  \E i \in 1 .. n :
           /\ Smallest({Unbounded} \cup {dist[j] : j \in 1 .. n}) = dist[i]
           /\ \A j \in 1 .. n : ~Less(dist[j], dist[i])
<1> DEFINE Has(k) == \E i \in 1 .. k : \A j \in 1 .. k : ~Less(dist[j], dist[i])
           T == {k \in 0 .. n : k = 0 \/ Has(k)}
           all == {Unbounded} \cup {dist[j] : j \in 1 .. n}
<1>1. ASSUME NEW k \in 0 .. n - 1, k = 0 \/ Has(k) PROVE Has(k + 1)
  <2>1. k \in Nat /\ k + 1 \in 1 .. n /\ k + 1 \in 1 .. k + 1
    OBVIOUS
  <2>2. dist[k + 1] \in Distances
    BY <2>1
  <2>3. \A j \in 1 .. k + 1 : j \in 1 .. k \/ j = k + 1
    BY <2>1
  <2>4. CASE k = 0
    <3>1. \A j \in 1 .. k + 1 : j = k + 1
      BY <2>4
    <3>2. QED
      BY <2>1, <2>2, <3>1, LessOfItself
  <2>5. CASE Has(k)
    <3>1. PICK i \in 1 .. k : \A j \in 1 .. k : ~Less(dist[j], dist[i])
      BY <2>5
    <3>2. i \in 1 .. n /\ i \in 1 .. k + 1 /\ \A j \in 1 .. k : j \in 1 .. n
      BY <2>1
    <3>3. dist[i] \in Distances /\ \A j \in 1 .. k : dist[j] \in Distances
      BY <3>2
    <3>4. CASE Less(dist[k + 1], dist[i])
      <4>1. \A j \in 1 .. k : ~Less(dist[j], dist[k + 1])
        BY <2>2, <3>1, <3>3, <3>4, LessTrans
      <4>2. \A j \in 1 .. k + 1 : ~Less(dist[j], dist[k + 1])
        BY <2>2, <2>3, <4>1, LessOfItself
      <4>3. QED
        BY <2>1, <4>2
    <3>5. CASE ~Less(dist[k + 1], dist[i])
      <4>1. \A j \in 1 .. k + 1 : ~Less(dist[j], dist[i])
        BY <2>3, <3>1, <3>5
      <4>2. QED
        BY <3>2, <4>1
    <3>6. QED
      BY <3>4, <3>5
  <2>6. QED
    BY <1>1, <2>4, <2>5
<1>2. n \in Nat /\ 0 \in T /\ \A k \in 0 .. n - 1 : k \in T => k + 1 \in T
  <2> HIDE DEF Has
  <2>1. QED
    BY <1>1
<1>3. \A k \in 0 .. n : k \in T
  <2> HIDE DEF T
  <2>1. QED
    BY <1>2, UpTo
<1>4. PICK i \in 1 .. n : \A j \in 1 .. n : ~Less(dist[j], dist[i])
  <2>1. n \in T /\ n # 0
    BY <1>3
  <2>2. QED
    BY <2>1
<1>5. dist[i] \in all /\ \A e \in all : ~Less(e, dist[i])
  BY <1>4, LessOfItself
<1> DEFINE IsSmallest(d) == \A e \in all : ~Less(e, d)
           smallest == CHOOSE d \in all : IsSmallest(d)
<1>6. Smallest(all) = smallest
  BY DEF Smallest
<1>7. smallest \in all /\ IsSmallest(smallest)
  <2>1. IsSmallest(dist[i])
    BY <1>5
  <2> HIDE DEF IsSmallest
  <2>2. QED
    BY <1>5, <2>1
<1> HIDE DEF smallest
<1>8. smallest # Unbounded
  <2>1. Less(dist[i], Unbounded)
    BY LessOfItself
  <2>2. QED
    BY <1>5, <1>7, <2>1
<1>9. PICK k \in 1 .. n : smallest = dist[k]
  BY <1>7, <1>8
<1>10. \A j \in 1 .. n : ~Less(dist[j], dist[k])
  BY <1>7, <1>9
<1>11. QED
  BY <1>6, <1>9, <1>10

(* What is not less than a distance that is not negative.                  *)
LEMMA NotLess ==
  ASSUME NEW y \in Int, NEW e \in Nat, NEW m \in Nat, NEW d \in Nat, d > 0
  PROVE  ~Less([num |-> y, den |-> e], [num |-> m, den |-> d])
           <=> y >= 0 /\ m * m * e <= y * y * d
<1> DEFINE s == SignedSquare(y)
<1>1. SignedSquare(m) = m * m /\ s \in Int /\ (y < 0 => s < 0) /\ (y >= 0 => s = y * y)
  BY SignedSquareType
<1>2. Less([num |-> y, den |-> e], [num |-> m, den |-> d]) <=> s * d < m * m * e
  BY <1>1 DEF Less
<1> HIDE DEF s
<1>3. m * m * e \in Nat /\ s * d \in Int
  BY <1>1
<1>4. CASE y < 0
  <2>1. s * d < 0
    BY <1>1, <1>4
  <2>2. s * d < m * m * e
    BY <1>3, <2>1
  <2>3. QED
    BY <1>2, <1>4, <2>2
<1>5. CASE y >= 0
  <2>1. s * d = y * y * d
    BY <1>1, <1>5
  <2>2. QED
    BY <1>2, <1>3, <1>5, <2>1
<1>6. QED
  BY <1>4, <1>5

-----------------------------------------------------------------------------
(* The margin *)

Feet(world, legs) == {world[leg] : leg \in ToSet(legs) \cap Legs}

IsMargin(edges, centre, g) ==
  \E e \in edges :
    /\ g = SignedDistance(e[1], e[2], centre)
    /\ \A f \in edges : ~Less(SignedDistance(f[1], f[2], centre), g)

LEMMA SignedDistanceIs ==
  ASSUME NEW a \in Plane, NEW b \in Plane, a # b, NEW p \in Plane
  PROVE  /\ SignedDistance(a, b, p) \in Distances
         /\ SignedDistance(a, b, p) = [num |-> Cross(a, b, p), den |-> Dist2(a, b)]
         /\ SignedDistance(a, b, p).num = Cross(a, b, p)
         /\ SignedDistance(a, b, p).den = Dist2(a, b)
         /\ Cross(a, b, p) \in Int /\ Dist2(a, b) \in Nat /\ Dist2(a, b) > 0
<1>1. Cross(a, b, p) \in Int /\ Dist2(a, b) \in Nat /\ Dist2(a, b) > 0
  BY CrossType, Dist2Is
<1>2. QED
  BY <1>1 DEF SignedDistance, Distances

LEMMA ToSetIs ==
  ASSUME NEW S, NEW s \in Seq(S)
  PROVE  ToSet(s) = {s[i] : i \in 1 .. Len(s)}
BY DEF ToSet

(* Two feet enclose nothing.                                               *)
LEMMA TwoEncloseNothing ==
  ASSUME NEW seen, seen \subseteq Plane, NEW p \in Plane, NEW q \in Plane, seen \subseteq {p, q}
  PROVE  ~Encloses(seen)
<1> SUFFICES ASSUME NEW a \in seen, NEW b \in seen, NEW c \in seen PROVE Cross(a, b, c) = 0
  BY DEF Encloses
<1>1. a \in Plane /\ b \in Plane /\ c \in Plane /\ (a = b \/ b = c \/ a = c)
  OBVIOUS
<1>2. CASE a = b
  BY <1>1, <1>2, CrossSum
<1>3. CASE b = c
  BY <1>1, <1>3, CrossSum
<1>4. CASE a = c
  BY <1>1, <1>4, CrossSum
<1>5. QED
  BY <1>1, <1>2, <1>3, <1>4

LEMMA FewLegs ==
  ASSUME NEW world \in [Legs -> Plane], NEW legs \in Seq(Legs \cup {LegCount}), Len(legs) < 3
  PROVE  ~Encloses(Feet(world, legs))
<1> DEFINE seen == Feet(world, legs)
           origin == [x |-> 0, y |-> 0]
           p == IF legs[1] \in Legs THEN world[legs[1]] ELSE origin
           q == IF legs[2] \in Legs THEN world[legs[2]] ELSE origin
<1>1. Len(legs) \in Nat /\ ToSet(legs) = {legs[i] : i \in 1 .. Len(legs)}
  BY ToSetIs
<1>2. origin \in Plane
  BY DEF Plane
<1>3. p \in Plane /\ q \in Plane
  BY <1>2
<1>4. seen \subseteq Plane
  BY DEF Feet
<1>5. \A i \in 1 .. Len(legs) : i = 1 \/ i = 2
  BY <1>1
<1>6. seen \subseteq {p, q}
  BY <1>1, <1>5 DEF Feet
<1> HIDE DEF seen, p, q
<1>7. ~Encloses(seen)
  BY <1>3, <1>4, <1>6, TwoEncloseNothing
<1>8. QED
  BY <1>7 DEF seen

LEMMA MarginIs ==
  ASSUME NEW world \in [Legs -> Plane], NEW centre \in Plane,
         NEW legs \in Seq(Legs \cup {LegCount})
  PROVE  LET given == StabilityMargin(centre, world, legs)
             seen == Feet(world, legs)
         IN  IF LegCount \in ToSet(legs) \/ ~Encloses(seen)
             THEN given = NoSupport
             ELSE \E edges : Polygon(edges, seen) /\ IsMargin(edges, centre, given)
<1> DEFINE given == StabilityMargin(centre, world, legs)
           seen == Feet(world, legs)
           points == [i \in 1 .. Len(legs) |-> world[legs[i]]]
           hull == ConvexHull(points)
           distances == {SignedDistance(e[1], e[2], centre) :
                           e \in {f \in Edges(hull) : f[1] # f[2]}}
<1>1. /\ Len(legs) \in Nat /\ ToSet(legs) = {legs[i] : i \in 1 .. Len(legs)}
      /\ \A i \in 1 .. Len(legs) : legs[i] \in Legs \cup {LegCount}
  BY ToSetIs
<1>2. LegCount \notin Legs
  BY GroundAssumption DEF Legs
<1>3. given = IF Len(legs) < 3 \/ \E i \in 1 .. Len(legs) : legs[i] \notin Legs THEN NoSupport
              ELSE IF Len(hull) < 3 THEN NoSupport ELSE Smallest({Unbounded} \cup distances)
  BY DEF StabilityMargin
<1> HIDE DEF given, hull, distances
<1>4. CASE LegCount \in ToSet(legs)
  <2>1. \E i \in 1 .. Len(legs) : legs[i] \notin Legs
    BY <1>1, <1>2, <1>4
  <2>2. given = NoSupport
    BY <1>3, <2>1
  <2>3. QED
    BY <1>4, <2>2 DEF given
<1>5. CASE LegCount \notin ToSet(legs) /\ Len(legs) < 3
  <2>1. given = NoSupport
    BY <1>3, <1>5
  <2>2. ~Encloses(seen)
    BY <1>5, FewLegs
  <2>3. QED
    BY <2>1, <2>2 DEF given
<1>6. CASE LegCount \notin ToSet(legs) /\ Len(legs) >= 3
  <2>1. \A i \in 1 .. Len(legs) : legs[i] \in Legs
    BY <1>1, <1>6
  <2>2. /\ points \in Seq(Plane) /\ Len(points) = Len(legs)
        /\ \A i \in 1 .. Len(legs) : points[i] = world[legs[i]]
    <3>1. points \in [1 .. Len(legs) -> Plane]
      BY <2>1
    <3>2. QED
      BY <1>1, <3>1
  <2>3. PointsOf(points) = seen
    BY <1>1, <2>1, <2>2 DEF PointsOf, Feet
  <2> HIDE DEF points
  <2>4. PICK round, turn : IsRound(round, turn, seen) /\ hull = Front(round)
    <3>1. Len(points) >= 2
      BY <1>1, <1>6, <2>2
    <3>2. QED
      BY <2>2, <2>3, <3>1, RoundIs DEF hull
  <2>5. Len(hull) = Len(round) - 1 /\ Edges(hull) = EdgesOf(round) /\ Len(round) \in Nat
    BY <2>4, EdgesAre, RoundPoints
  <2>6. given = IF Len(hull) < 3 THEN NoSupport ELSE Smallest({Unbounded} \cup distances)
    <3>1. ~(Len(legs) < 3 \/ \E i \in 1 .. Len(legs) : legs[i] \notin Legs)
      BY <1>1, <1>6, <2>1
    <3>2. QED
      BY <1>3, <3>1
  <2> HIDE DEF seen
  <2>7. CASE ~Encloses(seen)
    <3>1. ~(Len(round) >= 4)
      BY <2>4, <2>7, WideRound
    <3>2. Len(hull) < 3
      BY <2>5, <3>1
    <3>3. given = NoSupport
      BY <2>6, <3>2
    <3>4. QED
      BY <2>7, <3>3 DEF given, seen
  <2>8. CASE Encloses(seen)
    <3>1. Len(round) >= 4 /\ \A i \in 1 .. Len(round) - 1 : round[i] # round[i + 1]
      BY <2>4, <2>8, NarrowRound
    <3>2. Polygon(EdgesOf(round), seen)
      BY <2>4, <2>8, RoundIsPolygon
    <3>3. given = Smallest({Unbounded} \cup distances)
      <4>1. ~(Len(hull) < 3)
        BY <2>5, <3>1
      <4>2. QED
        BY <2>6, <4>1
    <3> DEFINE n == Len(round) - 1
               dist == [i \in 1 .. n |-> SignedDistance(round[i], round[i + 1], centre)]
    <3>4. n \in Nat /\ n > 0 /\ \A i \in 1 .. n : i \in 1 .. Len(round) /\ i + 1 \in 1 .. Len(round)
      BY <2>5, <3>1
    <3>5. \A i \in 1 .. n : round[i] \in Plane /\ round[i + 1] \in Plane
      BY <2>4, <3>4, RoundPoints
    <3>6. \A i \in 1 .. n : dist[i] = SignedDistance(round[i], round[i + 1], centre)
      OBVIOUS
    <3>7. \A i \in 1 .. n : dist[i] \in Distances
      BY <3>1, <3>5, <3>6, SignedDistanceIs
    <3>8. EdgesOf(round) = {<<round[i], round[i + 1]>> : i \in 1 .. n}
      BY DEF EdgesOf
    <3> HIDE DEF dist, n
    <3>9. distances = {dist[i] : i \in 1 .. n}
      <4>1. \A e \in EdgesOf(round) : e[1] # e[2]
        BY <3>2 DEF Polygon
      <4>2. distances = {SignedDistance(e[1], e[2], centre) : e \in EdgesOf(round)}
        BY <2>5, <4>1 DEF distances
      <4>3. \A i \in 1 .. n : /\ <<round[i], round[i + 1]>> \in EdgesOf(round)
                               /\ <<round[i], round[i + 1]>>[1] = round[i]
                               /\ <<round[i], round[i + 1]>>[2] = round[i + 1]
        BY <3>8
      <4>4. \A d \in distances : d \in {dist[i] : i \in 1 .. n}
        BY <3>6, <3>8, <4>2
      <4>5. \A i \in 1 .. n : dist[i] \in distances
        BY <3>6, <4>2, <4>3
      <4>6. QED
        BY <4>4, <4>5
    <3>10. PICK i \in 1 .. n : /\ Smallest({Unbounded} \cup {dist[j] : j \in 1 .. n}) = dist[i]
                               /\ \A j \in 1 .. n : ~Less(dist[j], dist[i])
      BY <3>4, <3>7, SmallestIs
    <3>11. given = dist[i]
      BY <3>3, <3>9, <3>10
    <3>12. IsMargin(EdgesOf(round), centre, given)
      <4> DEFINE e == <<round[i], round[i + 1]>>
      <4>1. e \in EdgesOf(round) /\ e[1] = round[i] /\ e[2] = round[i + 1]
        BY <3>8
      <4>2. given = SignedDistance(e[1], e[2], centre)
        BY <3>6, <3>11, <4>1
      <4>3. \A f \in EdgesOf(round) : ~Less(SignedDistance(f[1], f[2], centre), given)
        BY <3>6, <3>8, <3>10, <3>11
      <4> HIDE DEF e
      <4>4. QED
        BY <4>1, <4>2, <4>3 DEF IsMargin
    <3>13. QED
      BY <1>6, <2>8, <3>2, <3>12 DEF given, seen
  <2>9. QED
    BY <2>7, <2>8
<1>7. QED
  BY <1>1, <1>4, <1>5, <1>6

-----------------------------------------------------------------------------
(* The margin of a polygon *)

SidesOf(seen) == { side \in seen \X seen :
                     /\ side[1] # side[2]
                     /\ \A foot \in seen : Cross(side[1], side[2], foot) >= 0 }

LEMMA EdgesAreSides ==
  ASSUME NEW edges, NEW seen, Polygon(edges, seen)
  PROVE  edges \subseteq SidesOf(seen)
BY DEF Polygon, SidesOf

LEMMA SideIs ==
  ASSUME NEW seen, seen \subseteq Plane, NEW side \in SidesOf(seen)
  PROVE  /\ side[1] \in Plane /\ side[2] \in Plane /\ side[1] # side[2]
         /\ side[1] \in seen /\ side[2] \in seen
         /\ \A q \in seen : Cross(side[1], side[2], q) >= 0
BY DEF SidesOf

(* The edge whose distance the margin is.                                  *)
LEMMA MarginEdge ==
  ASSUME NEW edges, NEW seen, Polygon(edges, seen), NEW centre \in Plane,
         NEW g, IsMargin(edges, centre, g)
  PROVE  \E e \in edges :
           /\ e[1] \in Plane /\ e[2] \in Plane /\ e[1] # e[2]
           /\ g = [num |-> Cross(e[1], e[2], centre), den |-> Dist2(e[1], e[2])]
           /\ g.num = Cross(e[1], e[2], centre) /\ g.den = Dist2(e[1], e[2])
           /\ g.num \in Int /\ g.den \in Nat /\ g.den > 0
           /\ \A f \in edges : ~Less(SignedDistance(f[1], f[2], centre), g)
<1>1. PICK e \in edges : /\ g = SignedDistance(e[1], e[2], centre)
                         /\ \A f \in edges : ~Less(SignedDistance(f[1], f[2], centre), g)
  BY DEF IsMargin
<1>2. e[1] \in Plane /\ e[2] \in Plane /\ e[1] # e[2]
  BY DEF Polygon
<1>3. /\ g = [num |-> Cross(e[1], e[2], centre), den |-> Dist2(e[1], e[2])]
      /\ g.num = Cross(e[1], e[2], centre) /\ g.den = Dist2(e[1], e[2])
      /\ Cross(e[1], e[2], centre) \in Int /\ Dist2(e[1], e[2]) \in Nat /\ Dist2(e[1], e[2]) > 0
  BY <1>1, <1>2, SignedDistanceIs
<1>4. QED
  BY <1>1, <1>2, <1>3

(* No line around the polygon is nearer than its margin.                   *)
LEMMA MarginLine ==
  ASSUME NEW edges, NEW seen, Polygon(edges, seen), NEW centre \in Plane,
         NEW g, IsMargin(edges, centre, g), g.num >= 0,
         NEW a \in Plane, NEW b \in Plane, \A q \in seen : Cross(a, b, q) >= 0
  PROVE  Clear(a, b, centre, g.num * g.num, g.den)
<1>1. PICK e \in edges :
        /\ g = [num |-> Cross(e[1], e[2], centre), den |-> Dist2(e[1], e[2])]
        /\ g.num = Cross(e[1], e[2], centre) /\ g.den = Dist2(e[1], e[2])
        /\ g.num \in Int /\ g.den \in Nat /\ g.den > 0
        /\ \A f \in edges : ~Less(SignedDistance(f[1], f[2], centre), g)
  BY MarginEdge
<1> DEFINE m == g.num
           d == g.den
           mm == m * m
<1>2. m \in Nat /\ d \in Nat /\ d > 0 /\ g = [num |-> m, den |-> d] /\ mm \in Nat
  BY <1>1
<1> HIDE DEF m, d
<1>3. ASSUME NEW f \in edges PROVE Clear(f[1], f[2], centre, mm, d)
  <2> DEFINE y == Cross(f[1], f[2], centre)
             k == Dist2(f[1], f[2])
  <2>1. f[1] \in Plane /\ f[2] \in Plane /\ f[1] # f[2]
    BY DEF Polygon
  <2>2. SignedDistance(f[1], f[2], centre) = [num |-> y, den |-> k] /\ y \in Int /\ k \in Nat
    BY <2>1, SignedDistanceIs
  <2>3. ~Less([num |-> y, den |-> k], [num |-> m, den |-> d])
    BY <1>1, <1>2, <2>2
  <2> HIDE DEF y, k
  <2>4. y >= 0 /\ m * m * k <= y * y * d
    BY <1>2, <2>2, <2>3, NotLess
  <2>5. QED
    BY <2>4 DEF Clear, Square, y, k
<1>4. edges # {}
  BY <1>1
<1> HIDE DEF mm
<1>5. Clear(a, b, centre, mm, d)
  BY <1>2, <1>3, <1>4, SupportLine
<1>6. QED
  BY <1>5 DEF mm, m, d

LEMMA MarginSign ==
  ASSUME NEW edges, NEW seen, Polygon(edges, seen), NEW centre \in Plane,
         NEW g, IsMargin(edges, centre, g)
  PROVE  /\ g # NoSupport /\ g.den > 0
         /\ g.num > 0 <=> \A side \in SidesOf(seen) : Cross(side[1], side[2], centre) > 0
         /\ g.num < 0 <=> \E side \in SidesOf(seen) : Cross(side[1], side[2], centre) < 0
<1>1. PICK e \in edges :
        /\ g.num = Cross(e[1], e[2], centre)
        /\ g.num \in Int /\ g.den \in Nat /\ g.den > 0
  BY MarginEdge
<1>2. e \in SidesOf(seen)
  BY EdgesAreSides
<1>3. seen \subseteq Plane
  BY DEF Polygon
<1>4. ASSUME NEW side \in SidesOf(seen), g.num >= 0
      PROVE  /\ Cross(side[1], side[2], centre) >= 0
             /\ g.num > 0 => Cross(side[1], side[2], centre) > 0
  <2> DEFINE a == side[1]
             b == side[2]
             y == Cross(a, b, centre)
             k == Dist2(a, b)
             m == g.num
             d == g.den
  <2>1. a \in Plane /\ b \in Plane /\ a # b /\ \A q \in seen : Cross(a, b, q) >= 0
    BY <1>3, SideIs
  <2> HIDE DEF a, b
  <2>2. Clear(a, b, centre, m * m, d)
    BY <1>4, <2>1, MarginLine
  <2>3. y \in Int /\ k \in Nat /\ k > 0
    BY <2>1, CrossType, Dist2Is
  <2>4. y >= 0 /\ m * m * k <= y * y * d
    BY <2>2 DEF Clear, Square
  <2>5. m \in Int /\ d \in Nat
    BY <1>1
  <2> HIDE DEF y, k, m, d
  <2>6. ASSUME m > 0, y = 0 PROVE FALSE
    <3>1. m * m > 0
      BY <2>5, <2>6
    <3>2. m * m * k > 0
      <4> DEFINE x == m * m
      <4>1. x \in Int /\ x > 0
        BY <2>5, <3>1
      <4> HIDE DEF x
      <4>2. x * k > 0
        BY <2>3, <4>1
      <4>3. QED
        BY <4>2 DEF x
    <3>3. y * y * d = 0
      BY <2>5, <2>6
    <3>4. m * m * k \in Int /\ m * m * k <= 0
      BY <2>3, <2>4, <2>5, <3>3
    <3> DEFINE x == m * m * k
    <3>5. x \in Int /\ x <= 0 /\ x > 0
      BY <3>2, <3>4
    <3> HIDE DEF x
    <3>6. QED
      BY <3>5
  <2>7. y >= 0 /\ (m > 0 => y > 0)
    BY <2>3, <2>4, <2>6
  <2>8. QED
    BY <2>7 DEF y, m, a, b
<1>5. g # NoSupport
  BY <1>1 DEF NoSupport
<1>6. g.num > 0 <=> \A side \in SidesOf(seen) : Cross(side[1], side[2], centre) > 0
  BY <1>1, <1>2, <1>4
<1>7. g.num < 0 <=> \E side \in SidesOf(seen) : Cross(side[1], side[2], centre) < 0
  <2>1. g.num < 0 => \E side \in SidesOf(seen) : Cross(side[1], side[2], centre) < 0
    BY <1>1, <1>2
  <2>2. ASSUME NEW side \in SidesOf(seen), Cross(side[1], side[2], centre) < 0, ~(g.num < 0)
        PROVE  FALSE
    <3>1. g.num >= 0
      BY <1>1, <2>2
    <3>2. Cross(side[1], side[2], centre) >= 0
      BY <1>4, <3>1
    <3>3. Cross(side[1], side[2], centre) \in Int
      BY <1>3, SideIs, CrossType
    <3>4. QED
      BY <2>2, <3>2, <3>3
  <2>3. QED
    BY <2>1, <2>2
<1>8. QED
  BY <1>1, <1>5, <1>6, <1>7

(* More feet do not bring the nearest edge nearer.                         *)
LEMMA MarginGrows ==
  ASSUME NEW edges, NEW seen, Polygon(edges, seen), NEW centre \in Plane,
         NEW g, IsMargin(edges, centre, g), g.num > 0,
         NEW wider, NEW all, Polygon(wider, all), seen \subseteq all,
         NEW h, IsMargin(wider, centre, h)
  PROVE  ~Less(h, g)
<1>1. PICK e \in wider :
        /\ e[1] \in Plane /\ e[2] \in Plane /\ e[1] # e[2]
        /\ h = [num |-> Cross(e[1], e[2], centre), den |-> Dist2(e[1], e[2])]
        /\ h.num = Cross(e[1], e[2], centre) /\ h.den = Dist2(e[1], e[2])
        /\ h.num \in Int /\ h.den \in Nat /\ h.den > 0
  BY MarginEdge
<1>2. /\ g = [num |-> g.num, den |-> g.den]
      /\ g.num \in Int /\ g.den \in Nat /\ g.den > 0
  BY MarginEdge
<1>3. \A q \in seen : Cross(e[1], e[2], q) >= 0
  BY DEF Polygon
<1>4. Clear(e[1], e[2], centre, g.num * g.num, g.den)
  BY <1>1, <1>2, <1>3, MarginLine
<1> DEFINE y == h.num
           k == h.den
           m == g.num
           d == g.den
<1>5. y >= 0 /\ m * m * k <= y * y * d
  BY <1>1, <1>4 DEF Clear, Square
<1>6. y \in Int /\ k \in Nat /\ m \in Nat /\ d \in Nat /\ d > 0
  BY <1>1, <1>2
<1>7. h = [num |-> y, den |-> k] /\ g = [num |-> m, den |-> d]
  BY <1>1, <1>2
<1> HIDE DEF y, k, m, d
<1>8. ~Less([num |-> y, den |-> k], [num |-> m, den |-> d])
  BY <1>5, <1>6, NotLess
<1>9. QED
  BY <1>7, <1>8

-----------------------------------------------------------------------------
(* The distance to a side *)

(* How far p is along a -- b, times the length of a -- b.                  *)
Advance(a, b, p) == (p.x - a.x) * (b.x - a.x) + (p.y - a.y) * (b.y - a.y)

LEMMA ClearanceIs ==
  ASSUME NEW a \in Plane, NEW b \in Plane, a # b, NEW p \in Plane
  PROVE  /\ Advance(a, b, p) \in Int
         /\ Advance(a, b, p) <= 0 => Clearance(a, b, p) = [num |-> Dist2(a, p), den |-> 1]
         /\ Advance(a, b, p) >= Dist2(a, b)
              => Clearance(a, b, p) = [num |-> Dist2(b, p), den |-> 1]
         /\ ~(Advance(a, b, p) <= 0) /\ ~(Advance(a, b, p) >= Dist2(a, b))
              => Clearance(a, b, p) = [num |-> Square(Cross(a, b, p)), den |-> Dist2(a, b)]
<1> DEFINE w == Advance(a, b, p)
           e == Dist2(a, b)
<1>1. w \in Int
  BY DEF Advance, Plane
<1>2. e \in Nat /\ e > 0
  BY Dist2Is
<1>3. Clearance(a, b, p)
        = CASE w <= 0 -> [num |-> Dist2(a, p), den |-> 1]
            [] w >= e -> [num |-> Dist2(b, p), den |-> 1]
            [] OTHER -> [num |-> Square(Cross(a, b, p)), den |-> e]
  BY DEF Clearance, Advance
<1> HIDE DEF w, e
<1>4. /\ w <= 0 => Clearance(a, b, p) = [num |-> Dist2(a, p), den |-> 1]
      /\ w >= e => Clearance(a, b, p) = [num |-> Dist2(b, p), den |-> 1]
      /\ ~(w <= 0) /\ ~(w >= e)
           => Clearance(a, b, p) = [num |-> Square(Cross(a, b, p)), den |-> e]
  BY <1>1, <1>2, <1>3
<1>5. QED
  BY <1>1, <1>4 DEF w, e

(* Seen from either end of a -- b.                                         *)
LEMMA Pythagoras ==
  ASSUME NEW a \in Plane, NEW b \in Plane, NEW p \in Plane
  PROVE  /\ Dist2(a, b) * Dist2(a, p) = Square(Cross(a, b, p)) + Square(Advance(a, b, p))
         /\ Dist2(a, b) * Dist2(b, p)
              = Square(Cross(a, b, p)) + Square(Advance(a, b, p) - Dist2(a, b))
         /\ Square(Cross(a, b, p)) <= Dist2(a, b) * Dist2(a, p)
         /\ Square(Cross(a, b, p)) <= Dist2(a, b) * Dist2(b, p)
<1>1. /\ a.x \in Int /\ a.y \in Int /\ b.x \in Int /\ b.y \in Int /\ p.x \in Int /\ p.y \in Int
  BY DEF Plane
<1> DEFINE ex == b.x - a.x
           ey == b.y - a.y
           ux == p.x - a.x
           uy == p.y - a.y
           vx == p.x - b.x
           vy == p.y - b.y
<1>2. /\ ex \in Int /\ ey \in Int /\ ux \in Int /\ uy \in Int /\ vx \in Int /\ vy \in Int
      /\ vx = ux - ex /\ vy = uy - ey
  BY <1>1
<1>3. /\ Dist2(a, b) = Norm(ex, ey) /\ Dist2(a, p) = Norm(ux, uy) /\ Dist2(b, p) = Norm(vx, vy)
  BY Dist2Is
<1>4. Cross(a, b, p) = Wedge(ex, ey, ux, uy) /\ Advance(a, b, p) = Dot(ex, ey, ux, uy)
  BY <1>1 DEF Cross, Wedge, Advance, Dot
<1> HIDE DEF ex, ey, ux, uy, vx, vy
<1>5. /\ Wedge(ex, ey, vx, vy) = Wedge(ex, ey, ux, uy)
      /\ Dot(ex, ey, vx, vy) = Dot(ex, ey, ux, uy) - Norm(ex, ey)
  BY <1>2 DEF Wedge, Dot, Norm
<1>6. /\ Norm(ex, ey) * Norm(ux, uy)
           = Square(Wedge(ex, ey, ux, uy)) + Square(Dot(ex, ey, ux, uy))
      /\ Square(Wedge(ex, ey, ux, uy)) <= Norm(ex, ey) * Norm(ux, uy)
  BY <1>2, Lagrange
<1>7. /\ Norm(ex, ey) * Norm(vx, vy)
           = Square(Wedge(ex, ey, vx, vy)) + Square(Dot(ex, ey, vx, vy))
      /\ Square(Wedge(ex, ey, vx, vy)) <= Norm(ex, ey) * Norm(vx, vy)
  BY <1>2, Lagrange
<1>8. QED
  BY <1>3, <1>4, <1>5, <1>6, <1>7

(* A side is at least as far away as its line.                             *)
LEMMA InsideClear ==
  ASSUME NEW a \in Plane, NEW b \in Plane, a # b, NEW p \in Plane,
         NEW m \in Nat, NEW d \in Nat, d > 0, Clear(a, b, p, m, d)
  PROVE  AtMost([num |-> m, den |-> d], Clearance(a, b, p))
<1> DEFINE e == Dist2(a, b)
           y == Cross(a, b, p)
           yy == Square(y)
           c == Clearance(a, b, p)
<1>1. e \in Nat /\ e > 0 /\ y \in Int /\ m * e <= yy * d
  BY Dist2Is, CrossType DEF Clear
<1>2. yy \in Nat
  BY <1>1, SquareType DEF Square
<1>3. /\ yy <= e * Dist2(a, p) /\ yy <= e * Dist2(b, p)
      /\ Dist2(a, p) \in Nat /\ Dist2(b, p) \in Nat
  BY Pythagoras, Dist2Is
<1>4. \/ c = [num |-> Dist2(a, p), den |-> 1]
      \/ c = [num |-> Dist2(b, p), den |-> 1]
      \/ c = [num |-> yy, den |-> e]
  BY ClearanceIs
<1> HIDE DEF e, y, yy, c
<1>5. ASSUME NEW w \in Nat, yy <= e * w PROVE m <= w * d
  <2> DEFINE x == e * w
             l == m * e
             r == yy * d
  <2>1. x \in Nat /\ yy <= x
    BY <1>1, <1>5
  <2> HIDE DEF x
  <2>2. yy * d <= x * d
    BY <1>2, <2>1, ProductMono
  <2>3. l \in Int /\ r \in Int /\ x * d \in Int
    BY <1>1, <1>2, <2>1
  <2>4. l <= x * d
    <3>1. l <= r /\ r <= x * d
      BY <1>1, <2>2
    <3> DEFINE z == x * d
    <3>2. z \in Int /\ l <= r /\ r <= z
      BY <2>3, <3>1
    <3> HIDE DEF l, r, z
    <3>3. l <= z
      BY <2>3, <3>2
    <3>4. QED
      BY <3>3 DEF z
  <2>5. l = e * m /\ x * d = e * (w * d)
    BY <1>1 DEF x
  <2>6. e * m <= e * (w * d)
    BY <2>4, <2>5
  <2> DEFINE z == w * d
  <2>7. z \in Int /\ e * m <= e * z
    BY <2>6
  <2> HIDE DEF z
  <2>8. m <= z
    BY <1>1, <2>7, CancelFactor
  <2>9. QED
    BY <2>8 DEF z
<1>6. CASE \E w \in Nat : yy <= e * w /\ c = [num |-> w, den |-> 1]
  <2>1. PICK w \in Nat : yy <= e * w /\ c = [num |-> w, den |-> 1]
    BY <1>6
  <2>2. m <= w * d
    BY <1>5, <2>1
  <2>3. AtMost([num |-> m, den |-> d], [num |-> w, den |-> 1])
    BY <2>2 DEF AtMost
  <2>4. QED
    BY <2>1, <2>3 DEF c
<1>7. CASE c = [num |-> yy, den |-> e]
  <2>1. AtMost([num |-> m, den |-> d], [num |-> yy, den |-> e])
    BY <1>1 DEF AtMost
  <2>2. QED
    BY <1>7, <2>1 DEF c
<1>8. QED
  BY <1>3, <1>4, <1>6, <1>7

(* A point that is beyond the line s -- t is at least that far from a side *)
(* that is not.                                                            *)
LEMMA OutsideClear ==
  ASSUME NEW s \in Plane, NEW t \in Plane, s # t, NEW p \in Plane, Cross(s, t, p) < 0,
         NEW a \in Plane, NEW b \in Plane, a # b,
         Cross(s, t, a) >= 0, Cross(s, t, b) >= 0
  PROVE  AtMost([num |-> Square(Cross(s, t, p)), den |-> Dist2(s, t)], Clearance(a, b, p))
<1> DEFINE m == Cross(s, t, p)
           d == Dist2(s, t)
           e == Dist2(a, b)
           y == Cross(a, b, p)
           w == Advance(a, b, p)
           c == Clearance(a, b, p)
           ex == b.x - a.x
           ey == b.y - a.y
           dx == t.x - s.x
           dy == t.y - s.y
           k == Dot(dx, dy, ex, ey)
           i == Cross(s, t, a)
           j == Cross(s, t, b)
<1>1. /\ a.x \in Int /\ a.y \in Int /\ b.x \in Int /\ b.y \in Int /\ p.x \in Int /\ p.y \in Int
      /\ s.x \in Int /\ s.y \in Int /\ t.x \in Int /\ t.y \in Int
  BY DEF Plane
<1>2. /\ d \in Nat /\ d > 0 /\ e \in Nat /\ e > 0 /\ Dist2(a, p) \in Nat /\ Dist2(b, p) \in Nat
  BY Dist2Is
<1>3. m \in Int /\ m < 0 /\ y \in Int /\ i \in Int /\ i >= 0 /\ j \in Int /\ j >= 0
  BY CrossType
<1>4. w \in Int
  BY ClearanceIs
(* The ends. *)
<1>5. ASSUME NEW q \in Plane, Cross(s, t, q) >= 0
      PROVE  Square(m) <= Dist2(q, p) * d
  <2> DEFINE qx == p.x - q.x
             qy == p.y - q.y
             h == Wedge(dx, dy, qx, qy)
             n == Cross(s, t, q)
  <2>1. /\ q.x \in Int /\ q.y \in Int
    BY DEF Plane
  <2>2. dx \in Int /\ dy \in Int /\ qx \in Int /\ qy \in Int
    BY <1>1, <2>1
  <2>3. h = m - n
    BY <1>1, <2>1 DEF Cross, Wedge
  <2>4. Dist2(q, p) = Norm(qx, qy) /\ d = Norm(dx, dy)
    BY Dist2Is
  <2>5. n \in Int /\ n >= 0
    BY <1>5, CrossType
  <2> HIDE DEF dx, dy, qx, qy, m, d, n
  <2>6. Square(h) <= Norm(dx, dy) * Norm(qx, qy)
    BY <2>2, Lagrange
  <2> HIDE DEF h
  <2>7. Square(m) <= Square(h)
    <3> DEFINE f == n - m
               g == -m
    <3>1. f \in Nat /\ g \in Nat /\ g <= f
      BY <1>3, <2>5
    <3>2. Square(m) = g * g /\ Square(h) = f * f
      BY <1>3, <2>3, <2>5 DEF Square
    <3> HIDE DEF f, g
    <3>3. g * g <= f * f
      BY <3>1, ProductMono
    <3>4. QED
      BY <3>2, <3>3
  <2>8. Square(m) \in Int /\ Square(h) \in Int
    BY <1>3, <2>3, <2>5 DEF Square
  <2>9. Norm(dx, dy) * Norm(qx, qy) = Dist2(q, p) * d /\ Dist2(q, p) * d \in Int
    <3>1. Norm(dx, dy) \in Nat /\ Norm(qx, qy) \in Nat
      BY <2>2, NormType
    <3>2. QED
      BY <2>4, <3>1
  <2>10. QED
    BY <2>6, <2>7, <2>8, <2>9
(* In between. *)
<1>6. ASSUME w > 0, w < e PROVE Square(m) * e <= Square(y) * d
  <2>1. dx \in Int /\ dy \in Int /\ ex \in Int /\ ey \in Int
    BY <1>1
  <2>2. e * m = (e - w) * i + w * j + y * k
    <3> DEFINE ux == p.x - a.x
               uy == p.y - a.y
               f == Wedge(dx, dy, ux, uy)
               g == Wedge(dx, dy, ex, ey)
    <3>1. ux \in Int /\ uy \in Int
      BY <1>1
    <3>2. m = i + f /\ j = i + g
      BY <1>1 DEF Cross, Wedge
    <3>3. e = Norm(ex, ey)
      BY Dist2Is
    <3>4. w = Dot(ex, ey, ux, uy) /\ y = Wedge(ex, ey, ux, uy)
      BY <1>1 DEF Advance, Dot, Cross, Wedge
    <3> HIDE DEF dx, dy, ex, ey, ux, uy, m, d, e, y, w, i, j
    <3>5. e * f = w * g + y * k
      BY <2>1, <3>1, <3>3, <3>4 DEF Norm, Dot, Wedge
    <3>6. f \in Int /\ g \in Int /\ k \in Int
      BY <2>1, <3>1 DEF Wedge, Dot
    <3> HIDE DEF f, g, k
    <3>7. e * (i + f) = (e - w) * i + w * (i + g) + y * k
      <4>1. e * (i + f) = e * i + e * f
        BY <1>2, <1>3, <3>6
      <4>2. (e - w) * i + w * (i + g) + y * k = e * i + (w * g + y * k)
        BY <1>2, <1>3, <1>4, <3>6
      <4>3. QED
        BY <3>5, <4>1, <4>2
    <3>8. QED
      BY <3>2, <3>7
  <2>3. k \in Int
    BY <2>1 DEF Dot
  <2>4. Square(k) <= d * e
    <3>1. Square(k) <= Norm(dx, dy) * Norm(ex, ey)
      BY <2>1, Lagrange
    <3>2. d = Norm(dx, dy) /\ e = Norm(ex, ey)
      BY Dist2Is
    <3>3. QED
      BY <3>1, <3>2
  <2> HIDE DEF m, d, e, y, w, i, j, k
  <2>5. (e - w) * i >= 0 /\ w * j >= 0 /\ (e - w) * i \in Int /\ w * j \in Int
        /\ e * m \in Int /\ y * k \in Int
    BY <1>2, <1>3, <1>4, <1>6, <2>3
  <2> DEFINE f == e * (-m)
             g == -(y * k)
  <2>6. f \in Nat /\ g \in Nat /\ f <= g
    <3>1. f = -(e * m)
      BY <1>2, <1>3
    <3>2. f \in Nat
      BY <1>2, <1>3
    <3>3. QED
      BY <2>2, <2>5, <3>1, <3>2
  <2>7. f * f = e * (Square(m) * e) /\ g * g = Square(y) * Square(k)
    BY <1>2, <1>3, <2>3 DEF Square
  <2> HIDE DEF f, g
  <2>8. f * f <= g * g
    BY <2>6, ProductMono
  <2> DEFINE yy == Square(y)
             kk == Square(k)
             mm == Square(m)
             de == d * e
  <2>9. yy \in Nat /\ kk \in Nat /\ mm \in Nat /\ de \in Nat /\ kk <= de
    BY <1>2, <1>3, <2>3, <2>4, SquareType DEF Square
  <2> HIDE DEF yy, kk, mm
  <2>10. yy * kk <= yy * de
    <3> HIDE DEF de
    <3>1. QED
      BY <2>9, ProductMono
  <2>11. e * (mm * e) <= e * (yy * d)
    <3>1. yy * de = e * (yy * d)
      BY <1>2, <2>9
    <3>2. e * (mm * e) <= yy * kk
      BY <2>7, <2>8 DEF yy, kk, mm
    <3>3. e * (mm * e) \in Int /\ yy * kk \in Int /\ e * (yy * d) \in Int
      BY <1>2, <2>9
    <3>4. QED
      BY <2>10, <3>1, <3>2, <3>3
  <2> DEFINE l == mm * e
             r == yy * d
  <2>12. l \in Int /\ r \in Int /\ e * l <= e * r
    BY <1>2, <2>9, <2>11
  <2> HIDE DEF l, r
  <2>13. l <= r
    BY <1>2, <2>12, CancelFactor
  <2>14. QED
    BY <2>13 DEF l, r, mm, yy
<1>7. Square(m) <= Dist2(a, p) * d /\ Square(m) <= Dist2(b, p) * d
  BY <1>3, <1>5
<1>8. /\ w <= 0 => c = [num |-> Dist2(a, p), den |-> 1]
      /\ w >= e => c = [num |-> Dist2(b, p), den |-> 1]
      /\ ~(w <= 0) /\ ~(w >= e) => c = [num |-> Square(y), den |-> e]
  BY ClearanceIs
<1>9. Square(m) \in Int
  BY <1>3 DEF Square
<1> HIDE DEF m, d, e, y, w, c
<1>10. CASE w <= 0
  <2>1. AtMost([num |-> Square(m), den |-> d], [num |-> Dist2(a, p), den |-> 1])
    BY <1>7, <1>9 DEF AtMost
  <2>2. QED
    BY <1>8, <1>10, <2>1 DEF m, d, c
<1>11. CASE w >= e
  <2>1. AtMost([num |-> Square(m), den |-> d], [num |-> Dist2(b, p), den |-> 1])
    BY <1>7, <1>9 DEF AtMost
  <2>2. QED
    BY <1>8, <1>11, <2>1 DEF m, d, c
<1>12. CASE w > 0 /\ w < e
  <2>1. AtMost([num |-> Square(m), den |-> d], [num |-> Square(y), den |-> e])
    BY <1>6, <1>12 DEF AtMost
  <2>2. c = [num |-> Square(y), den |-> e]
    BY <1>2, <1>4, <1>8, <1>12
  <2>3. QED
    BY <2>1, <2>2 DEF m, d, c
<1>13. QED
  BY <1>2, <1>4, <1>10, <1>11, <1>12

(* If the nearest point of an edge's line is off the edge, by p d < y k,   *)
(* then the edge next to it is nearer.                                     *)
LEMMA NextIsNearer ==
  ASSUME NEW p \in Nat, NEW y \in Nat, NEW d \in Nat, d > 0, NEW u \in Nat, NEW k \in Int,
         Square(k) <= u * d, p * d < y * k
  PROVE  ~(y * y * u <= p * p * d)
<1> SUFFICES ASSUME y * y * u <= p * p * d PROVE FALSE
  OBVIOUS
<1> DEFINE x == p * d
           z == y * k
           yy == y * y
           kk == Square(k)
           ud == u * d
           l == y * y * u
           r == p * p * d
<1>1. x \in Nat /\ z \in Int /\ x < z
  OBVIOUS
<1>2. yy \in Nat /\ kk \in Nat /\ ud \in Nat /\ l \in Nat /\ r \in Nat /\ kk <= ud /\ l <= r
  BY SquareType DEF Square
<1>3. x * x = d * r /\ z * z = yy * kk /\ yy * ud = d * l
  BY DEF Square
<1> HIDE DEF x, z, yy, kk, ud, l, r
<1>4. x * x < z * z
  <2>1. x * x < x * z \/ x = 0
    BY <1>1
  <2>2. x * z <= z * z /\ z * z > 0
    BY <1>1
  <2>3. x * x \in Int /\ x * z \in Int /\ z * z \in Int
    BY <1>1
  <2>4. QED
    BY <2>1, <2>2, <2>3
<1>5. yy * kk <= yy * ud
  BY <1>2, ProductMono
<1>6. d * l <= d * r
  BY <1>2, ProductMono
<1>7. /\ x * x \in Int /\ z * z \in Int /\ yy * kk \in Int /\ yy * ud \in Int
      /\ d * l \in Int /\ d * r \in Int
  BY <1>1, <1>2
<1>8. QED
  BY <1>3, <1>4, <1>5, <1>6, <1>7

(* The nearest point of the nearest edge is not beyond the corner where it *)
(* starts ...                                                              *)
LEMMA NotBeforeStart ==
  ASSUME NEW s \in Plane, NEW t \in Plane, s # t, NEW centre \in Plane, Cross(s, t, centre) >= 0,
         NEW o \in Plane, o # s, Cross(o, s, t) > 0,
         ~Less(SignedDistance(o, s, centre), SignedDistance(s, t, centre))
  PROVE  Advance(s, t, centre) >= 0
<1> DEFINE ux == s.x - o.x
           uy == s.y - o.y
           vx == t.x - s.x
           vy == t.y - s.y
           wx == centre.x - s.x
           wy == centre.y - s.y
           c == Cross(o, s, t)
           p == Cross(o, s, centre)
           y == Cross(s, t, centre)
           d == Dist2(s, t)
           u == Dist2(o, s)
           w == Advance(s, t, centre)
           k == Dot(ux, uy, vx, vy)
<1>1. /\ s.x \in Int /\ s.y \in Int /\ t.x \in Int /\ t.y \in Int
      /\ centre.x \in Int /\ centre.y \in Int /\ o.x \in Int /\ o.y \in Int
  BY DEF Plane
<1>2. /\ ux \in Int /\ uy \in Int /\ vx \in Int /\ vy \in Int /\ wx \in Int /\ wy \in Int
  BY <1>1
<1>3. c = Wedge(ux, uy, vx, vy) /\ p = Wedge(ux, uy, wx, wy) /\ y = Wedge(vx, vy, wx, wy)
  BY <1>1 DEF Cross, Wedge
<1>4. w = Dot(vx, vy, wx, wy)
  BY <1>1 DEF Advance, Dot
<1>5. d = Norm(vx, vy) /\ u = Norm(ux, uy) /\ d \in Nat /\ d > 0 /\ u \in Nat
  BY Dist2Is
<1>6. c \in Int /\ c > 0 /\ y \in Nat /\ p \in Int /\ w \in Int /\ k \in Int
  <2>1. c \in Int /\ c > 0 /\ y \in Nat /\ p \in Int
    BY CrossType
  <2>2. w \in Int /\ k \in Int
    BY <1>2, <1>4 DEF Dot
  <2>3. QED
    BY <2>1, <2>2
<1>7. ~Less([num |-> p, den |-> u], [num |-> y, den |-> d])
  BY SignedDistanceIs
<1> HIDE DEF ux, uy, vx, vy, wx, wy, c, p, y, d, u, w
<1>8. p >= 0 /\ y * y * u <= p * p * d
  BY <1>5, <1>6, <1>7, NotLess
<1>9. c * w = p * d - y * k
  BY <1>2, <1>3, <1>4, <1>5 DEF Wedge, Dot, Norm
<1>10. Square(k) <= u * d
  BY <1>2, <1>5, Lagrange
<1> HIDE DEF k
<1>11. ASSUME w < 0 PROVE FALSE
  <2>1. c * w < 0
    BY <1>6, <1>11
  <2>2. c * w \in Int /\ p * d \in Int /\ y * k \in Int
    BY <1>5, <1>6
  <2>3. p * d < y * k
    BY <1>9, <2>1, <2>2
  <2>4. p \in Nat
    BY <1>6, <1>8
  <2>5. QED
    BY <1>5, <1>6, <1>8, <1>10, <2>3, <2>4, NextIsNearer
<1>12. w >= 0
  BY <1>6, <1>11
<1>13. QED
  BY <1>12 DEF w

(* ... nor beyond the one where it ends.                                   *)
LEMMA NotBeyondEnd ==
  ASSUME NEW s \in Plane, NEW t \in Plane, s # t, NEW centre \in Plane, Cross(s, t, centre) >= 0,
         NEW o \in Plane, t # o, Cross(s, t, o) > 0,
         ~Less(SignedDistance(t, o, centre), SignedDistance(s, t, centre))
  PROVE  Advance(s, t, centre) <= Dist2(s, t)
<1> DEFINE ux == o.x - t.x
           uy == o.y - t.y
           vx == t.x - s.x
           vy == t.y - s.y
           wx == centre.x - t.x
           wy == centre.y - t.y
           c == Cross(s, t, o)
           p == Cross(t, o, centre)
           y == Cross(s, t, centre)
           d == Dist2(s, t)
           u == Dist2(t, o)
           w == Advance(s, t, centre) - d
           k == Dot(ux, uy, vx, vy)
<1>1. /\ s.x \in Int /\ s.y \in Int /\ t.x \in Int /\ t.y \in Int
      /\ centre.x \in Int /\ centre.y \in Int /\ o.x \in Int /\ o.y \in Int
  BY DEF Plane
<1>2. /\ ux \in Int /\ uy \in Int /\ vx \in Int /\ vy \in Int /\ wx \in Int /\ wy \in Int
  BY <1>1
<1>3. c = Wedge(vx, vy, ux, uy) /\ p = Wedge(ux, uy, wx, wy) /\ y = Wedge(vx, vy, wx, wy)
  BY <1>1 DEF Cross, Wedge
<1>4. w = Dot(vx, vy, wx, wy)
  BY <1>1 DEF Advance, Dot, Dist2, Square
<1>5. d = Norm(vx, vy) /\ u = Norm(ux, uy) /\ d \in Nat /\ d > 0 /\ u \in Nat
  BY Dist2Is
<1>6. c \in Int /\ c > 0 /\ y \in Nat /\ p \in Int /\ w \in Int /\ k \in Int
  <2>1. c \in Int /\ c > 0 /\ y \in Nat /\ p \in Int
    BY CrossType
  <2>2. w \in Int /\ k \in Int
    BY <1>2, <1>4 DEF Dot
  <2>3. QED
    BY <2>1, <2>2
<1>7. ~Less([num |-> p, den |-> u], [num |-> y, den |-> d])
  BY SignedDistanceIs
<1>8. Advance(s, t, centre) \in Int
  BY ClearanceIs
<1> HIDE DEF ux, uy, vx, vy, wx, wy, c, p, y, d, u, w
<1>9. p >= 0 /\ y * y * u <= p * p * d
  BY <1>5, <1>6, <1>7, NotLess
<1>10. c * w = y * k - p * d
  BY <1>2, <1>3, <1>4, <1>5 DEF Wedge, Dot, Norm
<1>11. Square(k) <= u * d
  BY <1>2, <1>5, Lagrange
<1> HIDE DEF k
<1>12. ASSUME w > 0 PROVE FALSE
  <2>1. c * w > 0
    BY <1>6, <1>12
  <2>2. c * w \in Int /\ p * d \in Int /\ y * k \in Int
    BY <1>5, <1>6
  <2>3. p * d < y * k
    BY <1>10, <2>1, <2>2
  <2>4. p \in Nat
    BY <1>6, <1>9
  <2>5. QED
    BY <1>5, <1>6, <1>9, <1>11, <2>3, <2>4, NextIsNearer
<1>13. w <= 0
  BY <1>6, <1>12
<1>14. QED
  BY <1>5, <1>8, <1>13 DEF w, d

(* So the margin is the distance to a side.                                *)
LEMMA NearestClear ==
  ASSUME NEW edges, NEW seen, Polygon(edges, seen), NEW centre \in Plane,
         NEW g, IsMargin(edges, centre, g), g.num >= 0
  PROVE  \E side \in SidesOf(seen) : AtMost(Clearance(side[1], side[2], centre), Squared(g))
<1>1. PICK e \in edges :
        /\ g = SignedDistance(e[1], e[2], centre)
        /\ \A f \in edges : ~Less(SignedDistance(f[1], f[2], centre), g)
  BY DEF IsMargin
<1> DEFINE s == e[1]
           t == e[2]
           y == Cross(s, t, centre)
           d == Dist2(s, t)
           w == Advance(s, t, centre)
           c == Clearance(s, t, centre)
<1>2. s \in Plane /\ t \in Plane /\ s # t
  BY DEF Polygon
<1>3. g.num = y /\ g.den = d /\ y \in Int /\ y >= 0 /\ d \in Nat /\ d > 0
  BY <1>1, <1>2, SignedDistanceIs
<1>4. w >= 0
  <2>1. PICK f \in edges : f[2] = s /\ Cross(f[1], f[2], t) > 0
    BY DEF Polygon
  <2>2. f[1] \in Plane /\ f[1] # s
    BY <2>1 DEF Polygon
  <2>3. ~Less(SignedDistance(f[1], s, centre), SignedDistance(s, t, centre))
    BY <1>1, <2>1
  <2> HIDE DEF s, t
  <2>4. QED
    BY <1>2, <1>3, <2>1, <2>2, <2>3, NotBeforeStart
<1>5. w <= d
  <2>1. PICK f \in edges : f[1] = t /\ Cross(s, t, f[2]) > 0
    BY DEF Polygon
  <2>2. f[2] \in Plane /\ t # f[2]
    BY <2>1 DEF Polygon
  <2>3. ~Less(SignedDistance(t, f[2], centre), SignedDistance(s, t, centre))
    BY <1>1, <2>1
  <2> HIDE DEF s, t
  <2>4. QED
    BY <1>2, <1>3, <2>1, <2>2, <2>3, NotBeyondEnd
<1>6. e \in SidesOf(seen)
  BY EdgesAreSides
<1> HIDE DEF s, t
<1>7. /\ w \in Int
      /\ w <= 0 => c = [num |-> Dist2(s, centre), den |-> 1]
      /\ w >= d => c = [num |-> Dist2(t, centre), den |-> 1]
      /\ ~(w <= 0) /\ ~(w >= d) => c = [num |-> Square(y), den |-> d]
  BY <1>2, ClearanceIs
<1>8. /\ d * Dist2(s, centre) = Square(y) + Square(w)
      /\ d * Dist2(t, centre) = Square(y) + Square(w - d)
      /\ Dist2(s, centre) \in Nat /\ Dist2(t, centre) \in Nat
  BY <1>2, Pythagoras, Dist2Is
<1>9. Squared(g) = [num |-> Square(y), den |-> d] /\ Square(y) \in Nat
  BY <1>3, SquareType DEF Squared, Square
<1> HIDE DEF y, d, w, c
<1>10. ASSUME NEW r \in Nat, d * r = Square(y) + Square(0)
       PROVE  AtMost([num |-> r, den |-> 1], [num |-> Square(y), den |-> d])
  <2>1. r * d = Square(y) * 1
    BY <1>3, <1>9, <1>10 DEF Square
  <2>2. Square(y) * 1 <= Square(y) * 1
    BY <1>9
  <2>3. QED
    BY <2>1, <2>2 DEF AtMost
<1>11. CASE w = 0
  <2>1. c = [num |-> Dist2(s, centre), den |-> 1]
    BY <1>7, <1>11
  <2>2. AtMost(c, Squared(g))
    BY <1>8, <1>9, <1>10, <1>11, <2>1
  <2>3. QED
    BY <1>6, <2>2 DEF c, s, t
<1>12. CASE w = d
  <2>1. c = [num |-> Dist2(t, centre), den |-> 1]
    BY <1>3, <1>7, <1>12
  <2>2. w - d = 0
    BY <1>3, <1>12
  <2>3. AtMost(c, Squared(g))
    BY <1>8, <1>9, <1>10, <2>1, <2>2
  <2>4. QED
    BY <1>6, <2>3 DEF c, s, t
<1>13. CASE w # 0 /\ w # d
  <2>1. c = [num |-> Square(y), den |-> d]
    BY <1>3, <1>4, <1>5, <1>7, <1>13
  <2>2. AtMost(c, Squared(g))
    BY <1>3, <1>9, <2>1 DEF AtMost
  <2>3. QED
    BY <1>6, <2>2 DEF c, s, t
<1>14. QED
  BY <1>11, <1>12, <1>13

LEMMA MarginClear ==
  ASSUME NEW edges, NEW seen, Polygon(edges, seen), NEW centre \in Plane,
         NEW g, IsMargin(edges, centre, g), NEW side \in SidesOf(seen)
  PROVE  AtMost(Squared(g), Clearance(side[1], side[2], centre))
<1> DEFINE a == side[1]
           b == side[2]
<1>1. seen \subseteq Plane
  BY DEF Polygon
<1>2. /\ a \in Plane /\ b \in Plane /\ a # b /\ a \in seen /\ b \in seen
      /\ \A q \in seen : Cross(a, b, q) >= 0
  BY <1>1, SideIs
<1> HIDE DEF a, b
<1>3. PICK e \in edges :
        /\ e[1] \in Plane /\ e[2] \in Plane /\ e[1] # e[2]
        /\ g.num = Cross(e[1], e[2], centre) /\ g.den = Dist2(e[1], e[2])
        /\ g.num \in Int /\ g.den \in Nat /\ g.den > 0
  BY MarginEdge
<1>4. Squared(g) = [num |-> g.num * g.num, den |-> g.den]
  BY DEF Squared, Square
<1>5. CASE g.num >= 0
  <2> DEFINE m == g.num * g.num
             d == g.den
  <2>1. Clear(a, b, centre, m, d)
    BY <1>2, <1>5, MarginLine
  <2>2. m \in Nat /\ d \in Nat /\ d > 0
    BY <1>3, SquareType
  <2> HIDE DEF m, d
  <2>3. AtMost([num |-> m, den |-> d], Clearance(a, b, centre))
    BY <1>2, <2>1, <2>2, InsideClear
  <2>4. QED
    BY <1>4, <2>3 DEF m, d, a, b
<1>6. CASE g.num < 0
  <2> DEFINE s == e[1]
             t == e[2]
  <2>1. s \in Plane /\ t \in Plane /\ s # t /\ Cross(s, t, centre) < 0
    BY <1>3, <1>6
  <2>2. Cross(s, t, a) >= 0 /\ Cross(s, t, b) >= 0
    BY <1>2 DEF Polygon
  <2>3. Squared(g) = [num |-> Square(Cross(s, t, centre)), den |-> Dist2(s, t)]
    BY <1>3, <1>4 DEF Square
  <2> HIDE DEF s, t
  <2>4. AtMost([num |-> Square(Cross(s, t, centre)), den |-> Dist2(s, t)], Clearance(a, b, centre))
    BY <1>2, <2>1, <2>2, OutsideClear
  <2>5. QED
    BY <2>3, <2>4 DEF a, b
<1>7. QED
  BY <1>3, <1>5, <1>6

-----------------------------------------------------------------------------
(* The planner *)

(* The margin is always that of the feet on the ground. *)
Planned ==
  /\ feet \in [Legs -> Ground]
  /\ com \in Ground
  /\ supporting \in Seq(Legs \cup {LegCount})
  /\ margin = StabilityMargin(com, feet, supporting)

LEMMA PlannedInvariant == Spec => []Planned
<1>1. Init => Planned
  BY EmptySeq DEF Init, Planned
<1>2. Planned /\ [Next]_vars => Planned'
  <2> SUFFICES ASSUME Planned, [Next]_vars PROVE Planned'
    OBVIOUS
  <2>1. ASSUME NEW leg \in Legs \cup {LegCount}, PutDown(leg) PROVE Planned'
    <3>1. Append(supporting, leg) \in Seq(Legs \cup {LegCount})
      BY AppendProperties DEF Planned
    <3>2. QED
      BY <2>1, <3>1 DEF Planned, PutDown
  <2>2. CASE Stand
    BY <2>2, EmptySeq DEF Planned, Stand
  <2>3. CASE UNCHANGED vars
    BY <2>3 DEF Planned, vars
  <2>4. QED
    BY <2>1, <2>2, <2>3 DEF Next
<1>3. QED
  BY <1>1, <1>2, PTL DEF Spec

LEMMA PlannedPoints ==
  ASSUME Planned
  PROVE  /\ feet \in [Legs -> Plane] /\ com \in Plane
         /\ supporting \in Seq(Legs \cup {LegCount})
         /\ Footing = Feet(feet, supporting)
         /\ Enclosing <=> Encloses(Footing)
         /\ Sides = SidesOf(Footing)
         /\ Footing \subseteq Plane
<1>1. Ground \subseteq Plane
  BY GroundAssumption DEF Plane
<1>2. feet \in [Legs -> Plane] /\ com \in Plane /\ supporting \in Seq(Legs \cup {LegCount})
  BY <1>1 DEF Planned
<1>3. /\ Footing = Feet(feet, supporting)
      /\ Enclosing <=> Encloses(Footing)
      /\ Sides = SidesOf(Footing)
  BY DEF Footing, Feet, Enclosing, Encloses, Sides, SidesOf
<1>4. Footing \subseteq Plane
  BY <1>2 DEF Footing
<1>5. QED
  BY <1>2, <1>3, <1>4

(* Whether the margin is none, or that of a polygon.                       *)
LEMMA PlannedMargin ==
  ASSUME Planned
  PROVE  IF LegCount \in ToSet(supporting) \/ ~Enclosing
         THEN margin = NoSupport
         ELSE \E edges : Polygon(edges, Footing) /\ IsMargin(edges, com, margin)
<1>1. /\ feet \in [Legs -> Plane] /\ com \in Plane
      /\ supporting \in Seq(Legs \cup {LegCount})
      /\ Footing = Feet(feet, supporting)
      /\ Enclosing <=> Encloses(Footing)
  BY PlannedPoints
<1>2. margin = StabilityMargin(com, feet, supporting)
  BY DEF Planned
<1>3. QED
  BY <1>1, <1>2, MarginIs

(* For every number of legs, wherever they stand: StabilityMargin says no  *)
(* support exactly when an index is wrong or the feet enclose no area, and *)
(* its sign says on which side of the polygon's boundary the centre of     *)
(* mass is, whatever the order and however many feet coincide.             *)
THEOREM PolygonSign == Spec => []SignIsStability
<1>1. Planned => SignIsStability
  <2> SUFFICES ASSUME Planned PROVE SignIsStability
    OBVIOUS
  <2>1. com \in Plane /\ Sides = SidesOf(Footing)
    BY PlannedPoints
  <2>2. CASE LegCount \in ToSet(supporting) \/ ~Enclosing
    <3>1. margin = NoSupport
      BY <2>2, PlannedMargin
    <3>2. QED
      BY <2>2, <3>1 DEF SignIsStability
  <2>3. CASE ~(LegCount \in ToSet(supporting) \/ ~Enclosing)
    <3>1. PICK edges : Polygon(edges, Footing) /\ IsMargin(edges, com, margin)
      BY <2>3, PlannedMargin
    <3>2. /\ margin # NoSupport /\ margin.den > 0
          /\ margin.num > 0
               <=> \A side \in SidesOf(Footing) : Cross(side[1], side[2], com) > 0
          /\ margin.num < 0
               <=> \E side \in SidesOf(Footing) : Cross(side[1], side[2], com) < 0
      BY <2>1, <3>1, MarginSign
    <3>3. QED
      BY <2>1, <2>3, <3>2 DEF SignIsStability
  <2>4. QED
    BY <2>2, <2>3
<1>2. QED
  BY <1>1, PlannedInvariant, PTL

(* Inside the polygon the margin is the distance to its boundary; outside  *)
(* the boundary is at least that far away.                                 *)
THEOREM PolygonClearance == Spec => []MarginIsClearance
<1>1. Planned => MarginIsClearance
  <2> SUFFICES ASSUME Planned, margin # NoSupport
               PROVE  /\ \A c \in Clearances : AtMost(Squared(margin), c)
                      /\ margin.num >= 0 => \E c \in Clearances : AtMost(c, Squared(margin))
    BY DEF MarginIsClearance
  <2>1. com \in Plane /\ Sides = SidesOf(Footing)
    BY PlannedPoints
  <2>2. PICK edges : Polygon(edges, Footing) /\ IsMargin(edges, com, margin)
    BY PlannedMargin
  <2>3. Clearances = {Clearance(side[1], side[2], com) : side \in SidesOf(Footing)}
    BY <2>1 DEF Clearances
  <2>4. \A side \in SidesOf(Footing) : AtMost(Squared(margin), Clearance(side[1], side[2], com))
    BY <2>1, <2>2, MarginClear
  <2>5. margin.num >= 0 =>
          \E side \in SidesOf(Footing) : AtMost(Clearance(side[1], side[2], com), Squared(margin))
    BY <2>1, <2>2, NearestClear
  <2>6. QED
    BY <2>3, <2>4, <2>5
<1>2. QED
  BY <1>1, PlannedInvariant, PTL

(* Whoever stands stably does not stand less stably with another foot on   *)
(* the ground, wherever it is put.                                         *)
THEOREM PolygonAnotherFoot == Spec => AnotherFootHelps
<1>1. Planned /\ Planned' /\ [Next]_vars =>
        [\A leg \in Legs : PutDown(leg) /\ margin.num > 0 => ~Less(margin', margin)]_vars
  <2> SUFFICES ASSUME Planned, Planned',
                      NEW leg \in Legs, PutDown(leg), margin.num > 0
               PROVE  ~Less(margin', margin)
    OBVIOUS
  <2>1. com \in Plane /\ com' = com /\ feet' = feet /\ feet \in [Legs -> Plane]
    BY PlannedPoints DEF PutDown
  <2>2. margin # NoSupport
    BY DEF NoSupport
  <2>3. LegCount \notin ToSet(supporting) /\ Enclosing
    BY <2>2, PlannedMargin
  <2>4. PICK edges : Polygon(edges, Footing) /\ IsMargin(edges, com, margin)
    BY <2>3, PlannedMargin
  <2>5. ToSet(supporting') = ToSet(supporting) \cup {leg}
    <3>1. /\ supporting \in Seq(Legs \cup {LegCount})
          /\ supporting' = Append(supporting, leg)
          /\ Len(supporting) \in Nat
      BY DEF Planned, PutDown
    <3>2. /\ supporting' \in Seq(Legs \cup {LegCount})
          /\ Len(supporting') = Len(supporting) + 1
          /\ \A i \in 1 .. Len(supporting) : supporting'[i] = supporting[i]
          /\ supporting'[Len(supporting) + 1] = leg
      BY <3>1, AppendProperties
    <3>3. /\ ToSet(supporting) = {supporting[i] : i \in 1 .. Len(supporting)}
          /\ ToSet(supporting') = {supporting'[i] : i \in 1 .. Len(supporting')}
      <4>1. ToSet(supporting) = {supporting[i] : i \in 1 .. Len(supporting)}
        BY <3>1, ToSetIs
      <4> DEFINE more == supporting'
      <4>2. more \in Seq(Legs \cup {LegCount})
        BY <3>2
      <4> HIDE DEF more
      <4>3. ToSet(more) = {more[i] : i \in 1 .. Len(more)}
        BY <4>2, ToSetIs
      <4>4. QED
        BY <4>1, <4>3 DEF more
    <3>4. /\ \A i \in 1 .. Len(supporting') :
               i \in 1 .. Len(supporting) \/ i = Len(supporting) + 1
          /\ \A i \in 1 .. Len(supporting) : i \in 1 .. Len(supporting')
          /\ Len(supporting) + 1 \in 1 .. Len(supporting')
      BY <3>1, <3>2
    <3>5. \A q \in ToSet(supporting') : q \in ToSet(supporting) \cup {leg}
      BY <3>2, <3>3, <3>4
    <3>6. \A q \in ToSet(supporting) : q \in ToSet(supporting')
      BY <3>2, <3>3, <3>4
    <3>7. leg \in ToSet(supporting')
      BY <3>2, <3>3, <3>4
    <3>8. QED
      BY <3>5, <3>6, <3>7
  <2>6. LegCount \notin ToSet(supporting')
    <3>1. leg # LegCount
      BY GroundAssumption DEF Legs
    <3>2. QED
      BY <2>3, <2>5, <3>1
  <2>7. Footing \subseteq Footing'
    BY <2>1, <2>5 DEF Footing
  <2>8. Enclosing'
    BY <2>3, <2>7 DEF Enclosing
  <2>9. PICK wider : Polygon(wider, Footing') /\ IsMargin(wider, com, margin')
    <3> DEFINE more == supporting'
    <3>1. /\ more \in Seq(Legs \cup {LegCount})
          /\ margin' = StabilityMargin(com, feet, more)
          /\ LegCount \notin ToSet(more)
      BY <2>6 DEF Planned, PutDown
    <3>2. /\ Footing' = Feet(feet, more)
          /\ Encloses(Feet(feet, more))
      BY <2>1, <2>8 DEF Footing, Feet, Enclosing, Encloses
    <3> HIDE DEF more
    <3>3. \E edges_1 : /\ Polygon(edges_1, Feet(feet, more))
                       /\ IsMargin(edges_1, com, StabilityMargin(com, feet, more))
      BY <2>1, <3>1, <3>2, MarginIs
    <3>4. QED
      BY <3>1, <3>2, <3>3
  <2>10. QED
    BY <2>1, <2>4, <2>7, <2>9, MarginGrows
<1>2. QED
  BY <1>1, PlannedInvariant, PTL DEF Spec, AnotherFootHelps

=============================================================================
