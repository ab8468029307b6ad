--------------------------- MODULE SupportPolygon ---------------------------
(***************************************************************************)
(* hexapod_model/src/model.cc: how far the centre of mass sits inside the  *)
(* polygon of the feet that carry load.                                    *)
(*                                                                         *)
(* StabilityMargin is a pure function; here a planner puts one foot down   *)
(* after the other and asks for the margin each time, so that the feet     *)
(* come in every order.  Coordinates are integers and the arithmetic is    *)
(* exact: rounding in the code's doubles is left out.                      *)
(***************************************************************************)
EXTENDS Integers, SequencesExt

CONSTANTS
  LegCount,    \* kLegCount
  Ground       \* points of the ground plane, as records of x and y

ASSUME GroundAssumption ==
  /\ LegCount \in Nat \ {0}
  /\ Ground \subseteq [x : Int, y : Int]

VARIABLES
  feet,         \* feet_world, flattened: leg |-> point
  com,          \* com_world, flattened
  supporting,   \* the span of indices the caller passes
  margin        \* what StabilityMargin returned

vars == <<feet, com, supporting, margin>>

Legs == 0 .. LegCount - 1

-----------------------------------------------------------------------------
(* Points and lines *)

(* Positive when second lies to the left of the line origin -> first. *)
Cross(origin, first, second) ==
  (first.x - origin.x) * (second.y - origin.y)
    - (first.y - origin.y) * (second.x - origin.x)

Before(lhs, rhs) == lhs.x < rhs.x \/ (lhs.x = rhs.x /\ lhs.y < rhs.y)

Square(n) == n * n

Dist2(a, b) == Square(b.x - a.x) + Square(b.y - a.y)

(* A signed distance is num / sqrt(den), which keeps it exact; -infinity   *)
(* and +infinity have a denominator of zero.                               *)
NoSupport == [num |-> -1, den |-> 0]
Unbounded == [num |-> 1, den |-> 0]

SignedSquare(n) == IF n < 0 THEN -Square(n) ELSE Square(n)

Less(d, e) == SignedSquare(d.num) * e.den < SignedSquare(e.num) * d.den

(* What std::min leaves when all have gone through it. *)
Smallest(distances) == CHOOSE d \in distances : \A e \in distances : ~Less(e, d)

-----------------------------------------------------------------------------
(* ConvexHull: Andrew's monotone chain *)

(* A point goes behind all that do not come after it. *)
Inserted(sorted, point) ==
  InsertAt(sorted,
           CHOOSE k \in 1 .. Len(sorted) + 1 :
             \A i \in 1 .. Len(sorted) : i < k <=> ~Before(point, sorted[i]),
           point)

(* Points that are neither before nor after each other are the same: every *)
(* algorithm that sorts leaves this.                                       *)
Sorted(points) ==
  LET placed[i \in 0 .. Len(points)] ==
        IF i = 0 THEN <<>> ELSE Inserted(placed[i - 1], points[i])
  IN  placed[Len(points)]

(* Mutant: a point on the line of the last two does not pop them. *)
PoppedStrictly(hull, point, least) ==
  LET Stays(n) == n < least \/ Cross(hull[n - 1], hull[n], point) >= 0
  IN  SubSeq(hull, 1,
             CHOOSE n \in 0 .. Len(hull) :
               Stays(n) /\ \A m \in n + 1 .. Len(hull) : ~Stays(m))

(* The inner while loops: points are dropped from the end until two remain *)
(* that turn left towards the new one, or fewer than least are there.      *)
Popped(hull, point, least) ==
  LET Stays(n) == n < least \/ Cross(hull[n - 1], hull[n], point) > 0
  IN  SubSeq(hull, 1,
             CHOOSE n \in 0 .. Len(hull) :
               Stays(n) /\ \A m \in n + 1 .. Len(hull) : ~Stays(m))

Chain(hull, points, least) ==
  LET grown[i \in 0 .. Len(points)] ==
        IF i = 0 THEN hull
        ELSE Append(Popped(grown[i - 1], points[i], least), points[i])
  IN  grown[Len(points)]

(* The upper chain starts on the lower one's last point and ends on its    *)
(* first, which is then dropped.                                           *)
ConvexHull(points) ==
  LET sorted == Sorted(points)
      lower == Chain(<<>>, sorted, 2)
  IN  Front(Chain(lower, Reverse(Front(sorted)), Len(lower) + 1))

-----------------------------------------------------------------------------
(* StabilityMargin *)

(* Mutant: the cross product is not divided by the length of the edge. *)
SignedDistanceUnscaled(from, next, centre) ==
  [num |-> Cross(from, next, centre), den |-> 1]

SignedDistance(from, next, centre) ==
  [num |-> Cross(from, next, centre), den |-> Dist2(from, next)]

(* Mutant: the edge from the last vertex back to the first is forgotten. *)
EdgesUnclosed(hull) == {<<hull[i], hull[i + 1]>> : i \in 1 .. Len(hull) - 1}

Edges(hull) ==
  {<<hull[i], hull[(i % Len(hull)) + 1]>> : i \in 1 .. Len(hull)}

(* Fewer than three feet, an index that is no leg, or feet that enclose no *)
(* area are no support at all.  Edges without length are passed over.      *)
StabilityMargin(centre, world, legs) ==
  IF Len(legs) < 3 \/ \E i \in 1 .. Len(legs) : legs[i] \notin Legs
  THEN NoSupport
  ELSE LET hull == ConvexHull([i \in 1 .. Len(legs) |-> world[legs[i]]])
           distances == { SignedDistance(e[1], e[2], centre) :
                            e \in {f \in Edges(hull) : f[1] # f[2]} }
       IN  IF Len(hull) < 3 THEN NoSupport
           ELSE Smallest({Unbounded} \cup distances)

-----------------------------------------------------------------------------
(* The planner *)

Init ==
  /\ feet \in [Legs -> Ground]
  /\ com \in Ground
  /\ supporting = <<>>
  /\ margin = StabilityMargin(com, feet, supporting)

(* The index LegCount stands for one that is out of range. *)
PutDown(leg) ==
  /\ leg \notin ToSet(supporting)
  /\ supporting' = Append(supporting, leg)
  /\ margin' = StabilityMargin(com, feet, supporting')
  /\ UNCHANGED <<feet, com>>

Stand ==
  /\ supporting # <<>>
  /\ supporting' = <<>>
  /\ margin' = StabilityMargin(com, feet, supporting')
  /\ UNCHANGED <<feet, com>>

Next == Stand \/ \E leg \in Legs \cup {LegCount} : PutDown(leg)

Spec == Init /\ [][Next]_vars

-----------------------------------------------------------------------------
(* Properties *)

Footing == {feet[leg] : leg \in ToSet(supporting) \cap Legs}

(* The lines through two feet that have every foot on them or to their     *)
(* left.                                                                   *)
Sides == { side \in Footing \X Footing :
             /\ side[1] # side[2]
             /\ \A foot \in Footing : Cross(side[1], side[2], foot) >= 0 }

Enclosing ==
  \E a, b, c \in Footing : Cross(a, b, c) # 0

(* The square of the distance from p to the segment a -- b, as a fraction. *)
Clearance(a, b, p) ==
  LET along == (p.x - a.x) * (b.x - a.x) + (p.y - a.y) * (b.y - a.y)
  IN  CASE along <= 0 -> [num |-> Dist2(a, p), den |-> 1]
        [] along >= Dist2(a, b) -> [num |-> Dist2(b, p), den |-> 1]
        [] OTHER -> [num |-> Square(Cross(a, b, p)), den |-> Dist2(a, b)]

Clearances == {Clearance(side[1], side[2], com) : side \in Sides}

AtMost(c, d) == c.num * d.den <= d.num * c.den

Squared(d) == [num |-> Square(d.num), den |-> d.den]

(* The margin's sign answers "is it stable" (model.h:125-135): no support  *)
(* exactly when an index is wrong or the feet enclose no area, positive    *)
(* exactly when the centre of mass is to the left of every side, whatever  *)
(* the order in which the feet are listed and however many coincide.       *)
SignIsStability ==
  /\ margin = NoSupport <=> LegCount \in ToSet(supporting) \/ ~Enclosing
  /\ margin # NoSupport =>
       /\ margin.den > 0
       /\ margin.num > 0
            <=> \A side \in Sides : Cross(side[1], side[2], com) > 0
       /\ margin.num < 0
            <=> \E side \in Sides : Cross(side[1], side[2], com) < 0

(* Inside the polygon the margin is the distance to the nearest point of   *)
(* its boundary; outside, the centre of mass is at least that far away.    *)
MarginIsClearance ==
  margin # NoSupport =>
    /\ \A c \in Clearances : AtMost(Squared(margin), c)
    /\ margin.num >= 0 => \E c \in Clearances : AtMost(c, Squared(margin))

(* A robot that stands stably does not stand less stably with another foot *)
(* on the ground: model.cc computes the margin over the hull, so an edge   *)
(* that now lies inside no longer counts.                                  *)
AnotherFootHelps ==
  [][ \A leg \in Legs :
        PutDown(leg) /\ margin.num > 0 => ~Less(margin', margin) ]_vars

=============================================================================
