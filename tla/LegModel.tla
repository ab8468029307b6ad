------------------------------ MODULE LegModel ------------------------------
(***************************************************************************)
(* hexapod_model/src/leg_model.cc: the kinematics of one leg, a coxa that  *)
(* yaws and carries an arm of two links in a plane.                        *)
(*                                                                         *)
(* The arithmetic is exact.  An angle is its direction, a point with       *)
(* rational coordinates on the unit circle; adding angles multiplies the   *)
(* directions as complex numbers, and WrapToPi is what forgetting whole    *)
(* turns does.  Lengths are integers.  A target whose square roots are     *)
(* not rational cannot be expressed; rounding is left out.                 *)
(***************************************************************************)
EXTENDS Integers, Sequences

gcd[p \in Nat \X Nat] ==
  IF p[2] = 0 THEN p[1] ELSE gcd[<<p[2], p[1] % p[2]>>]

Abs(n) == IF n < 0 THEN -n ELSE n

Common(a, b) == gcd[<<Abs(a), Abs(b)>>]

(* The integer square root, two bits at a time. *)
Root[n \in Nat] ==
  IF n = 0 THEN 0
  ELSE LET half == 2 * Root[n \div 4]
       IN  IF (half + 1) * (half + 1) <= n THEN half + 1 ELSE half

-----------------------------------------------------------------------------
(* Angles *)

(* The shortest vector of integers this way; atan2 of no way at all is 0.  *)
Primitive(x, y) ==
  LET g == Common(x, y)
  IN  IF g = 0 THEN <<1, 0>> ELSE <<x \div g, y \div g>>

(* atan2(y, x) *)
Direction(x, y) ==
  LET v == Primitive(x, y)
  IN  [x |-> v[1], y |-> v[2], r |-> Root[v[1] * v[1] + v[2] * v[2]]]

(* atan2(to.y, to.x) - atan2(from.y, from.x), where only the difference is *)
(* sure to have a rational direction.                                      *)
Between(from, to) ==
  LET v == Primitive(from[1], from[2])
      w == Primitive(to[1], to[2])
  IN  Direction(v[1] * w[1] + v[2] * w[2], v[1] * w[2] - v[2] * w[1])

NoTurn == Direction(1, 0)

Angles ==
  {a \in [x : Int, y : Int, r : Nat \ {0}] :
     a.x * a.x + a.y * a.y = a.r * a.r /\ Common(a.x, a.y) = 1}

Plus(a, b) == Direction(a.x * b.x - a.y * b.y, a.x * b.y + a.y * b.x)
Opposite(a) == [a EXCEPT !.y = -a.y]
Minus(a, b) == Plus(a, Opposite(b))

(* An angle times a sign convention, which is 1 or -1. *)
Signed(sigma, a) == IF sigma < 0 THEN Opposite(a) ELSE a

(* The order of the angles in (-pi, pi]. *)
AtMostAngle(a, b) ==
  CASE a.y < 0 /\ b.y >= 0 -> TRUE
    [] a.y >= 0 /\ b.y < 0 -> FALSE
    [] a.y < 0 /\ b.y < 0 -> a.x * b.r <= b.x * a.r
    [] OTHER -> a.x * b.r >= b.x * a.r

-----------------------------------------------------------------------------
(* Points with rational coordinates: v over d, in lowest terms *)

Point(v, d) ==
  LET g == Common(Common(v[1], v[2]), Common(v[3], d))
  IN  [v |-> <<v[1] \div g, v[2] \div g, v[3] \div g>>, d |-> d \div g]

Points ==
  {p \in [v : Int \X Int \X Int, d : Nat \ {0}] : p = Point(p.v, p.d)}

Origin == Point(<<0, 0, 0>>, 1)

-----------------------------------------------------------------------------
(* LegGeometry *)

SigmaFemur == -1
SigmaTibia == -1

(* A LegGeometry{} nobody has filled in. *)
NoGeometry ==
  [coxa_length |-> 0, femur_length |-> 0, tibia_length |-> 0,
   lateral_offset |-> 0, tibia_offset |-> NoTurn, sigma_coxa |-> 0,
   joint_min |-> NoTurn, joint_max |-> NoTurn]

IsUsable(geometry) ==
  /\ geometry.femur_length > 0
  /\ geometry.tibia_length > 0
  /\ geometry.sigma_coxa \in {1, -1}
  /\ ~AtMostAngle(geometry.joint_max, geometry.joint_min)

(* Joints are triples: coxa, femur, tibia. *)
ToLegAngles(geometry, joints) ==
  LET femur == Signed(SigmaFemur, joints[2])
  IN  [coxa  |-> Signed(geometry.sigma_coxa, joints[1]),
       femur |-> femur,
       tibia |-> Plus(Plus(femur, Signed(SigmaTibia, joints[3])),
                      geometry.tibia_offset)]

WithinLimits(geometry, joints) ==
  \A i \in 1 .. 3 : /\ AtMostAngle(geometry.joint_min, joints[i])
                    /\ AtMostAngle(joints[i], geometry.joint_max)

-----------------------------------------------------------------------------
(* Forwards *)

(* The arm in the plane of the leg, and what moves it; all over one        *)
(* denominator, den.                                                       *)
Arm(geometry, angles) ==
  LET f == geometry.femur_length * angles.tibia.r
      t == geometry.tibia_length * angles.femur.r
      den == angles.femur.r * angles.tibia.r
  IN  [den |-> den,
       reach |-> geometry.coxa_length * den + f * angles.femur.x + t * angles.tibia.x,
       height |-> f * angles.femur.y + t * angles.tibia.y,
       lateral |-> geometry.lateral_offset * den,
       tibiaAlong |-> t * angles.tibia.x,
       tibiaUp |-> t * angles.tibia.y]

(* A vector of the leg's plane, and one sideways to it, turned by the coxa. *)
Turned(coxa, along, side, up, den) ==
  Point(<<along * coxa.x - side * coxa.y, along * coxa.y + side * coxa.x, up * coxa.r>>,
        den * coxa.r)

ForwardKinematics(geometry, joints) ==
  LET angles == ToLegAngles(geometry, joints)
      arm == Arm(geometry, angles)
  IN  Turned(angles.coxa, arm.reach, arm.lateral, arm.height, arm.den)

(* Mutant: the femur's column takes the lever from the hip. *)
JacobianFromHip(geometry, joints) ==
  LET angles == ToLegAngles(geometry, joints)
      arm == Arm(geometry, angles)
  IN  << Turned(angles.coxa, -geometry.sigma_coxa * arm.lateral,
                geometry.sigma_coxa * arm.reach, 0, arm.den),
         Turned(angles.coxa, -SigmaFemur * arm.height, 0,
                SigmaFemur * arm.reach, arm.den),
         Turned(angles.coxa, -SigmaTibia * arm.tibiaUp, 0,
                SigmaTibia * arm.tibiaAlong, arm.den) >>

(* The columns of the Jacobian. *)
Jacobian(geometry, joints) ==
  LET angles == ToLegAngles(geometry, joints)
      arm == Arm(geometry, angles)
      linksAlong == arm.reach - geometry.coxa_length * arm.den
  IN  << Turned(angles.coxa, -geometry.sigma_coxa * arm.lateral,
                geometry.sigma_coxa * arm.reach, 0, arm.den),
         Turned(angles.coxa, -SigmaFemur * arm.height, 0,
                SigmaFemur * linksAlong, arm.den),
         Turned(angles.coxa, -SigmaTibia * arm.tibiaUp, 0,
                SigmaTibia * arm.tibiaAlong, arm.den) >>

-----------------------------------------------------------------------------
(* Backwards *)

Unreachable == [q |-> <<NoTurn, NoTurn, NoTurn>>, status |-> "Unreachable"]

(* Mutant: the other elbow. *)
InteriorPositive(p, q) ==
  LET v == Primitive(p, q)
  IN  Direction(v[1], Root[v[2] * v[2] - v[1] * v[1]])

(* The second link at an angle with this cosine, p / q, to the first.      *)
(* -acos: of the two elbows, the negative one.                             *)
Interior(p, q) ==
  LET v == Primitive(p, q)
  IN  Direction(v[1], -Root[v[2] * v[2] - v[1] * v[1]])

(* The joints that put the foot on the target.  Everything is over the     *)
(* target's denominator, d.                                                *)
InverseKinematics(geometry, target) ==
  LET d == target.d
      x == target.v[1]
      y == target.v[2]
      femur == geometry.femur_length
      tibia == geometry.tibia_length
      lateral == geometry.lateral_offset * d
      horizontal_squared == x * x + y * y
      reach == Root[horizontal_squared - lateral * lateral]
      planar == <<reach - geometry.coxa_length * d, target.v[3]>>
      distance_squared == planar[1] * planar[1] + planar[2] * planar[2]
      interior == Interior(distance_squared - (femur * femur + tibia * tibia) * d * d,
                           2 * femur * tibia * d * d)
      end == <<femur * interior.r + tibia * interior.x, tibia * interior.y>>
      q == << Signed(geometry.sigma_coxa, Between(<<reach, lateral>>, <<x, y>>)),
              Signed(SigmaFemur, Between(end, planar)),
              Signed(SigmaTibia, Minus(interior, geometry.tibia_offset)) >>
  IN  IF \/ ~IsUsable(geometry)
         \/ horizontal_squared < lateral * lateral
         \/ distance_squared > (femur + tibia) * (femur + tibia) * d * d
         \/ distance_squared < (femur - tibia) * (femur - tibia) * d * d
      THEN Unreachable
      ELSE [q |-> q, status |-> IF WithinLimits(geometry, q) THEN "Success"
                                ELSE "LimitViolation"]

-----------------------------------------------------------------------------
(* What can be expressed *)

(* Whether the leg is not folded back across the coxa's axis: only then do *)
(* the roots that the inverse kinematics take have whole values.           *)
Expressible(geometry, triple) ==
  Arm(geometry, ToLegAngles(geometry, triple)).reach >= 0

IsSquare(n) == Root[n] * Root[n] = n

(* The roots of a point of the hip frame, unless it is out of reach. *)
WholeRoots(geometry, point) ==
  LET d == point.d
      lateral == geometry.lateral_offset * d
      horizontal_squared == point.v[1] * point.v[1] + point.v[2] * point.v[2]
      square == horizontal_squared - lateral * lateral
      along == Root[square] - geometry.coxa_length * d
      distance_squared == along * along + point.v[3] * point.v[3]
      both == 2 * geometry.femur_length * geometry.tibia_length * d * d
      excess == distance_squared - (geometry.femur_length * geometry.femur_length
                                    + geometry.tibia_length * geometry.tibia_length) * d * d
  IN  square >= 0 =>
        /\ IsSquare(square)
        /\ excess \in -both .. both => IsSquare(both * both - excess * excess)

=============================================================================
