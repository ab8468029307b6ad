---------------------------- MODULE HexapodModel ----------------------------
(***************************************************************************)
(* The node of hexapod_model, which loads the legs' measurements from a    *)
(* Lua script (configuration_loader.cc, main.cc), and the model built of   *)
(* them (model.cc), which a planner asks for joints and feet.              *)
(*                                                                         *)
(* A script is what running it leaves behind: a Legs table, of which every *)
(* key may be missing, and numbers, which need not be finite.  An operator *)
(* mends what the node names before it starts the node again.              *)
(***************************************************************************)
EXTENDS LegModel

CONSTANTS
  Keys,        \* kLegKeys: the names of the legs, in LegIndex order
  Scripts,     \* scripts the node may be given
  Sound,       \* a complete script, which the operator copies from
  NotFinite,   \* a number that is not finite
  Nothing,     \* where there is no pose, triple or error
  Bodies,      \* where the body may be: integer position and quaternion
  Poses,       \* joint triples a planner tries, one for each leg
  Aims         \* points of the hip frame it asks a foot to go to

VARIABLES
  script,         \* legs_script, executed
  node,           \* down, spinning or failed
  error,          \* what the last failed start named: a leg and an item
  configuration,  \* HexapodModel::configuration_
  body,           \* the BodyPose in use
  tried,          \* the joints the planner took each foot's target from
  target,         \* feet_world
  joints,         \* *joints, as SolveJoints left them
  status,         \* *status
  ok              \* what SolveJoints returned

modelVars ==
  <<script, node, error, configuration, body, tried, target, joints, status, ok>>

LegIndices == 1 .. Len(Keys)

-----------------------------------------------------------------------------
(* Rotations, as integer matrices over d *)

Dot(a, b) == a[1] * b[1] + a[2] * b[2] + a[3] * b[3]

Rotated(rotation, point) ==
  Point([i \in 1 .. 3 |-> Dot(rotation.m[i], point.v)], rotation.d * point.d)

Transposed(rotation) ==
  [rotation EXCEPT !.m = [i \in 1 .. 3 |-> [j \in 1 .. 3 |-> rotation.m[j][i]]]]

Sum(p, q) == Point([i \in 1 .. 3 |-> p.v[i] * q.d + q.v[i] * p.d], p.d * q.d)
Difference(p, q) == Sum(p, [q EXCEPT !.v = [i \in 1 .. 3 |-> -q.v[i]]])

(* toRotationMatrix of a quaternion <<w, x, y, z>> divided by its norm. *)
RotationOf(quaternion) ==
  LET w == quaternion[1]
      x == quaternion[2]
      y == quaternion[3]
      z == quaternion[4]
  IN  [m |-> << <<w*w + x*x - y*y - z*z, 2 * (x*y - w*z), 2 * (x*z + w*y)>>,
                <<2 * (x*y + w*z), w*w - x*x + y*y - z*z, 2 * (y*z - w*x)>>,
                <<2 * (x*z - w*y), 2 * (y*z + w*x), w*w - x*x - y*y + z*z>> >>,
       d |-> w*w + x*x + y*y + z*z]

Conjugate(quaternion) ==
  <<quaternion[1], -quaternion[2], -quaternion[3], -quaternion[4]>>

WorldToBody(pose) == RotationOf(Conjugate(pose.orientation))

NoMount == [position |-> Origin, yaw |-> NoTurn]

MountRotation(yaw) ==
  [m |-> << <<yaw.x, -yaw.y, 0>>, <<yaw.y, yaw.x, 0>>, <<0, 0, yaw.r>> >>,
   d |-> yaw.r]

ToHip(mount, point) ==
  Rotated(Transposed(MountRotation(mount.yaw)), Difference(point, mount.position))

ToBody(mount, point) == Sum(Rotated(MountRotation(mount.yaw), point), mount.position)

ToWorld(pose, point) == Sum(pose.position, Rotated(RotationOf(pose.orientation), point))

-----------------------------------------------------------------------------
(* LoadRobotConfiguration *)

LengthFields ==
  {"coxa_length", "femur_length", "tibia_length", "lateral_offset", "sigma_coxa"}

AngleFields == {"tibia_offset", "joint_min", "joint_max"}

GeometryFields == LengthFields \cup AngleFields

MountFields == {"x", "y", "z", "yaw"}

NoNumber(table, field) ==
  field \notin DOMAIN table \/ table[field] = NotFinite

(* What is read of a leg, in this order, and when it throws if nothing has *)
(* thrown before.                                                          *)
LegItems ==
  <<"entry", "coxa_length", "femur_length", "tibia_length", "lateral_offset",
    "tibia_offset", "sigma_coxa", "joint_min", "joint_max", "geometry",
    "mount", "x", "y", "z", "yaw">>

Throws(legs, key, item) ==
  CASE item = "entry" -> key \notin DOMAIN legs
    [] item \in GeometryFields -> NoNumber(legs[key], item)
    [] item = "geometry" -> ~IsUsable(legs[key])
    [] item = "mount" -> "mount" \notin DOMAIN legs[key]
    [] item \in MountFields -> NoNumber(legs[key].mount, item)

(* The first of n steps to fail, of which one does. *)
FirstOf(n, Fails(_)) ==
  CHOOSE k \in 1 .. n : Fails(k) /\ \A l \in 1 .. k - 1 : ~Fails(l)

ItemThrows(leg, item) == Throws(script.legs, Keys[leg], LegItems[item])

LegThrows(leg) == \E item \in 1 .. Len(LegItems) : ItemThrows(leg, item)

FirstLeg == FirstOf(Len(Keys), LegThrows)

FirstItem(leg) ==
  LegItems[FirstOf(Len(LegItems), LAMBDA item : ItemThrows(leg, item))]

(* Mutant: the text names one field whichever it is. *)
ComplaintOfOneField ==
  IF script.result # "returned" \/ script.legs = Nothing THEN <<"script", "Legs">>
  ELSE IF \A leg \in LegIndices : ~LegThrows(leg) THEN Nothing
  ELSE <<Keys[FirstLeg],
         IF FirstItem(FirstLeg) \in GeometryFields THEN "coxa_length"
         ELSE FirstItem(FirstLeg)>>

(* All that it can be. *)
Complaints ==
  {<<"script", "Legs">>}
    \cup {<<Keys[leg], LegItems[item]>> : leg \in LegIndices, item \in 1 .. Len(LegItems)}

(* What the text of the exception names: one leg is read after the other,  *)
(* and the first item to throw ends it.                                    *)
Complaint ==
  IF script.result # "returned" \/ script.legs = Nothing THEN <<"script", "Legs">>
  ELSE IF \A leg \in LegIndices : ~LegThrows(leg) THEN Nothing
  ELSE <<Keys[FirstLeg], FirstItem(FirstLeg)>>

Loads == Complaint = Nothing

ReadLeg(leg) ==
  [geometry |-> [f \in GeometryFields |-> leg[f]],
   mount |-> [position |-> Point(<<leg.mount.x, leg.mount.y, leg.mount.z>>, 1),
              yaw |-> leg.mount.yaw]]

(* What a script puts where it puts a number. *)
Typed(table) ==
  \A field \in DOMAIN table :
    /\ field \in LengthFields \cup {"x", "y", "z"} =>
         table[field] \in Int \cup {NotFinite}
    /\ field \in AngleFields \cup {"yaw"} =>
         table[field] \in Angles \cup {NotFinite}

TypedScript(s) ==
  /\ {"result", "legs"} \subseteq DOMAIN s
  /\ s.result = "returned" /\ s.legs # Nothing =>
       \A key \in DOMAIN s.legs :
         /\ Typed(s.legs[key])
         /\ "mount" \in DOMAIN s.legs[key] => Typed(s.legs[key].mount)

ASSUME ModelAssumption ==
  /\ Keys \in Seq(STRING \ {"script"})
  /\ Nothing \notin BOOLEAN
  /\ Nothing \notin Complaints
  /\ \A s \in Scripts \cup {Sound} : TypedScript(s)
  /\ Sound.result = "returned"
  /\ Sound.legs # Nothing
  /\ \A leg \in LegIndices, item \in 1 .. Len(LegItems) :
       ~Throws(Sound.legs, Keys[leg], LegItems[item])
  /\ \A where \in Bodies :
       /\ where.position \in Points
       /\ where.orientation \in (Int \X Int \X Int \X Int) \ {<<0, 0, 0, 0>>}
  /\ Poses \subseteq [LegIndices -> Angles \X Angles \X Angles]
  /\ Aims \subseteq Points

Unconfigured == [leg \in LegIndices |-> [geometry |-> NoGeometry, mount |-> NoMount]]

-----------------------------------------------------------------------------
(* HexapodModel *)

FeetFromJoints(pose, triples) ==
  [leg \in LegIndices |->
     LET c == configuration[leg]
     IN  ToWorld(pose, ToBody(c.mount, ForwardKinematics(c.geometry, triples[leg])))]

(* SolveJoints, for one leg. *)
Solved(leg) ==
  LET c == configuration[leg]
      foot_body == Rotated(WorldToBody(body), Difference(target[leg], body.position))
  IN  InverseKinematics(c.geometry, ToHip(c.mount, foot_body))

-----------------------------------------------------------------------------
(* The node, and who mends its script *)

planVars == <<body, tried, target, joints, status, ok>>

ModelInit ==
  /\ script \in Scripts
  /\ node = "down"
  /\ error = Nothing
  /\ configuration = Unconfigured
  /\ body = Nothing /\ tried = Nothing /\ target = Nothing
  /\ joints = Nothing /\ status = Nothing /\ ok = Nothing

(* main(): the node spins with what it has loaded. *)
ComeUp ==
  /\ node = "down"
  /\ Loads
  /\ node' = "spinning"
  /\ configuration' = [leg \in LegIndices |-> ReadLeg(script.legs[Keys[leg]])]
  /\ UNCHANGED <<script, error, planVars>>

(* main(): the exception is reported, and 1 returned. *)
Fail ==
  /\ node = "down"
  /\ ~Loads
  /\ node' = "failed"
  /\ error' = Complaint
  /\ UNCHANGED <<script, configuration, planVars>>

Copied(from, fields, table) ==
  [f \in fields \cup DOMAIN table |-> IF f \in fields THEN from[f] ELSE table[f]]

(* The item as it is in the sound script. *)
Mended(leg, item, sound) ==
  CASE item = "mount" -> Copied(sound, {"mount"}, leg)
    [] item = "geometry" -> Copied(sound, GeometryFields, leg)
    [] item \in GeometryFields -> Copied(sound, {item}, leg)
    [] item \in MountFields -> [leg EXCEPT !.mount = Copied(sound.mount, {item}, @)]

Mend ==
  /\ node = "failed"
  /\ LET key == error[1]
         legs == script.legs
     IN  script' =
           IF key = "script" THEN Sound
           ELSE [script EXCEPT !.legs =
                   IF error[2] = "entry" THEN Copied(Sound.legs, {key}, legs)
                   ELSE [legs EXCEPT ![key] = Mended(@, error[2], Sound.legs[key])]]
  /\ node' = "down"
  /\ UNCHANGED <<error, configuration, planVars>>

-----------------------------------------------------------------------------
(* The planner *)

(* Targets that some joints reach... *)
Pose(where, triples) ==
  /\ node = "spinning"
  /\ target = Nothing
  /\ \A leg \in LegIndices : Expressible(configuration[leg].geometry, triples[leg])
  /\ body' = where
  /\ tried' = triples
  /\ target' = FeetFromJoints(where, triples)
  /\ UNCHANGED <<script, node, error, configuration, joints, status, ok>>

(* ... and one that perhaps none do, while the other feet are where they   *)
(* are with all joints at zero.                                            *)
Rest == [leg \in LegIndices |-> <<NoTurn, NoTurn, NoTurn>>]

Aim(where, leg, point) ==
  /\ node = "spinning"
  /\ target = Nothing
  /\ WholeRoots(configuration[leg].geometry, point)
  /\ \A other \in LegIndices \ {leg} :
       Expressible(configuration[other].geometry, Rest[other])
  /\ body' = where
  /\ tried' = [Rest EXCEPT ![leg] = Nothing]
  /\ target' = [FeetFromJoints(where, Rest) EXCEPT ![leg] =
                  ToWorld(where, ToBody(configuration[leg].mount, point))]
  /\ UNCHANGED <<script, node, error, configuration, joints, status, ok>>

(* Mutant: the return value is the last leg's. *)
SolveJointsLastLeg ==
  /\ target # Nothing
  /\ ok = Nothing
  /\ joints' = [leg \in LegIndices |-> Solved(leg).q]
  /\ status' = [leg \in LegIndices |-> Solved(leg).status]
  /\ ok' = (status'[Len(Keys)] = "Success")
  /\ UNCHANGED <<script, node, error, configuration, body, tried, target>>

SolveJoints ==
  /\ target # Nothing
  /\ ok = Nothing
  /\ joints' = [leg \in LegIndices |-> Solved(leg).q]
  /\ status' = [leg \in LegIndices |-> Solved(leg).status]
  /\ ok' = (\A leg \in LegIndices : status'[leg] = "Success")
  /\ UNCHANGED <<script, node, error, configuration, body, tried, target>>

(* A null pointer for the results. *)
SolveIntoNull ==
  /\ target # Nothing
  /\ ok = Nothing
  /\ ok' = FALSE
  /\ UNCHANGED <<script, node, error, configuration, body, tried, target, joints, status>>

Forget ==
  /\ ok # Nothing
  /\ body' = Nothing /\ tried' = Nothing /\ target' = Nothing
  /\ joints' = Nothing /\ status' = Nothing /\ ok' = Nothing
  /\ UNCHANGED <<script, node, error, configuration>>

ModelNext ==
  \/ ComeUp
  \/ Fail
  \/ Mend
  \/ \E where \in Bodies, triples \in Poses : Pose(where, triples)
  \/ \E where \in Bodies, leg \in LegIndices, point \in Aims : Aim(where, leg, point)
  \/ SolveJoints
  \/ SolveIntoNull
  \/ Forget

ModelSpec == ModelInit /\ [][ModelNext]_modelVars

-----------------------------------------------------------------------------
(* Properties *)

(* What the code asks of a leg: every number is there and a finite one,    *)
(* and the kinematics can use them (IsUsable).  This is the code's own     *)
(* notion: configuration_loader.h:35-37 asks for a coxa of positive length *)
(* too, which nobody looks at.                                             *)
Complete(leg) ==
  /\ GeometryFields \cup {"mount"} \subseteq DOMAIN leg
  /\ \A f \in GeometryFields : leg[f] # NotFinite
  /\ IsUsable(leg)
  /\ MountFields \subseteq DOMAIN leg.mount
  /\ \A f \in MountFields : leg.mount[f] # NotFinite

LegIsComplete(key) ==
  /\ script.result = "returned"
  /\ script.legs # Nothing
  /\ key \in DOMAIN script.legs
  /\ Complete(script.legs[key])

(* The node comes up with scripts only that are complete in the code's     *)
(* sense.  Of any other it names a leg that is not complete while all      *)
(* before that leg are; and whoever mends just what it names is never told *)
(* the same again.                                                         *)
NamesTheFault ==
  [][ /\ node = "down" /\ node' = "spinning" =>
           \A leg \in LegIndices : LegIsComplete(Keys[leg])
      /\ node = "down" /\ node' = "failed" =>
           /\ error' # error
           /\ error'[1] # "script" =>
                \E i \in LegIndices :
                  /\ Keys[i] = error'[1]
                  /\ ~LegIsComplete(Keys[i])
                  /\ \A j \in 1 .. i - 1 : LegIsComplete(Keys[j]) ]_modelVars

(* Whatever the branch, a foot that is not out of reach ends where it was  *)
(* asked to (leg_model.h:147), and if SolveJoints says that all is well    *)
(* every foot does, within the travel of every joint, so that              *)
(* FeetFromJoints is its inverse (model.h:117).                            *)
FeetLandOnTarget ==
  /\ joints # Nothing =>
       \A leg \in LegIndices :
         status[leg] # "Unreachable" =>
           FeetFromJoints(body, joints)[leg] = target[leg]
  /\ ok = TRUE =>
       /\ FeetFromJoints(body, joints) = target
       /\ \A leg \in LegIndices :
            WithinLimits(configuration[leg].geometry, joints[leg])

(* The branch of leg_model.h:135-145: the elbow bent the negative way, and *)
(* the foot on the outer side of the coxa axis.                            *)
OnBranch(geometry, triple) ==
  LET angles == ToLegAngles(geometry, triple)
  IN  /\ Minus(angles.tibia, angles.femur).y < 0
      /\ Arm(geometry, angles).reach > 0

(* On that branch the joints come back, and are called in or out of range  *)
(* by their own values, whatever becomes of the other legs.                *)
JointsComeBack ==
  joints # Nothing =>
    \A leg \in LegIndices :
      LET g == configuration[leg].geometry
      IN  tried[leg] # Nothing /\ OnBranch(g, tried[leg]) =>
            /\ joints[leg] = tried[leg]
            /\ status[leg] = IF WithinLimits(g, tried[leg]) THEN "Success"
                             ELSE "LimitViolation"

CrossProduct(a, b) ==
  <<a[2] * b[3] - a[3] * b[2], a[3] * b[1] - a[1] * b[3], a[1] * b[2] - a[2] * b[1]>>

(* A column of the Jacobian is the velocity of the foot when the leg turns *)
(* as a rigid body about that joint's axis, through that joint's pivot.    *)
JacobianIsVelocity ==
  tried # Nothing /\ ok = Nothing =>
    \A leg \in {l \in LegIndices : tried[l] # Nothing} :
      LET g == configuration[leg].geometry
          angles == ToLegAngles(g, tried[leg])
          hip == Turned(angles.coxa, g.coxa_length, g.lateral_offset, 0, 1)
          knee == Sum(hip, Turned(angles.coxa, g.femur_length * angles.femur.x, 0,
                                  g.femur_length * angles.femur.y, angles.femur.r))
          foot == ForwardKinematics(g, tried[leg])
          sideways == <<angles.coxa.y, -angles.coxa.x, 0>>
          velocity(sigma, axis, r, pivot) ==
            LET lever == Difference(foot, pivot)
                v == CrossProduct(axis, lever.v)
            IN  Point(<<sigma * v[1], sigma * v[2], sigma * v[3]>>, r * lever.d)
      IN  Jacobian(g, tried[leg]) =
            << velocity(g.sigma_coxa, <<0, 0, 1>>, 1, Origin),
               velocity(SigmaFemur, sideways, angles.coxa.r, hip),
               velocity(SigmaTibia, sideways, angles.coxa.r, knee) >>

=============================================================================
