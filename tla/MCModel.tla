------------------------------ MODULE MCModel ------------------------------
(* Small instances of HexapodModel and SupportPolygon for TLC.  The model  *)
(* is immutable and StabilityMargin static, so no call to one bears on the *)
(* other: a behaviour asks for joints or for margins, never for both.      *)
EXTENDS HexapodModel, SupportPolygon, TLC

CONSTANT Size   \* the ground is a square grid of this many points a side

VARIABLE asksFor   \* "joints" or "margins"

-----------------------------------------------------------------------------
(* The polygon.  As the feet are put down in every order, it is enough to  *)
(* place them in one.                                                      *)

MCGround == [x : 0 .. Size - 1, y : 0 .. Size - 1]

PolygonInit ==
  /\ Init
  /\ \A leg \in Legs \ {0} : ~Before(feet[leg], feet[leg - 1])

-----------------------------------------------------------------------------
(* The legs, one on each side *)

MCKeys == <<"L_front", "R_front">>

Quarter == Direction(0, 1)

(* A leg as in legs.lua: the foot hangs about a quarter turn below the     *)
(* femur, and the plane of the leg misses the coxa's axis.                 *)
Leg(sigma, yaw) ==
  [coxa_length |-> 1, femur_length |-> 3, tibia_length |-> 4,
   lateral_offset |-> sigma, tibia_offset |-> Opposite(Quarter),
   sigma_coxa |-> sigma, joint_min |-> Opposite(Quarter), joint_max |-> Quarter,
   mount |-> [x |-> 2, y |-> -sigma, z |-> 0, yaw |-> yaw]]

Script(left, right) ==
  [result |-> "returned", legs |-> [L_front |-> left, R_front |-> right]]

MCSound == Script(Leg(-1, Direction(3, 4)), Leg(1, Direction(3, -4)))

(* Other robots: a straight leg with a long femur, and one whose hip folds *)
(* inwards, with another bend and an uneven travel.                        *)
Straight(leg) ==
  [leg EXCEPT !.femur_length = 4, !.tibia_length = 3, !.tibia_offset = NoTurn]

Folding(leg) ==
  [leg EXCEPT !.coxa_length = -1, !.femur_length = 6, !.tibia_length = 3,
              !.tibia_offset = Direction(-3, -4),
              !.joint_min = Direction(4, -3), !.joint_max = Direction(-3, 4)]

Altered(Change(_)) == Script(Change(MCSound.legs.L_front), Change(MCSound.legs.R_front))

(* One thing wrong with a leg. *)
Spoilt(leg) ==
  LET without(table, field) == [f \in DOMAIN table \ {field} |-> table[f]]
      geometry == GeometryFields
      mount == MountFields
  IN  {without(leg, f) : f \in geometry \cup {"mount"}}
        \cup {[leg EXCEPT ![f] = NotFinite] : f \in geometry}
        \cup {[leg EXCEPT ![f] = 0] : f \in {"femur_length", "tibia_length", "sigma_coxa"}}
        \cup {[leg EXCEPT !.joint_max = leg.joint_min]}
        \cup {[leg EXCEPT !.mount = without(@, f)] : f \in mount}
        \cup {[leg EXCEPT !.mount[f] = NotFinite] : f \in mount}

(* A leg missing, or any two things wrong with two legs, or with the right *)
(* one.                                                                    *)
SpoiltScripts ==
  LET left == MCSound.legs.L_front
      right == MCSound.legs.R_front
  IN  {Script(l, r) : l \in Spoilt(left) \cup {left}, r \in Spoilt(right)}
        \cup {Script(left, r) : r \in {[s EXCEPT !.sigma_coxa = 2] : s \in
                {t \in Spoilt(right) : "sigma_coxa" \in DOMAIN t}}}
        \cup {[MCSound EXCEPT !.legs = ("L_front" :> l)] : l \in Spoilt(left)}
        \cup {[MCSound EXCEPT !.result = "raised"], [MCSound EXCEPT !.legs = Nothing]}

MCScripts ==
  SpoiltScripts \cup {MCSound, Altered(Straight), Altered(Folding)}

MCBodies ==
  { [position |-> Origin, orientation |-> <<1, 0, 0, 0>>],
    [position |-> Point(<<1, -2, 3>>, 1), orientation |-> <<2, 1, 0, 0>>],
    [position |-> Point(<<0, 1, 1>>, 2), orientation |-> <<1, 1, 1, 1>>] }

(* The quarter turns, and as many angles between them. *)
MCAngles == {Direction(x, y) : x \in {3, 0, -3}, y \in {4, 0, -4}}

(* One leg goes through all angles, the others stay where they are. *)
MCPoses ==
  {[Rest EXCEPT ![leg] = <<coxa, femur, tibia>>] :
     leg \in LegIndices, coxa \in {NoTurn, Opposite(Quarter), Direction(3, 4), Direction(-3, 4)},
     femur \in MCAngles, tibia \in MCAngles}

(* Beneath the hip, far away, too near to the femur's pivot, and as far    *)
(* and as near as these robots' legs go.                                   *)
MCAims ==
  {Point(<<0, 0, -1>>, 1), Point(<<11, 1, 0>>, 1), Point(<<1, 1, 0>>, 1),
   Point(<<8, 1, 0>>, 1), Point(<<2, -1, 0>>, 1)}

-----------------------------------------------------------------------------

Corner == [x |-> 0, y |-> 0]

MCInit ==
  /\ ModelInit
  /\ \/ /\ asksFor = "margins"
        /\ script = Sound
        /\ PolygonInit
     \/ /\ asksFor = "joints"
        /\ feet = [leg \in Legs |-> Corner]
        /\ com = Corner
        /\ supporting = <<>>
        /\ margin = NoSupport

MCNext ==
  \/ asksFor = "margins" /\ Next /\ UNCHANGED <<asksFor, modelVars>>
  \/ asksFor = "joints" /\ ModelNext /\ UNCHANGED <<asksFor, vars>>

MCSpec == MCInit /\ [][MCNext]_<<asksFor, modelVars, vars>>
=============================================================================
