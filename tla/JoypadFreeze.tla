---------------------------- MODULE JoypadFreeze ----------------------------
(***************************************************************************)
(* What the bridge promises (override_policy.h, doc/zeromq-bridge.md): two *)
(* sources want the robot, the joypad wins, and taking hold of it freezes  *)
(* the target pose until the joypad gives the robot back.  Nothing here    *)
(* says when the joypad lets go, or by which queues, clocks and polls the  *)
(* bridge keeps the promise.                                               *)
(***************************************************************************)
CONSTANTS Poses, NoPose

VARIABLES
  owner,    \* "stream" or "joypad"
  target    \* the pose the joints were last sent to

freezeVars == <<owner, target>>

Init == owner = "stream" /\ target = NoPose

(* The operator takes hold of the joypad. *)
Seize == owner = "stream" /\ owner' = "joypad" /\ UNCHANGED target

(* The joypad has been quiet for long enough. *)
Lapse == owner = "joypad" /\ owner' = "stream" /\ UNCHANGED target

(* The stream moves the target: only while it owns the robot. *)
Drive ==
  /\ owner = "stream"
  /\ target' \in Poses
  /\ UNCHANGED owner

Next == Seize \/ Lapse \/ Drive

Spec == Init /\ [][Next]_freezeVars

=============================================================================
