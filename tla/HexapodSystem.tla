---------------------------- MODULE HexapodSystem ----------------------------
(***************************************************************************)
(* The two nodes between a pose sender and the joints, put together as     *)
(* hexapod_bridge/launch/hexapod.launch.py does: hexapod_bridge publishes  *)
(* joint commands, hexapod_servomotor subscribes to them.                  *)
(*                                                                         *)
(* The bridge is Bridge.tla.  The servo node is JointWriter.tla, which     *)
(* ServoController.tla implements; the nodes share the command topic and   *)
(* nothing else, each runs at its own pace, and the servo node may end and *)
(* be started again at any time.  A pose names every joint, as the poses   *)
(* of tools/hexapod_pose_sender.py do.                                     *)
(***************************************************************************)
EXTENDS Bridge

CONSTANTS
  JointCount,  \* the joints of the robot, 18
  Rest,        \* the angle homing.lua gives every joint
  MaxHalts     \* bound: how often the servo node ends

ASSUME SystemAssumption ==
  /\ JointCount \in Nat \ {0}
  /\ Rest \notin Poses \cup {NoPose}
  /\ MaxHalts \in Nat

Joints == 1 .. JointCount

VARIABLES
  listening, home, waiting, writing, joints,   \* JointWriter's
  halts,     \* how often the servo node has ended
  begun,     \* poses it began since the joypad last took the robot
  current    \* whether it has accepted the pose published last

servoVars  == <<listening, home, waiting, writing, joints, halts>>
systemVars == <<vars, servoVars, begun, current>>

(* In the composition the angle of a joint is the pose it comes from.      *)
Pose(p) == [k \in Joints |-> [joint |-> k, angle |-> p]]

Servo == INSTANCE JointWriter WITH
  Angles <- Poses \cup {Rest},
  Poses  <- {Pose(p) : p \in Poses}

AllAt(angle) == [j \in Joints |-> angle]

-----------------------------------------------------------------------------

SystemInit ==
  /\ Init
  /\ listening = TRUE
  /\ home = AllAt(Rest)
  /\ joints = AllAt(Rest)
  /\ waiting = <<>>
  /\ writing = <<>>
  /\ halts = 0
  /\ begun = 0
  /\ current = FALSE

Frozen == OverrideActive(policy, now)

(* The bridge, its operator and its sender move.  Lost and malformed poses *)
(* and the noise of the sticks change what the bridge reports, not what it *)
(* publishes, and are left to Bridge.tla.                                  *)
BridgeStep ==
  /\ \/ Node \/ Tick \/ PressButton \/ MoveStick("push") \/ RestartSender
     \/ \E pose \in Poses : SendPose(pose)
  /\ begun' = IF Frozen' /\ ~Frozen THEN 0 ELSE begun
  /\ current' = (current /\ ~Published)
  /\ UNCHANGED servoVars

(* The command is delivered: the topic's slot empties into the node.       *)
Deliver ==
  /\ TakeCommand
  /\ Servo!Accept(Pose(Head(jointCommand)))
  /\ current' = TRUE
  /\ UNCHANGED <<halts, begun>>

BeginPose ==
  /\ Servo!Begin
  /\ begun' = IF Frozen THEN begun + 1 ELSE begun
  /\ UNCHANGED <<vars, halts, current>>

WriteJoint == Servo!WriteNext /\ UNCHANGED <<vars, halts, begun, current>>

(* The servo node ends; a command it has not taken goes with it.           *)
HaltServo ==
  /\ halts < MaxHalts
  /\ Servo!Halt
  /\ halts' = halts + 1
  /\ jointCommand' = <<>>
  /\ current' = FALSE
  /\ UNCHANGED <<begun, now, executor, policy, streamWasDriving, lastSequence,
                 seenSequence, rejected, forwarded, commanded, joypadVars,
                 senderVars, dropVars, socketVars>>

(* Nobody has subscribed yet: the command goes nowhere.                    *)
MissCommand ==
  /\ ~listening
  /\ TakeCommand
  /\ UNCHANGED <<servoVars, begun, current>>

(* It is started again, homes one joint after the other, and listens.      *)
HomeJoint ==
  /\ ~listening
  /\ \E j \in Joints :
       /\ joints[j] # Rest
       /\ joints' = [joints EXCEPT ![j] = Rest]
  /\ UNCHANGED <<vars, listening, home, waiting, writing, halts, begun,
                 current>>

ListenAgain == Servo!Listen /\ UNCHANGED <<vars, halts, begun, current>>

ServoStep ==
  Deliver \/ BeginPose \/ WriteJoint \/ HaltServo \/ MissCommand
  \/ HomeJoint \/ ListenAgain

SystemNext == BridgeStep \/ ServoStep

SystemSpec == SystemInit /\ [][SystemNext]_systemVars

(* Both executors run what is ready, and a message that waits is delivered.*)
SystemFairness ==
  /\ WF_systemVars(Deliver)
  /\ SF_systemVars(BeginPose)
  /\ WF_systemVars(WriteJoint)
  /\ WF_systemVars(HomeJoint)
  /\ WF_systemVars(ListenAgain)

FairSystemSpec == SystemSpec /\ SystemFairness

-----------------------------------------------------------------------------
(* Properties. *)

Idle == listening /\ waiting = <<>> /\ writing = <<>>

(* What still has to be written, seen from the bridge. *)
Settled == Idle /\ jointCommand = <<>>

(* Taking hold of the joypad does not stop the joints at once: the pose    *)
(* that waits in the servo node and the one in the topic may still begin.  *)
(* No third one ever does, however long the writes take.                   *)
FreezeLag == Frozen => begun <= 2

(* When nothing is left to write, the robot stands in one pose: the one    *)
(* the bridge published last if the servo node has taken it, and never a   *)
(* mixture of two, whether or not the joypad froze the stream in between.  *)
StandsInOnePose ==
  Idle => /\ \E angle \in Poses \cup {Rest} : joints = AllAt(angle)
          /\ current => joints = AllAt(commanded)

(* Once the joints have come to rest under the joypad they stay there: they*)
(* move again when it gives the robot back or the servo node ends.         *)
FreezeHolds ==
  [][Settled /\ Frozen /\ Frozen' /\ listening' =>
       Settled' /\ joints' = joints]_systemVars

(* An operator who holds on sees the joints come to rest.                  *)
FreezeSettles == []<>(Settled \/ ~Frozen)

(* README.md:9: touching the joypad freezes the joints wherever the last   *)
(* pose left them: the servo node begins no pose while the joypad holds.   *)
TouchFreezesJoints == Frozen => begun = 0

=============================================================================
