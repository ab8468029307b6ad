---------------------------- MODULE JointWriter ----------------------------
(***************************************************************************)
(* What the servo node promises to those who command it (servocontroller.h,*)
(* doc/architecture.md): it rests the joints before it listens, it keeps   *)
(* the newest pose only, and it writes one whole pose at a time, joint     *)
(* after joint, never part of one and part of another.  Boards, buses,     *)
(* retries and the ways a process can end are ServoController.tla's.       *)
(***************************************************************************)
EXTENDS Integers, Sequences

CONSTANTS
  Joints,    \* the joints there are
  Angles,    \* where a joint may be sent
  Poses      \* what may be commanded: sequences of [joint, angle]

VARIABLES
  listening,  \* whether the node has subscribed and spins
  home,       \* the rest position: [Joints -> angle]
  waiting,    \* the pose accepted last, or <<>>
  writing,    \* what is left of the pose being written
  joints      \* the angle each joint was last sent to

writerVars == <<listening, home, waiting, writing, joints>>

(* Whatever it takes to bring the joints to rest. *)
Prepare ==
  /\ ~listening
  /\ joints' \in [Joints -> Angles]
  /\ UNCHANGED <<listening, home, waiting, writing>>

(* Mutant: the node subscribes before its joints are at rest. *)
ListenEarly ==
  /\ ~listening
  /\ listening' = TRUE
  /\ UNCHANGED <<home, waiting, writing, joints>>

Listen ==
  /\ ~listening
  /\ joints = home
  /\ listening' = TRUE
  /\ UNCHANGED <<home, waiting, writing, joints>>

(* The newest pose replaces the one that waits. *)
Accept(pose) ==
  /\ listening
  /\ writing = <<>>
  /\ waiting' = pose
  /\ UNCHANGED <<listening, home, writing, joints>>

(* Mutant: the pose is copied instead of taken. *)
BeginAgain ==
  /\ listening
  /\ writing = <<>>
  /\ waiting # <<>>
  /\ writing' = waiting
  /\ UNCHANGED <<listening, home, waiting, joints>>

(* Mutant: a pose that would move nothing is left waiting. *)
BeginIfChanged ==
  /\ listening
  /\ writing = <<>>
  /\ \E k \in DOMAIN waiting :
       waiting[k].joint \in Joints /\ joints[waiting[k].joint] # waiting[k].angle
  /\ writing' = waiting
  /\ waiting' = <<>>
  /\ UNCHANGED <<listening, home, joints>>

Begin ==
  /\ listening
  /\ writing = <<>>
  /\ waiting # <<>>
  /\ writing' = waiting
  /\ waiting' = <<>>
  /\ UNCHANGED <<listening, home, joints>>

(* An entry for a joint there is not moves nothing. *)
WriteNext ==
  /\ listening
  /\ writing # <<>>
  /\ writing' = Tail(writing)
  /\ joints' = IF Head(writing).joint \in Joints
               THEN [joints EXCEPT ![Head(writing).joint] = Head(writing).angle]
               ELSE joints
  /\ UNCHANGED <<listening, home, waiting>>

(* The process ends, and with it what it has not written. *)
Halt ==
  /\ listening
  /\ listening' = FALSE
  /\ waiting' = <<>>
  /\ writing' = <<>>
  /\ UNCHANGED <<home, joints>>

Init ==
  /\ listening = FALSE
  /\ home \in [Joints -> Angles]
  /\ joints \in [Joints -> Angles]
  /\ waiting = <<>>
  /\ writing = <<>>

Next ==
  \/ Prepare \/ Listen \/ Begin \/ WriteNext \/ Halt
  \/ \E pose \in Poses : Accept(pose)

Spec == Init /\ [][Next]_writerVars

=============================================================================
